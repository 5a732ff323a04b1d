-------------------------- MODULE DeviceMountsProofs --------------------------
(***************************************************************************)
(* Proofs about DeviceMounts, for any calls, disks, sticks and names and   *)
(* any number of calls at a time.                                          *)
(***************************************************************************)
EXTENDS DeviceMounts, SequenceTheorems, TLAPS

(* Stacks of mounts. *)

LEMMA Pushed ==
    ASSUME NEW s \in Seq(Entry), NEW e \in Entry
    PROVE  /\ Append(s, e) \in Seq(Entry) /\ Append(s, e) # s
           /\ ToSet(Append(s, e)) = ToSet(s) \union {e}
           /\ Len(Append(s, e)) = Len(s) + 1
<1> DEFINE n == Len(s) + 1
<1>1. /\ Append(s, e) \in Seq(Entry) /\ Len(Append(s, e)) = n
      /\ DOMAIN Append(s, e) = DOMAIN s \union {n} /\ n \notin DOMAIN s
      /\ Append(s, e)[n] = e /\ \A i \in DOMAIN s : Append(s, e)[i] = s[i]
  OBVIOUS
<1>2. Append(s, e) # s
  BY <1>1
<1> HIDE DEF n
<1>3. ToSet(Append(s, e)) = ToSet(s) \union {e}
  BY <1>1 DEF ToSet
<1> QED BY <1>1, <1>2, <1>3 DEF n

LEMMA Popped ==
    ASSUME NEW s \in Seq(Entry), s # << >>
    PROVE  /\ Front(s) \in Seq(Entry) /\ Len(Front(s)) = Len(s) - 1
           /\ Last(s) \in ToSet(s) /\ ToSet(Front(s)) \subseteq ToSet(s)
           /\ \A e \in ToSet(s) : e # Last(s) => e \in ToSet(Front(s))
<1> DEFINE n == Len(s)
           f == Front(s)
<1>1. n \in Nat \ {0} /\ DOMAIN s = 1..n /\ Last(s) = s[n]
  BY EmptySeq DEF Last
<1>2. /\ f \in Seq(Entry) /\ Len(f) = n - 1 /\ DOMAIN f = 1..(n - 1)
      /\ \A i \in 1..(n - 1) : f[i] = s[i]
  BY <1>1 DEF Front
<1> HIDE DEF n, f
<1>3. n \in DOMAIN s /\ \A i \in DOMAIN s : i = n \/ i \in DOMAIN f
  BY <1>1, <1>2
<1>4. \A i \in DOMAIN f : i \in DOMAIN s /\ f[i] = s[i]
  BY <1>1, <1>2
<1>5. Last(s) \in ToSet(s) /\ ToSet(f) \subseteq ToSet(s)
  BY <1>1, <1>3, <1>4 DEF ToSet
<1>6. \A e \in ToSet(s) : e # Last(s) => e \in ToSet(f)
  BY <1>1, <1>3, <1>4 DEF ToSet
<1> QED BY <1>2, <1>5, <1>6 DEF n, f

LEMMA StackType == ASSUME NEW s \in Seq(Entry) PROVE Len(s) \in Nat /\ ToSet(s) \subseteq Entry /\ (s # << >> => Len(s) # 0)
BY EmptySeq DEF ToSet

LEMMA EmptyStack == << >> \in Seq(Entry) /\ Len(<< >>) = 0 /\ ToSet(<< >>) = {}
BY DEF ToSet

LEMMA CallType == ASSUME NEW c \in Calls
                  PROVE  /\ c.op \in NameOps \union DiskOps
                         /\ c.op \in NameOps => c.dev \in Names
                         /\ c.op \in DiskOps => c.dev \in Sticks
BY CallAssumption DEF NameOps, DiskOps, PadOps
------------------------------------------------------------------------------
(* The invariant. *)

\* The parts of TypeOK.
DiskTypes == /\ where \in [Disks -> Names \union {"out"}]
             /\ mounts \in [Points -> Seq(Entry)] /\ spawned \subseteq Names
             /\ pad \in [Disks -> Pads] /\ saved \in [Disks -> (SUBSET Pads) \ {{}}]
             /\ plugs \in 0..MaxPlugs /\ pinned \subseteq Disks /\ spoilt \subseteq Disks
CallTypes == /\ call \in [Slots -> Calls \union {NoCall}] /\ at \in [Slots -> Labels]
             /\ count \in [Slots -> 0..MaxWait] /\ held \in [Slots -> Entry \union {NoEntry}]
             /\ seen \in [Slots -> Pads \union {""}] /\ answer \in [Slots -> Answers]
             /\ issued \in 0..MaxCalls /\ misled \subseteq Slots
Types == DiskTypes /\ CallTypes /\ disturbed \in [Slots -> BOOLEAN]
HeldOK == \A p \in Slots : IF at[p] \in {"read", "write"}
                           THEN held[p] \in ToSet(mounts[Dev(p)]) ELSE held[p] = NoEntry

LEMMA TypeParts == TypeOK <=> Types /\ HeldOK
BY DEF TypeOK, Types, DiskTypes, CallTypes, HeldOK

\* What a call that has come so far is about.
CallOK == \A p \in Slots :
    /\ at[p] # "idle" => call[p] \in Calls
    /\ at[p] \in {"mount", "ntfs", "wait"} => Dev(p) \in Names
    /\ at[p] \in {"mount uuid", "read", "write"} => Dev(p) \in Sticks
    /\ at[p] = "write" => call[p].op \in PadOps \ {"getpad"}

\* On the point of a name are mounts of that name, on the point of a UUID mounts of that
\* disk, and a name stands for one disk at a time, in the table as well.
TableOK ==
    /\ \A q \in Points : \A e \in ToSet(mounts[q]) :
           /\ q \in Disks => e.disk = q
           /\ q \in Names => e.name = q
           /\ \A d \in Disks : where[d] = e.name => e.disk = d
    /\ \A d, e \in Disks : where[d] = where[e] /\ where[d] # "out" => d = e

\* An empty pad is known to be lost, or a call has yet to write it and can.
PadOK == \A d \in Sticks : pad[d] = "empty" => d \in spoilt \/ \E p \in Writers(d) : Live(held[p])

\* What mountusb is about to hide could not be unmounted.
PinOK == /\ OnePerPoint
         /\ \A p \in Slots : at[p] = "mount uuid" /\ ~disturbed[p] =>
                \A e \in ToSet(mounts[Dev(p)]) : e.disk \in pinned

Inv == TypeOK /\ CallOK /\ TableOK /\ PadOK /\ PinOK

LEMMA InitInv == Init => Inv
<1> SUFFICES ASSUME Init PROVE Inv
  OBVIOUS
<1> USE DiskAssumption, BoundAssumption DEF Init
<1>1. \A q \in Points : mounts[q] = << >> /\ ToSet(mounts[q]) = {} /\ Len(mounts[q]) = 0
  BY EmptyStack
<1>2. TypeOK
  <2>1. mounts \in [Points -> Seq(Entry)]
    BY EmptyStack
  <2>2. pad \in [Disks -> Pads] /\ saved \in [Disks -> (SUBSET Pads) \ {{}}]
    BY DEF Pads
  <2>3. /\ at \in [Slots -> Labels] /\ answer \in [Slots -> Answers] /\ seen \in [Slots -> Pads \union {""}]
        /\ call \in [Slots -> Calls \union {NoCall}] /\ held \in [Slots -> Entry \union {NoEntry}]
        /\ count \in [Slots -> 0..MaxWait]
    BY DEF Labels, Answers, Pads
  <2>4. disturbed \in [Slots -> BOOLEAN]
    OBVIOUS
  <2>5. HeldOK
    BY DEF HeldOK
  <2>6. /\ where \in [Disks -> Names \union {"out"}] /\ spawned \subseteq Names
        /\ issued \in 0..MaxCalls /\ plugs \in 0..MaxPlugs /\ pinned \subseteq Disks /\ spoilt \subseteq Disks /\ misled \subseteq Slots
    OBVIOUS
  <2>7. Types
    <3> HIDE DEF Init
    <3> QED BY <2>1, <2>2, <2>3, <2>4, <2>6 DEF Types, DiskTypes, CallTypes
  <2> QED BY <2>5, <2>7, TypeParts
<1>3. CallOK
  BY DEF CallOK
<1>4. TableOK
  BY <1>1 DEF TableOK
<1>5. PadOK
  BY DEF PadOK
<1>6. PinOK
  BY <1>1 DEF PinOK, OnePerPoint
<1> QED BY <1>2, <1>3, <1>4, <1>5, <1>6 DEF Inv
------------------------------------------------------------------------------
(* What is kept by steps that do not concern it. *)

Shrunk == \A q \in Points : ToSet(mounts'[q]) \subseteq ToSet(mounts[q]) /\ Len(mounts'[q]) <= Len(mounts[q])

LEMMA TableKept == ASSUME TableOK, where' = where, Shrunk PROVE TableOK'
BY DEF TableOK, Shrunk

LEMMA PadKeptOK ==
    ASSUME PadOK, UNCHANGED <<where, pad, spoilt>>,
           \A p \in Slots : at[p] = "write" => at'[p] = "write" /\ call'[p] = call[p] /\ held'[p] = held[p]
    PROVE  PadOK'
BY DEF PadOK, Writers, Dev, Live

LEMMA Longer == \A m, n \in Nat : m <= n /\ m > 1 => n > 1
OBVIOUS

LEMMA PinKept ==
    ASSUME Inv, Shrunk, mounts' \in [Points -> Seq(Entry)], pinned \subseteq pinned',
           \A p \in Slots : at'[p] = "mount uuid" /\ ~disturbed'[p] =>
               at[p] = "mount uuid" /\ ~disturbed[p] /\ call'[p] = call[p]
    PROVE  PinOK'
<1> USE DiskAssumption
<1>1. OnePerPoint'
  <2> SUFFICES ASSUME NEW q \in Points, Len(mounts'[q]) > 1
               PROVE  \A e \in ToSet(mounts'[q]) : e.disk \in pinned'
    BY DEF OnePerPoint
  <2>1. mounts[q] \in Seq(Entry) /\ mounts'[q] \in Seq(Entry)
    BY DEF Inv, TypeOK
  <2>2. Len(mounts[q]) \in Nat /\ Len(mounts'[q]) \in Nat
    BY <2>1, StackType
  <2>3. Len(mounts[q]) > 1
    BY <2>2, Longer, Zenon DEF Shrunk
  <2> QED BY <2>3 DEF Inv, PinOK, OnePerPoint, Shrunk
<1>2. ASSUME NEW p \in Slots, at'[p] = "mount uuid", ~disturbed'[p]
      PROVE  \A e \in ToSet(mounts'[Dev(p)']) : e.disk \in pinned'
  <2>1. at[p] = "mount uuid" /\ ~disturbed[p] /\ Dev(p)' = Dev(p) /\ Dev(p) \in Points
    BY <1>2 DEF Dev, Inv, CallOK, Points
  <2> QED BY <2>1 DEF Inv, PinOK, Shrunk
<1> QED BY <1>1, <1>2 DEF PinOK

LEMMA ShrunkSame == ASSUME TypeOK, mounts' = mounts PROVE Shrunk /\ mounts' \in [Points -> Seq(Entry)]
<1>1. \A q \in Points : mounts[q] \in Seq(Entry)
  BY DEF TypeOK
<1>2. \A q \in Points : Len(mounts[q]) \in Nat
  BY <1>1, StackType
<1>3. \A q \in Points : mounts'[q] = mounts[q] /\ Len(mounts[q]) <= Len(mounts[q])
  BY <1>2
<1>4. \A q \in Points : ToSet(mounts'[q]) \subseteq ToSet(mounts[q]) /\ Len(mounts'[q]) <= Len(mounts[q])
  <2> TAKE q \in Points
  <2>1. mounts'[q] = mounts[q]
    BY <1>3
  <2> QED BY <2>1, <1>3, Zenon
<1>5. mounts' \in [Points -> Seq(Entry)]
  BY DEF TypeOK
<1> QED BY <1>4, <1>5, Zenon DEF Shrunk

LEMMA OthersFact ==
    ASSUME TypeOK, NEW p \in Slots, disturbed' = Others(p)
    PROVE  /\ disturbed' \in [Slots -> BOOLEAN]
           /\ \A q \in Slots : ~disturbed'[q] => ~disturbed[q] /\ (q = p \/ at[q] = "idle")
<1>1. \A q \in Slots : disturbed'[q] = (disturbed[q] \/ (q # p /\ at[q] # "idle"))
  BY Zenon DEF Others
<1> QED BY <1>1, Zenon DEF Others

\* Files stay open on mounts of the table.
HeldStay == \A q \in Slots : at[q] \in {"read", "write"} => held[q] \in ToSet(mounts'[Dev(q)])

\* A step of one call that opens and closes no file.
SlotStep(p) ==
    /\ Inv /\ Types' /\ HeldStay /\ held' = held
    /\ \A q \in Slots : q # p => at'[q] = at[q] /\ call'[q] = call[q] /\ (disturbed[q] => disturbed'[q])
    /\ at[p] \notin {"read", "write"} /\ at'[p] \notin {"read", "write"}
    /\ at'[p] # "idle" => call'[p] \in Calls
    /\ at'[p] \in {"mount", "ntfs", "wait"} => call'[p].dev \in Names
    /\ at'[p] = "mount uuid" => call'[p].dev \in Sticks

LEMMA SlotFrame == ASSUME NEW p \in Slots, SlotStep(p), TableOK', PadOK', PinOK' PROVE Inv'
<1>1. HeldOK'
  <2> SUFFICES ASSUME NEW q \in Slots
               PROVE  IF at'[q] \in {"read", "write"} THEN held'[q] \in ToSet(mounts'[Dev(q)']) ELSE held'[q] = NoEntry
    BY DEF HeldOK, Dev
  <2>1. IF at[q] \in {"read", "write"} THEN held[q] \in ToSet(mounts[Dev(q)]) ELSE held[q] = NoEntry
    BY DEF SlotStep, Inv, TypeOK
  <2>2. CASE q = p
    BY <2>1, <2>2 DEF SlotStep
  <2>3. CASE q # p
    BY <2>1, <2>3 DEF SlotStep, HeldStay, Dev
  <2> QED BY <2>2, <2>3
<1>2. CallOK'
  BY DEF CallOK, Inv, SlotStep, Dev
<1>3. TypeOK'
  BY <1>1, TypeParts, PTL DEF SlotStep
<1> QED BY <1>2, <1>3 DEF Inv

LEMMA PadStay == ASSUME NEW p \in Slots, SlotStep(p), UNCHANGED <<where, pad, spoilt>> PROVE PadOK'
<1>1. \A q \in Slots : at[q] = "write" => at'[q] = "write" /\ call'[q] = call[q] /\ held'[q] = held[q]
  BY DEF SlotStep
<1> QED BY <1>1, PadKeptOK DEF SlotStep, Inv

\* Mounts come on one point only, and go.
LEMMA PinStay ==
    ASSUME NEW p \in Slots, SlotStep(p), pinned \subseteq pinned', OnePerPoint',
           \A q \in Slots : at[q] = "mount uuid" /\ ~disturbed'[q] /\ q # p =>
               ToSet(mounts'[Dev(q)]) \subseteq ToSet(mounts[Dev(q)]),
           at'[p] = "mount uuid" /\ ~disturbed'[p] => \A e \in ToSet(mounts'[Dev(p)']) : e.disk \in pinned'
    PROVE  PinOK'
<1> SUFFICES ASSUME NEW q \in Slots, at'[q] = "mount uuid", ~disturbed'[q], q # p
             PROVE  \A e \in ToSet(mounts'[Dev(q)']) : e.disk \in pinned'
  BY DEF PinOK
<1>1. at[q] = "mount uuid" /\ Dev(q)' = Dev(q) /\ ~disturbed[q]
  BY DEF SlotStep, Dev
<1>2. \A e \in ToSet(mounts[Dev(q)]) : e.disk \in pinned
  BY <1>1 DEF SlotStep, Inv, PinOK
<1>3. ToSet(mounts'[Dev(q)]) \subseteq ToSet(mounts[Dev(q)])
  BY <1>1
<1> QED BY <1>1, <1>2, <1>3

\* Steps that change no mount.
LEMMA SameHeld == ASSUME TypeOK, mounts' = mounts PROVE HeldStay
BY DEF TypeOK, HeldStay

LEMMA QuietFrame ==
    ASSUME NEW p \in Slots, SlotStep(p), UNCHANGED <<where, pad, spoilt, mounts, pinned>>, at'[p] # "mount uuid"
    PROVE  Inv'
<1>1. TypeOK /\ TableOK /\ OnePerPoint
  BY DEF SlotStep, Inv, PinOK
<1>2. TableOK'
  BY <1>1, ShrunkSame, TableKept DEF SlotStep
<1>3. OnePerPoint'
  BY <1>1 DEF OnePerPoint
<1>4. PinOK'
  BY <1>3, PinStay
<1> QED BY <1>2, <1>4, PadStay, SlotFrame
------------------------------------------------------------------------------
(* Steps that change no mount and no pad. *)

LEMMA SameDiskTypes == ASSUME DiskTypes, UNCHANGED <<diskVars, plugs, pinned, spoilt>> PROVE DiskTypes'
BY DEF DiskTypes, diskVars

LEMMA BeginInv == ASSUME Inv, NEW p \in Slots, NEW c \in Calls, Begin(p, c) PROVE Inv'
<1>1. DiskTypes /\ CallTypes /\ disturbed \in [Slots -> BOOLEAN]
  BY TypeParts DEF Inv, Types
<1>2. DiskTypes' /\ UNCHANGED <<disturbed, where, pad, spoilt, mounts, pinned>>
  BY <1>1, SameDiskTypes DEF Begin, history, diskVars
<1>3. CallTypes'
  <2>1. call' \in [Slots -> Calls \union {NoCall}]
    BY <1>1 DEF CallTypes, Begin
  <2>2. at' \in [Slots -> Labels]
    BY <1>1 DEF CallTypes, Begin, Labels
  <2>3. UNCHANGED <<count, held, seen, answer, misled>>
    BY DEF Begin, history
  <2>4. issued' \in 0..MaxCalls
    <3>1. issued \in 0..MaxCalls /\ issued < MaxCalls /\ issued' = issued + 1
      BY <1>1 DEF CallTypes, Begin
    <3> QED BY <3>1, BoundAssumption
  <2> QED BY <1>1, <2>1, <2>2, <2>3, <2>4 DEF CallTypes
<1>4. SlotStep(p)
  BY <1>1, <1>2, <1>3, SameHeld DEF SlotStep, Inv, Types, CallTypes, Begin
<1>5. at'[p] # "mount uuid"
  BY <1>1 DEF CallTypes, Begin
<1> QED BY <1>2, <1>4, <1>5, QuietFrame

LEMMA AnswerInv == ASSUME Inv, NEW p \in Slots, Answer(p) PROVE Inv'
<1>1. DiskTypes /\ CallTypes /\ disturbed \in [Slots -> BOOLEAN]
  BY TypeParts DEF Inv, Types
<1>2. disturbed' \in [Slots -> BOOLEAN] /\ \A q \in Slots : q # p => (disturbed[q] => disturbed'[q])
  BY <1>1, Zenon DEF Answer
<1>3. DiskTypes' /\ UNCHANGED <<where, pad, spoilt, mounts, pinned>>
  BY <1>1, SameDiskTypes DEF Answer, bounds, diskVars
<1>4. CallTypes'
  <2>1. call' \in [Slots -> Calls \union {NoCall}]
    BY <1>1 DEF CallTypes, Answer
  <2>2. at' \in [Slots -> Labels]
    BY <1>1 DEF CallTypes, Answer, Labels
  <2>3. count' \in [Slots -> 0..MaxWait]
    <3>1. 0 \in 0..MaxWait
      BY BoundAssumption
    <3> QED BY <1>1, <3>1 DEF CallTypes, Answer
  <2>4. seen' \in [Slots -> Pads \union {""}] /\ answer' \in [Slots -> Answers]
    BY <1>1 DEF CallTypes, Answer, Answers, Pads
  <2>5. UNCHANGED <<held, issued>>
    BY DEF Answer, bounds
  <2>6. misled' \subseteq Slots
    BY <1>1 DEF CallTypes, Answer
  <2> QED BY <1>1, <2>1, <2>2, <2>3, <2>4, <2>5, <2>6 DEF CallTypes
<1>5. SlotStep(p)
  BY <1>1, <1>2, <1>3, <1>4, SameHeld DEF SlotStep, Inv, Types, CallTypes, Answer
<1>6. at'[p] # "mount uuid"
  BY <1>1 DEF CallTypes, Answer
<1> QED BY <1>3, <1>5, <1>6, QuietFrame

\* A call that goes on, or answers.
Moved(p, to) == /\ at' = [at EXCEPT ![p] = to]
                /\ answer' = answer \/ \E v \in Answers : answer' = [answer EXCEPT ![p] = v]
                /\ misled' = misled \/ misled' = misled \union {p}
                /\ UNCHANGED <<call, held, seen, issued>>

OnTheWay == Labels \ {"idle", "read", "write"}

LEMMA MovedSlot ==
    ASSUME Inv, NEW p \in Slots, NEW to \in OnTheWay, at[p] \in OnTheWay, Moved(p, to),
           count' \in [Slots -> 0..MaxWait], DiskTypes', HeldStay,
           disturbed' \in [Slots -> BOOLEAN], \A q \in Slots : q # p => (disturbed[q] => disturbed'[q]),
           to \in {"mount", "ntfs", "wait"} => Dev(p) \in Names, to = "mount uuid" => Dev(p) \in Sticks
    PROVE  SlotStep(p) /\ at'[p] = to /\ Dev(p)' = Dev(p) /\ call[p] \in Calls
<1>1. CallTypes
  BY TypeParts DEF Inv, Types
<1>2. CallTypes'
  <2>1. at' \in [Slots -> Labels]
    BY <1>1 DEF CallTypes, Moved, OnTheWay
  <2>2. answer' \in [Slots -> Answers]
    BY <1>1 DEF CallTypes, Moved
  <2> QED BY <1>1, <2>1, <2>2 DEF CallTypes, Moved
<1>3. at'[p] = to /\ \A q \in Slots : q # p => at'[q] = at[q]
  BY <1>1 DEF CallTypes, Moved
<1>4. call[p] \in Calls /\ call' = call
  BY DEF Inv, CallOK, Moved, OnTheWay
<1> QED BY <1>2, <1>3, <1>4 DEF SlotStep, Types, OnTheWay, Moved, Dev

LEMMA QuietMove ==
    ASSUME Inv, NEW p \in Slots, NEW to \in OnTheWay \ {"mount uuid"}, at[p] \in OnTheWay, Moved(p, to),
           count' \in [Slots -> 0..MaxWait], UNCHANGED <<diskVars, plugs, history>>,
           to \in {"mount", "ntfs", "wait"} => Dev(p) \in Names
    PROVE  Inv'
<1>1. DiskTypes /\ disturbed \in [Slots -> BOOLEAN] /\ TypeOK
  BY TypeParts DEF Inv, Types
<1>2. DiskTypes' /\ disturbed' = disturbed /\ UNCHANGED <<where, pad, spoilt, mounts, pinned>>
  BY <1>1, SameDiskTypes DEF history, diskVars
<1>3. HeldStay
  BY <1>1, <1>2, SameHeld
<1>4. SlotStep(p) /\ at'[p] = to
  BY <1>1, <1>2, <1>3, MovedSlot
<1> QED BY <1>2, <1>4, QuietFrame

LEMMA OnTheWayFacts ==
    ASSUME Inv, NEW p \in Slots
    PROVE  /\ at[p] \in {"begun", "mount", "ntfs", "wait", "mount uuid"} => at[p] \in OnTheWay
           /\ at[p] \in {"mount", "ntfs", "wait"} => Dev(p) \in Names
           /\ at[p] = "mount uuid" => Dev(p) \in Sticks
           /\ at[p] = "begun" => /\ call[p] \in Calls
                                 /\ call[p].op \in NameOps => Dev(p) \in Names
                                 /\ call[p].op \in DiskOps => Dev(p) \in Sticks
           /\ count \in [Slots -> 0..MaxWait]
<1>1. at[p] = "begun" => call[p] \in Calls
  BY DEF Inv, CallOK
<1> QED BY <1>1, CallType DEF OnTheWay, Labels, Inv, CallOK, TypeOK, Dev

LEMMA LookInv == ASSUME Inv, NEW p \in Slots, Look(p) PROVE Inv'
<1>1. at[p] \in OnTheWay /\ Dev(p) \in Names /\ count' \in [Slots -> 0..MaxWait]
  <2>1. at[p] = "begun" /\ call[p].op \in NameOps /\ count' = count
    BY DEF Look, Begun, NameOps
  <2>2. Dev(p) \in Names
    BY <2>1, OnTheWayFacts
  <2>3. at[p] \in OnTheWay /\ count \in [Slots -> 0..MaxWait]
    BY <2>1, OnTheWayFacts
  <2> QED BY <2>1, <2>2, <2>3
<1>2. PICK to \in {"answer", "mount", "ntfs"} : Moved(p, to)
  BY DEF Look, Says, Goto, Moved, Answers, bounds, history
<1>3. to \in OnTheWay \ {"mount uuid"} /\ UNCHANGED <<diskVars, plugs, history>>
  BY DEF OnTheWay, Labels, Look, bounds
<1> QED BY <1>1, <1>2, <1>3, QuietMove

LEMMA WaitInv == ASSUME Inv, NEW p \in Slots, Wait(p) PROVE Inv'
<1>1. at[p] \in OnTheWay /\ Dev(p) \in Names /\ count \in [Slots -> 0..MaxWait]
  BY OnTheWayFacts DEF Wait
<1>2. count' \in [Slots -> 0..MaxWait]
  <2>1. count' = count \/ (count' = [count EXCEPT ![p] = @ + 1] /\ count[p] # MaxWait)
    BY DEF Wait
  <2>2. count[p] # MaxWait => count[p] + 1 \in 0..MaxWait
    BY <1>1, BoundAssumption
  <2> QED BY <1>1, <2>1, <2>2
<1>3. PICK to \in {"answer", "wait"} : Moved(p, to)
  <2>1. CASE LooksMounted(Dev(p)) \/ count[p] = MaxWait
    <3>1. Moved(p, "answer")
      BY <2>1 DEF Wait, Says, Moved, Answers, bounds, history
    <3> QED BY <3>1
  <2>2. CASE ~(LooksMounted(Dev(p)) \/ count[p] = MaxWait)
    <3>1. at' = at /\ answer' = answer /\ at[p] = "wait" /\ UNCHANGED <<call, held, seen, issued, misled>>
      BY <2>2 DEF Wait, bounds, history
    <3>2. at' = [at EXCEPT ![p] = "wait"]
      BY <3>1 DEF Inv, TypeOK
    <3>3. Moved(p, "wait")
      BY <3>1, <3>2 DEF Moved
    <3> QED BY <3>3
  <2> QED BY <2>1, <2>2
<1>4. to \in OnTheWay \ {"mount uuid"} /\ UNCHANGED <<diskVars, plugs, history>>
  BY DEF OnTheWay, Labels, Wait, bounds
<1> QED BY <1>1, <1>2, <1>3, <1>4, QuietMove

LEMMA TellInv == ASSUME Inv, NEW p \in Slots, GetStatus(p) \/ CheckUuid(p) PROVE Inv'
<1>1. at[p] \in OnTheWay /\ count' \in [Slots -> 0..MaxWait]
  BY OnTheWayFacts DEF GetStatus, CheckUuid, Begun
<1>2. Moved(p, "answer")
  BY DEF GetStatus, CheckUuid, Status, Says, Moved, Answers, bounds, history
<1>3. "answer" \in OnTheWay \ {"mount uuid"} /\ UNCHANGED <<diskVars, plugs, history>>
  BY DEF OnTheWay, Labels, GetStatus, CheckUuid, bounds
<1> QED BY <1>1, <1>2, <1>3, QuietMove
------------------------------------------------------------------------------
(* Mounting. *)

LEMMA OnePoint == ASSUME NEW q \in Points, TypeOK
                  PROVE  mounts[q] \in Seq(Entry) /\ ToSet(mounts[q]) \subseteq Entry /\ Len(mounts[q]) \in Nat
BY StackType DEF TypeOK

\* A disk is mounted on the point of its name, or of its UUID.
LEMMA MountStep ==
    ASSUME Inv, NEW d \in Disks, NEW point \in Points, CanMount(d, point), Mounted(d, point), where' = where,
           point \in Names => where[d] = point, point \in Disks => d = point
    PROVE  /\ mounts' \in [Points -> Seq(Entry)] /\ mounts' # mounts
           /\ \A q \in Points : q # point => mounts'[q] = mounts[q]
           /\ Len(mounts'[point]) = Len(mounts[point]) + 1
           /\ HeldStay /\ TableOK'
           /\ \A e \in ToSet(mounts'[point]) : e \in ToSet(mounts[point]) \/ e.disk = d
<1> DEFINE new == [disk |-> d, name |-> where[d]]
<1>1. new \in Entry /\ where[d] # "out" /\ mounts[point] \in Seq(Entry)
  BY DEF Inv, TypeOK, CanMount, Entry
<1>2. mounts' = [mounts EXCEPT ![point] = Append(mounts[point], new)]
  BY DEF Mounted
<1>3. new.disk = d /\ new.name = where[d]
  OBVIOUS
<1> HIDE DEF new
<1> DEFINE top == Append(mounts[point], new)
<1>4. /\ top \in Seq(Entry) /\ top # mounts[point]
      /\ ToSet(top) = ToSet(mounts[point]) \union {new} /\ Len(top) = Len(mounts[point]) + 1
  BY <1>1, Pushed
<1>5. mounts' = [mounts EXCEPT ![point] = top]
  BY <1>2
<1> HIDE DEF top
<1>6. mounts'[point] = top /\ \A q \in Points : q # point => mounts'[q] = mounts[q]
  BY <1>5 DEF Inv, TypeOK
<1>7. mounts' \in [Points -> Seq(Entry)] /\ mounts' # mounts
  BY <1>4, <1>5, <1>6 DEF Inv, TypeOK
<1>8. \A q \in Points : ToSet(mounts[q]) \subseteq ToSet(mounts'[q])
  BY <1>4, <1>6
<1>9. HeldStay
  <2>1. \A q \in Slots : at[q] \in {"read", "write"} => held[q] \in ToSet(mounts[Dev(q)]) /\ Dev(q) \in Points
    BY DiskAssumption DEF Inv, TypeOK, CallOK, Points
  <2> QED BY <2>1, <1>8 DEF HeldStay
<1>10. TableOK'
  <2>1. \A e \in Disks : where[e] = where[d] => e = d
    BY <1>1 DEF Inv, TableOK
  <2>2. \A q \in Points : \A e \in ToSet(mounts'[q]) : e \in ToSet(mounts[q]) \/ (q = point /\ e = new)
    BY <1>4, <1>6
  <2>3. \A q \in Points : \A e \in ToSet(mounts'[q]) :
            /\ q \in Disks => e.disk = q
            /\ q \in Names => e.name = q
            /\ \A f \in Disks : where[f] = e.name => e.disk = f
    BY <2>1, <2>2, <1>3 DEF Inv, TableOK
  <2> QED BY <2>3 DEF Inv, TableOK
<1> QED BY <1>3, <1>4, <1>6, <1>7, <1>9, <1>10

LEMMA OneIsNotMany == ~(1 > 1)
OBVIOUS

LEMMA MountOnName ==
    ASSUME Inv, NEW n \in Names, UNCHANGED where,
           (\E d \in Disks : where[d] = n /\ CanMount(d, n) /\ Mounted(d, n)) \/ mounts' = mounts,
           pinned' = pinned
    PROVE  /\ mounts' \in [Points -> Seq(Entry)] /\ HeldStay /\ TableOK' /\ OnePerPoint'
           /\ \A q \in Points : q \notin Names => mounts'[q] = mounts[q]
<1>1. CASE mounts' = mounts
  BY <1>1, SameHeld, ShrunkSame, TableKept DEF Inv, TypeOK, PinOK, OnePerPoint
<1>2. ASSUME NEW d \in Disks, where[d] = n, CanMount(d, n), Mounted(d, n)
      PROVE  /\ mounts' \in [Points -> Seq(Entry)] /\ HeldStay /\ TableOK' /\ OnePerPoint'
             /\ \A q \in Points : q \notin Names => mounts'[q] = mounts[q]
  <2>1. n \in Points /\ n \notin Disks
    BY DiskAssumption DEF Points
  <2>2. /\ mounts' \in [Points -> Seq(Entry)] /\ HeldStay /\ TableOK'
        /\ Len(mounts'[n]) = Len(mounts[n]) + 1
        /\ \A q \in Points : q # n => mounts'[q] = mounts[q]
    BY <1>2, <2>1, MountStep
  <2>3. mounts[n] = << >>
    <3> SUFFICES ASSUME mounts[n] # << >> PROVE FALSE
      OBVIOUS
    <3>1. Top(n) \in ToSet(mounts[n])
      BY <2>1, Popped DEF Top, Inv, TypeOK
    <3>2. Top(n).name = n /\ Top(n).disk = d
      BY <1>2, <2>1, <3>1 DEF Inv, TableOK
    <3> QED BY <1>2, <3>2 DEF CanMount, IsLiveOn, IsOn, Live
  <2>4. Len(mounts'[n]) = 1
    BY <2>2, <2>3, EmptyStack
  <2>5. OnePerPoint'
    <3> SUFFICES ASSUME NEW q \in Points, Len(mounts'[q]) > 1
                 PROVE  \A e \in ToSet(mounts'[q]) : e.disk \in pinned'
      BY DEF OnePerPoint
    <3>1. q # n
      BY <2>4, OneIsNotMany, Zenon
    <3>2. mounts'[q] = mounts[q]
      BY <2>2, <3>1
    <3> QED BY <3>2 DEF Inv, PinOK, OnePerPoint
  <2> QED BY <2>2, <2>5
<1> QED BY <1>1, <1>2

\* Someone else's mark is never taken away.
LEMMA Marked ==
    ASSUME TypeOK, NEW p \in Slots, disturbed' = Others(p) \/ disturbed' = disturbed
    PROVE  disturbed' \in [Slots -> BOOLEAN] /\ \A q \in Slots : q # p => (disturbed[q] => disturbed'[q])
<1>1. CASE disturbed' = Others(p)
  <2>1. \A q \in Slots : ~disturbed'[q] => ~disturbed[q]
    BY <1>1, OthersFact, Zenon
  <2>2. disturbed' \in [Slots -> BOOLEAN]
    BY <1>1, OthersFact, Zenon
  <2> QED BY <2>1, <2>2, Zenon
<1>2. CASE disturbed' = disturbed
  BY <1>2, Zenon DEF TypeOK
<1> QED BY <1>1, <1>2

LEMMA NameStep ==
    ASSUME Inv, NEW p \in Slots, NEW to \in {"answer", "wait"}, at[p] \in {"mount", "ntfs"},
           TryMount(p, Dev(p), Dev(p)), Moved(p, to), count' = count, spawned' \subseteq Names,
           UNCHANGED <<where, pad, saved, plugs, pinned, spoilt>>
    PROVE  Inv'
<1>1. at[p] \in OnTheWay /\ Dev(p) \in Names /\ count' \in [Slots -> 0..MaxWait]
  BY OnTheWayFacts
<1>2. /\ mounts' \in [Points -> Seq(Entry)] /\ HeldStay /\ TableOK' /\ OnePerPoint'
      /\ \A q \in Points : q \notin Names => mounts'[q] = mounts[q]
  BY <1>1, MountOnName DEF TryMount
<1>3. disturbed' \in [Slots -> BOOLEAN] /\ \A q \in Slots : q # p => (disturbed[q] => disturbed'[q])
  BY Marked DEF TryMount, Inv
<1>4. DiskTypes'
  BY <1>2 DEF DiskTypes, Inv, TypeOK
<1>5. SlotStep(p) /\ at'[p] = to
  <2>1. to \in OnTheWay /\ to # "mount uuid"
    BY DEF OnTheWay, Labels
  <2> QED BY <1>1, <1>2, <1>3, <1>4, <2>1, MovedSlot
<1>6. \A q \in Slots : at[q] = "mount uuid" => mounts'[Dev(q)] = mounts[Dev(q)]
  BY <1>2, DiskAssumption DEF Inv, CallOK, Points
<1>7. PinOK'
  <2>1. \A q \in Slots : at[q] = "mount uuid" /\ ~disturbed'[q] /\ q # p =>
               ToSet(mounts'[Dev(q)]) \subseteq ToSet(mounts[Dev(q)])
    BY <1>6
  <2> QED BY <1>2, <1>5, <2>1, PinStay
<1> QED BY <1>2, <1>5, <1>7, PadStay, SlotFrame

LEMMA MountInv == ASSUME Inv, NEW p \in Slots, Mount(p) PROVE Inv'
<1>1. Moved(p, "answer") /\ count' = count /\ spawned' \subseteq Names
  BY DEF Mount, Says, Moved, Answers, bounds, Inv, TypeOK
<1> QED BY <1>1, NameStep DEF Mount, bounds

LEMMA MountNtfsInv == ASSUME Inv, NEW p \in Slots, MountNtfs(p) PROVE Inv'
<1>1. Moved(p, "wait") /\ count' = count
  BY DEF MountNtfs, Goto, Moved, bounds
<1>2. spawned' \subseteq Names
  BY OnTheWayFacts DEF MountNtfs, Inv, TypeOK
<1> QED BY <1>1, <1>2, NameStep DEF MountNtfs, bounds

\* A step that no call makes.
LEMMA EnvFrame ==
    ASSUME Inv, UNCHANGED callVars, DiskTypes', disturbed' \in [Slots -> BOOLEAN], misled' \subseteq Slots,
           issued' = issued, HeldStay, TableOK', PadOK', OnePerPoint',
           \A q \in Slots : at[q] = "mount uuid" => disturbed'[q]
    PROVE  Inv'
<1>1. at' = at /\ call' = call /\ held' = held
  BY DEF callVars
<1>2. CallTypes /\ HeldOK
  BY TypeParts DEF Inv, Types
<1>3. CallTypes'
  BY <1>2 DEF CallTypes, callVars
<1>4. HeldOK'
  BY <1>1, <1>2 DEF HeldOK, HeldStay, Dev
<1>5. TypeOK'
  <2>1. Types'
    BY <1>3 DEF Types
  <2> QED BY <1>4, <2>1, TypeParts, PTL
<1>6. CallOK'
  BY <1>1 DEF Inv, CallOK, Dev
<1>7. PinOK'
  BY <1>1 DEF PinOK
<1> QED BY <1>5, <1>6, <1>7 DEF Inv

LEMMA AllMarked ==
    ASSUME TypeOK, disturbed' = [q \in Slots |-> disturbed[q] \/ at[q] # "idle"]
    PROVE  disturbed' \in [Slots -> BOOLEAN] /\ \A q \in Slots : at[q] # "idle" => disturbed'[q]
BY Zenon

LEMMA OthersMarked ==
    ASSUME TypeOK, NEW n, disturbed' = [q \in Slots |-> disturbed[q] \/ (at[q] # "idle" /\ q \notin Waiting(n))]
    PROVE  /\ disturbed' \in [Slots -> BOOLEAN]
           /\ \A q \in Slots : at[q] # "idle" /\ ~(at[q] = "wait" /\ Dev(q) = n) => disturbed'[q]
<1>1. \A q \in Slots : q \in Waiting(n) => at[q] = "wait" /\ Dev(q) = n
  BY DEF Waiting
<1> QED BY <1>1, Zenon

LEMMA BackgroundInv == ASSUME Inv, NEW n \in Names, Background(n) PROVE Inv'
<1>1. UNCHANGED <<where, pad, saved, callVars, bounds, pinned, spoilt>> /\ spawned' \subseteq Names
  BY DEF Background, Inv, TypeOK
<1>2. UNCHANGED <<where, pad, saved, callVars, issued, plugs, pinned, spoilt>>
  BY <1>1 DEF bounds
<1>3. /\ mounts' \in [Points -> Seq(Entry)] /\ HeldStay /\ TableOK' /\ OnePerPoint'
      /\ \A q \in Points : q \notin Names => mounts'[q] = mounts[q]
  BY <1>2, MountOnName, DiskAssumption DEF Background
<1>4. DiskTypes'
  BY <1>1, <1>2, <1>3 DEF DiskTypes, Inv, TypeOK
<1>5. at' = at /\ call' = call /\ held' = held
  BY <1>1 DEF callVars
<1>6. PadOK'
  BY <1>2, <1>5, PadKeptOK DEF Inv
<1>7. CASE /\ disturbed' = [q \in Slots |-> disturbed[q] \/ (at[q] # "idle" /\ q \notin Waiting(n))]
           /\ misled' = misled \union {q \in Waiting(n) : count[q] = MaxWait}
  <2>1. misled' \subseteq Slots
    BY <1>7 DEF Waiting, Inv, TypeOK
  <2>2. disturbed' \in [Slots -> BOOLEAN] /\ \A q \in Slots : at[q] = "mount uuid" => disturbed'[q]
    <3>1. disturbed' \in [Slots -> BOOLEAN]
          /\ \A q \in Slots : at[q] # "idle" /\ ~(at[q] = "wait" /\ Dev(q) = n) => disturbed'[q]
      BY <1>7, OthersMarked DEF Inv
    <3> QED BY <3>1
  <2> QED BY <1>2, <1>3, <1>4, <1>6, <2>1, <2>2, EnvFrame
<1>8. CASE mounts' = mounts /\ disturbed' = disturbed /\ misled' = misled
  <2>1. CallTypes /\ HeldOK /\ disturbed' \in [Slots -> BOOLEAN]
    BY <1>8, TypeParts DEF Inv, Types
  <2>2. CallTypes'
    BY <1>2, <1>8, <2>1 DEF CallTypes, callVars
  <2>3. Types'
    BY <1>4, <2>1, <2>2 DEF Types
  <2>4. HeldOK'
    BY <1>5, <1>8, <2>1 DEF HeldOK, Dev
  <2>5. TypeOK'
    BY <2>3, <2>4, TypeParts, PTL
  <2>6. CallOK'
    BY <1>5 DEF Inv, CallOK, Dev
  <2>7. PinOK'
    BY <1>2, <1>3, <1>5, <1>8 DEF Inv, PinOK, Dev
  <2> QED BY <1>3, <1>6, <2>5, <2>6, <2>7 DEF Inv
<1> QED BY <1>7, <1>8 DEF Background

LEMMA MountUuidInv == ASSUME Inv, NEW p \in Slots, MountUuid(p) PROVE Inv'
<1> DEFINE u == Dev(p)
<1>1. at[p] \in OnTheWay /\ u \in Sticks /\ count' \in [Slots -> 0..MaxWait]
  <2>1. at[p] = "mount uuid" /\ count' = count
    BY DEF MountUuid
  <2> QED BY <2>1, OnTheWayFacts
<1>2. u \in Disks /\ u \in Points /\ u \notin Names
  BY <1>1, DiskAssumption DEF Points
<1>3. Moved(p, "answer") /\ UNCHANGED <<where, pad, saved, spawned, plugs, spoilt>>
  BY DEF MountUuid, Says, Moved, Answers, bounds
<1>4. pinned \subseteq pinned' /\ pinned' \subseteq Disks
  <2>1. pinned' = pinned \/ pinned' = pinned \union {u}
    BY DEF MountUuid
  <2> QED BY <1>2, <2>1 DEF Inv, TypeOK
<1>5. /\ mounts' \in [Points -> Seq(Entry)] /\ HeldStay /\ TableOK'
      /\ \A q \in Points : q # u => mounts'[q] = mounts[q]
      /\ mounts' = mounts \/ (/\ mounts' # mounts /\ Len(mounts'[u]) = Len(mounts[u]) + 1
                              /\ \A e \in ToSet(mounts'[u]) : e.disk = u)
  <2>1. CASE mounts' = mounts
    BY <1>3, <2>1, SameHeld, ShrunkSame, TableKept DEF Inv, TypeOK
  <2>2. ASSUME NEW d \in Disks, where[d] = where[u], CanMount(d, u), Mounted(d, u)
        PROVE  /\ mounts' \in [Points -> Seq(Entry)] /\ mounts' # mounts /\ HeldStay /\ TableOK'
               /\ \A q \in Points : q # u => mounts'[q] = mounts[q]
               /\ Len(mounts'[u]) = Len(mounts[u]) + 1 /\ \A e \in ToSet(mounts'[u]) : e.disk = u
    <3>1. d = u
      BY <1>2, <2>2 DEF CanMount, Inv, TableOK
    <3>2. /\ mounts' \in [Points -> Seq(Entry)] /\ mounts' # mounts /\ HeldStay /\ TableOK'
          /\ \A q \in Points : q # u => mounts'[q] = mounts[q]
          /\ Len(mounts'[u]) = Len(mounts[u]) + 1
          /\ \A e \in ToSet(mounts'[u]) : e \in ToSet(mounts[u]) \/ e.disk = u
      BY <1>2, <1>3, <2>2, <3>1, MountStep
    <3> QED BY <1>2, <3>2 DEF Inv, TableOK
  <2> QED BY <2>1, <2>2 DEF MountUuid, TryMount
<1>6. disturbed' \in [Slots -> BOOLEAN] /\ \A q \in Slots : q # p => (disturbed[q] => disturbed'[q])
  BY Marked DEF MountUuid, TryMount, Inv
<1>7. SlotStep(p) /\ at'[p] = "answer"
  <2>1. DiskTypes'
    BY <1>3, <1>4, <1>5 DEF DiskTypes, Inv, TypeOK
  <2>2. "answer" \in OnTheWay
    BY DEF OnTheWay, Labels
  <2> QED BY <1>1, <1>3, <1>5, <1>6, <2>1, <2>2, MovedSlot
<1>8. mounts' # mounts /\ mounts[u] # << >> => u \in pinned'
  <2> SUFFICES ASSUME mounts' # mounts, mounts[u] # << >> PROVE u \in pinned'
    OBVIOUS
  <2>1. CASE disturbed[p]
    BY <2>1 DEF MountUuid
  <2>2. CASE ~disturbed[p]
    <3>1. PICK e \in ToSet(mounts[u]) : TRUE
      BY <1>2, Popped DEF Inv, TypeOK
    <3>2. at[p] = "mount uuid"
      BY DEF MountUuid
    <3>3. e.disk \in pinned /\ e.disk = u
      BY <1>2, <2>2, <3>2 DEF Inv, PinOK, TableOK
    <3> QED BY <1>4, <3>3
  <2> QED BY <2>1, <2>2
<1>9. OnePerPoint'
  <2> SUFFICES ASSUME NEW q \in Points, Len(mounts'[q]) > 1
               PROVE  \A e \in ToSet(mounts'[q]) : e.disk \in pinned'
    BY DEF OnePerPoint
  <2>1. CASE mounts'[q] = mounts[q]
    BY <1>4, <2>1 DEF Inv, PinOK, OnePerPoint
  <2>2. CASE mounts'[q] # mounts[q]
    <3>1. q = u /\ mounts' # mounts /\ Len(mounts'[u]) = Len(mounts[u]) + 1 /\ \A e \in ToSet(mounts'[u]) : e.disk = u
      BY <1>5, <2>2
    <3>2. mounts[u] # << >>
      <4> SUFFICES ASSUME mounts[u] = << >> PROVE FALSE
        OBVIOUS
      <4>1. Len(mounts'[u]) = 1
        BY <3>1, EmptyStack
      <4> QED BY <3>1, <4>1, OneIsNotMany, Zenon
    <3> QED BY <1>8, <3>1, <3>2
  <2> QED BY <2>1, <2>2
<1>10. PinOK'
  <2>1. \A q \in Slots : at[q] = "mount uuid" /\ ~disturbed'[q] /\ q # p =>
            ToSet(mounts'[Dev(q)]) \subseteq ToSet(mounts[Dev(q)])
    <3>1. CASE mounts' = mounts
      BY <3>1
    <3>2. CASE disturbed' = Others(p)
      BY <3>2, OthersFact, Zenon DEF Inv
    <3> QED BY <3>1, <3>2 DEF MountUuid, TryMount
  <2> QED BY <1>4, <1>7, <1>9, <2>1, PinStay
<1> QED BY <1>3, <1>5, <1>7, <1>10, PadStay, SlotFrame
------------------------------------------------------------------------------
(* Unmounting. *)

LEMMA OneLess == \A n \in Nat : n - 1 <= n /\ n <= n
OBVIOUS

LEMMA AtLeastTwo == \A n \in Nat : n # 0 /\ n - 1 # 0 => n > 1
OBVIOUS

LEMMA UnmountStep ==
    ASSUME Inv, NEW point \in Points, CanUmount(point), Unmount(point)
    PROVE  /\ mounts' \in [Points -> Seq(Entry)] /\ Shrunk /\ HeldStay
           /\ saved' \in [Disks -> (SUBSET Pads) \ {{}}]
           /\ mounts[point] # << >> /\ mounts'[point] = Front(mounts[point])
<1> DEFINE f == Front(mounts[point])
<1>1. mounts[point] # << >> /\ mounts[point] \in Seq(Entry)
  BY DEF CanUmount, IsOn, Inv, TypeOK
<1>2. /\ f \in Seq(Entry) /\ Len(f) = Len(mounts[point]) - 1 /\ ToSet(f) \subseteq ToSet(mounts[point])
      /\ \A e \in ToSet(mounts[point]) : e # Top(point) => e \in ToSet(f)
  BY <1>1, Popped DEF Top
<1>3. mounts' = [mounts EXCEPT ![point] = f]
  BY DEF Unmount
<1>4. mounts'[point] = f
  BY <1>3 DEF Inv, TypeOK
<1> HIDE DEF f
<1>5. mounts' \in [Points -> Seq(Entry)] /\ \A q \in Points : q # point => mounts'[q] = mounts[q]
  BY <1>2, <1>3 DEF Inv, TypeOK
<1>6. Shrunk
  <2> SUFFICES ASSUME NEW q \in Points
               PROVE  ToSet(mounts'[q]) \subseteq ToSet(mounts[q]) /\ Len(mounts'[q]) <= Len(mounts[q])
    BY DEF Shrunk
  <2>1. Len(mounts[q]) \in Nat
    BY OnePoint DEF Inv
  <2>2. CASE q = point
    <3>1. ToSet(mounts'[q]) \subseteq ToSet(mounts[q])
      BY <1>2, <1>4, <2>2
    <3>2. Len(mounts'[q]) = Len(mounts[q]) - 1
      BY <1>2, <1>4, <2>2
    <3>3. Len(mounts'[q]) <= Len(mounts[q])
      BY <2>1, <3>2, OneLess, Zenon
    <3> QED BY <3>1, <3>3
  <2>3. CASE q # point
    <3>1. mounts'[q] = mounts[q]
      BY <1>5, <2>3
    <3> QED BY <2>1, <3>1, OneLess, Zenon
  <2> QED BY <2>2, <2>3
<1>7. HeldStay
  <2> SUFFICES ASSUME NEW q \in Slots, at[q] \in {"read", "write"}
               PROVE  held[q] \in ToSet(mounts'[Dev(q)])
    BY DEF HeldStay
  <2>1. held[q] \in ToSet(mounts[Dev(q)]) /\ Dev(q) \in Points
    BY DiskAssumption DEF Inv, TypeOK, CallOK, Points
  <2>2. CASE Dev(q) = point
    <3>1. held[q] # Top(point)
      BY <2>2 DEF CanUmount, Busy, Holders, Dev
    <3> QED BY <1>2, <1>4, <2>1, <2>2, <3>1
  <2>3. CASE Dev(q) # point
    BY <1>5, <2>1, <2>3
  <2> QED BY <2>2, <2>3
<1>8. saved' \in [Disks -> (SUBSET Pads) \ {{}}]
  <2>1. saved \in [Disks -> (SUBSET Pads) \ {{}}] /\ \A d \in Disks : {pad[d]} \in (SUBSET Pads) \ {{}}
    BY DEF Inv, TypeOK
  <2> QED BY <2>1 DEF Unmount
<1> QED BY <1>1, <1>4, <1>5, <1>6, <1>7, <1>8 DEF f

LEMMA TriedStep ==
    ASSUME Inv, NEW p \in Slots, NEW point \in Points, Tried(p, point), where' = where
    PROVE  /\ mounts' \in [Points -> Seq(Entry)] /\ Shrunk /\ HeldStay /\ TableOK'
           /\ saved' \in [Disks -> (SUBSET Pads) \ {{}}]
           /\ pinned \subseteq pinned' /\ pinned' \subseteq Disks
           /\ disturbed' \in [Slots -> BOOLEAN] /\ \A q \in Slots : q # p => (disturbed[q] => disturbed'[q])
           /\ \A e \in ToSet(mounts'[point]) : e.disk \in pinned'
<1>1. CASE CanUmount(point)
  <2>1. Unmount(point) /\ disturbed' = Others(p) /\ pinned' = pinned
    BY <1>1 DEF Tried
  <2>2. /\ mounts' \in [Points -> Seq(Entry)] /\ Shrunk /\ HeldStay
        /\ saved' \in [Disks -> (SUBSET Pads) \ {{}}]
        /\ mounts[point] # << >> /\ mounts'[point] = Front(mounts[point])
    BY <1>1, <2>1, UnmountStep
  <2>3. \A e \in ToSet(mounts'[point]) : e.disk \in pinned
    <3> SUFFICES ASSUME NEW e \in ToSet(mounts'[point]) PROVE e.disk \in pinned
      OBVIOUS
    <3>1. e \in ToSet(mounts[point])
      BY <2>2 DEF Shrunk
    <3>2. mounts[point] \in Seq(Entry) /\ Len(mounts[point]) \in Nat
      BY OnePoint DEF Inv
    <3>3. Len(mounts'[point]) = Len(mounts[point]) - 1 /\ Len(mounts[point]) # 0
      BY <2>2, <3>2, Popped, StackType
    <3>4. Len(mounts'[point]) # 0
      <4> SUFFICES ASSUME mounts'[point] = << >> PROVE FALSE
        BY <2>2, StackType
      <4> QED BY EmptyStack
    <3>5. Len(mounts[point]) > 1
      BY <3>2, <3>3, <3>4, AtLeastTwo, Zenon
    <3> QED BY <3>1, <3>5 DEF Inv, PinOK, OnePerPoint
  <2> QED BY <2>1, <2>2, <2>3, TableKept, Marked DEF Inv, TypeOK
<1>2. CASE ~CanUmount(point)
  <2>1. UNCHANGED <<mounts, saved>> /\ pinned' = pinned \union {e.disk : e \in ToSet(mounts[point])}
    BY <1>2 DEF Tried
  <2>2. ToSet(mounts[point]) \subseteq Entry
    BY OnePoint DEF Inv
  <2>3. pinned \subseteq pinned' /\ pinned' \subseteq Disks /\ \A e \in ToSet(mounts'[point]) : e.disk \in pinned'
    BY <2>1, <2>2 DEF Entry, Inv, TypeOK
  <2>4. disturbed' \in [Slots -> BOOLEAN] /\ \A q \in Slots : q # p => (disturbed[q] => disturbed'[q])
    <3>1. disturbed' = disturbed
      BY <1>2 DEF Tried
    <3> QED BY <3>1, Marked DEF Inv
  <2> QED BY <2>1, <2>3, <2>4, SameHeld, ShrunkSame, TableKept DEF Inv, TypeOK
<1> QED BY <1>1, <1>2

\* The call goes on after it tried to unmount something.
LEMMA TriedMove ==
    ASSUME Inv, NEW p \in Slots, NEW point \in Points, NEW to \in {"answer", "mount uuid"}, at[p] \in OnTheWay,
           Tried(p, point), Moved(p, to), count' = count, UNCHANGED <<where, pad, spawned, plugs, spoilt>>,
           to = "mount uuid" => point = Dev(p) /\ point \in Sticks
    PROVE  Inv'
<1>1. /\ mounts' \in [Points -> Seq(Entry)] /\ Shrunk /\ HeldStay /\ TableOK'
      /\ saved' \in [Disks -> (SUBSET Pads) \ {{}}]
      /\ pinned \subseteq pinned' /\ pinned' \subseteq Disks
      /\ disturbed' \in [Slots -> BOOLEAN] /\ \A q \in Slots : q # p => (disturbed[q] => disturbed'[q])
      /\ \A e \in ToSet(mounts'[point]) : e.disk \in pinned'
  BY TriedStep
<1>2. DiskTypes'
  BY <1>1 DEF DiskTypes, Inv, TypeOK
<1>3. SlotStep(p) /\ at'[p] = to /\ Dev(p)' = Dev(p)
  <2>1. to \in OnTheWay /\ count' \in [Slots -> 0..MaxWait]
    BY DEF OnTheWay, Labels, Inv, TypeOK
  <2> QED BY <1>1, <1>2, <2>1, MovedSlot
<1>4. OnePerPoint'
  <2> SUFFICES ASSUME NEW q \in Points, Len(mounts'[q]) > 1
               PROVE  \A e \in ToSet(mounts'[q]) : e.disk \in pinned'
    BY DEF OnePerPoint
  <2>1. Len(mounts[q]) \in Nat /\ mounts'[q] \in Seq(Entry)
    BY <1>1, OnePoint DEF Inv
  <2>2. Len(mounts[q]) > 1
    BY <1>1, <2>1, StackType, Longer, Zenon DEF Shrunk
  <2> QED BY <1>1, <2>2 DEF Shrunk, Inv, PinOK, OnePerPoint
<1>5. PinOK'
  <2>1. \A q \in Slots : at[q] = "mount uuid" => ToSet(mounts'[Dev(q)]) \subseteq ToSet(mounts[Dev(q)])
    BY <1>1, DiskAssumption DEF Shrunk, Inv, CallOK, Points
  <2>2. at'[p] = "mount uuid" => \A e \in ToSet(mounts'[Dev(p)']) : e.disk \in pinned'
    BY <1>1, <1>3
  <2> QED BY <1>1, <1>3, <1>4, <2>1, <2>2, PinStay
<1> QED BY <1>1, <1>3, <1>5, PadStay, SlotFrame

LEMMA UmountInv == ASSUME Inv, NEW p \in Slots, Umount(p) \/ UmountUuid(p) PROVE Inv'
<1>1. at[p] = "begun" /\ call[p].op \in NameOps \union DiskOps
  BY DEF Umount, UmountUuid, Begun, NameOps, DiskOps
<1>2. at[p] \in OnTheWay /\ Dev(p) \in Points
  <2>1. Dev(p) \in Names \/ Dev(p) \in Sticks
    BY <1>1, OnTheWayFacts
  <2> QED BY <1>1, <2>1, OnTheWayFacts, DiskAssumption DEF Points
<1>3. /\ Tried(p, Dev(p)) /\ Moved(p, "answer") /\ count' = count
      /\ UNCHANGED <<where, pad, spawned, plugs, spoilt>>
  BY DEF Umount, UmountUuid, Tried, Says, Moved, Answers, bounds
<1> QED BY <1>2, <1>3, TriedMove

LEMMA ClearInv == ASSUME Inv, NEW p \in Slots, Clear(p) PROVE Inv'
<1>1. at[p] = "begun" /\ call[p].op \in DiskOps
  BY DEF Clear, Begun, DiskOps
<1>2. at[p] \in OnTheWay /\ Dev(p) \in Sticks /\ Dev(p) \in Points
  <2>1. Dev(p) \in Sticks
    BY <1>1, OnTheWayFacts
  <2> QED BY <1>1, <2>1, OnTheWayFacts, DiskAssumption DEF Points
<1>3. count' = count /\ UNCHANGED <<where, pad, spawned, plugs, spoilt>>
  BY DEF Clear, bounds
<1>4. CASE where[Dev(p)] = "out"
  <2>1. Moved(p, "answer") /\ UNCHANGED <<mounts, saved, disturbed, misled, pinned>>
    BY <1>4 DEF Clear, Says, Moved, Answers, bounds
  <2>2. count' \in [Slots -> 0..MaxWait] /\ UNCHANGED <<diskVars, plugs, history>>
    BY <1>3, <2>1 DEF diskVars, history, Inv, TypeOK
  <2>3. "answer" \in OnTheWay \ {"mount uuid"}
    BY DEF OnTheWay, Labels
  <2> QED BY <1>2, <2>1, <2>2, <2>3, QuietMove
<1>5. CASE where[Dev(p)] # "out"
  <2>1. Moved(p, "mount uuid") /\ Tried(p, Dev(p))
    BY <1>5 DEF Clear, Tried, Goto, Moved, bounds
  <2> QED BY <1>2, <1>3, <2>1, TriedMove
<1> QED BY <1>4, <1>5
------------------------------------------------------------------------------
(* The pad. *)

\* A call opens or closes the pad.
PadMove(p, to, h) ==
    /\ at' = [at EXCEPT ![p] = to] /\ held' = [held EXCEPT ![p] = h]
    /\ answer' = answer \/ \E v \in Answers : answer' = [answer EXCEPT ![p] = v]
    /\ UNCHANGED <<call, count, issued, where, mounts, spawned, plugs, misled, pinned>>

LEMMA PadFrame ==
    ASSUME Inv, NEW p \in Slots, NEW to \in {"read", "write", "answer"}, NEW h \in Entry \union {NoEntry},
           PadMove(p, to, h), Dev(p) \in Sticks, call[p] \in Calls,
           IF to \in {"read", "write"} THEN h \in ToSet(mounts[Dev(p)]) ELSE h = NoEntry,
           to = "write" => call[p].op \in PadOps \ {"getpad"},
           seen' \in [Slots -> Pads \union {""}],
           pad' \in [Disks -> Pads], saved' \in [Disks -> (SUBSET Pads) \ {{}}], spoilt' \subseteq Disks, PadOK',
           disturbed' \in [Slots -> BOOLEAN], \A q \in Slots : q # p => (disturbed[q] => disturbed'[q])
    PROVE  Inv'
<1>1. DiskTypes /\ CallTypes /\ HeldOK
  BY TypeParts DEF Inv, Types
<1>2. /\ at'[p] = to /\ held'[p] = h /\ \A q \in Slots : q # p => at'[q] = at[q] /\ held'[q] = held[q]
      /\ call' = call /\ mounts' = mounts /\ where' = where /\ pinned' = pinned
  BY <1>1 DEF CallTypes, PadMove
<1>3. CallTypes'
  <2>1. at' \in [Slots -> Labels] /\ held' \in [Slots -> Entry \union {NoEntry}]
    BY <1>1 DEF CallTypes, PadMove, Labels
  <2>2. answer' \in [Slots -> Answers]
    BY <1>1 DEF CallTypes, PadMove
  <2> QED BY <1>1, <2>1, <2>2 DEF CallTypes, PadMove
<1>4. DiskTypes'
  BY <1>1 DEF DiskTypes, PadMove
<1>5. HeldOK'
  BY <1>1, <1>2 DEF HeldOK, Dev
<1>6. TypeOK'
  <2>1. Types'
    BY <1>3, <1>4 DEF Types
  <2> QED BY <1>5, <2>1, TypeParts, PTL
<1>7. CallOK'
  BY <1>2 DEF Inv, CallOK, Dev
<1>8. TableOK' /\ OnePerPoint'
  BY <1>2, ShrunkSame, TableKept DEF Inv, PinOK, OnePerPoint
<1>9. PinOK'
  <2> SUFFICES ASSUME NEW q \in Slots, at'[q] = "mount uuid", ~disturbed'[q]
               PROVE  \A e \in ToSet(mounts'[Dev(q)']) : e.disk \in pinned'
    BY <1>8 DEF PinOK
  <2>1. q # p /\ at[q] = "mount uuid" /\ ~disturbed[q]
    BY <1>2
  <2> QED BY <1>2, <2>1 DEF Inv, PinOK, Dev
<1> QED BY <1>6, <1>7, <1>8, <1>9 DEF Inv

LEMMA OpenPadInv == ASSUME Inv, NEW p \in Slots, OpenPad(p) PROVE Inv'
<1>1. at[p] = "begun" /\ call[p].op \in DiskOps
  BY DEF OpenPad, Begun, DiskOps, PadOps
<1>2. Dev(p) \in Sticks /\ Dev(p) \in Disks /\ Dev(p) \in Points /\ call[p] \in Calls
  <2>1. Dev(p) \in Sticks /\ call[p] \in Calls
    BY <1>1, OnTheWayFacts
  <2> QED BY <2>1, DiskAssumption DEF Points
<1>3. disturbed' \in [Slots -> BOOLEAN] /\ \A q \in Slots : q # p => (disturbed[q] => disturbed'[q])
  BY Zenon DEF OpenPad, Inv, TypeOK
<1>4. PadOK'
  <2>1. \A q \in Slots : at[q] = "write" => at'[q] = "write" /\ call'[q] = call[q] /\ held'[q] = held[q]
    BY <1>1 DEF OpenPad, Goto, Says, Inv, TypeOK
  <2> QED BY <2>1, PadKeptOK DEF OpenPad, diskVars, Inv
<1>5. pad' \in [Disks -> Pads] /\ saved' \in [Disks -> (SUBSET Pads) \ {{}}] /\ spoilt' \subseteq Disks
  BY DEF OpenPad, diskVars, Inv, TypeOK
<1>6. CASE IsLiveOn(Dev(p)) /\ pad[Dev(p)] # "none"
  <2>1. Top(Dev(p)) \in ToSet(mounts[Dev(p)])
    BY <1>2, <1>6, Popped DEF IsLiveOn, IsOn, Top, Inv, TypeOK
  <2>2. Top(Dev(p)) \in Entry
    BY <1>2, <2>1, OnePoint DEF Inv
  <2>3. PadMove(p, "read", Top(Dev(p)))
    BY <1>6 DEF OpenPad, PadMove, Goto, diskVars, bounds
  <2>4. seen' \in [Slots -> Pads \union {""}]
    <3>1. Reading(p) \in Pads \union {""}
      BY <1>2 DEF Reading, Inv, TypeOK
    <3> QED BY <1>6, <3>1 DEF OpenPad, Inv, TypeOK
  <2> QED BY <1>2, <1>3, <1>4, <1>5, <2>1, <2>2, <2>3, <2>4, PadFrame
<1>7. CASE ~(IsLiveOn(Dev(p)) /\ pad[Dev(p)] # "none")
  <2>1. held' = held /\ seen' = seen /\ held[p] = NoEntry
    BY <1>1, <1>7 DEF OpenPad, Inv, TypeOK
  <2>2. held' = [held EXCEPT ![p] = NoEntry]
    BY <2>1 DEF Inv, TypeOK
  <2>3. PadMove(p, "answer", NoEntry)
    BY <1>7, <2>2 DEF OpenPad, PadMove, Says, Answers, diskVars, bounds
  <2>4. seen' \in [Slots -> Pads \union {""}]
    BY <2>1 DEF Inv, TypeOK
  <2> QED BY <1>2, <1>3, <1>4, <1>5, <2>3, <2>4, PadFrame
<1> QED BY <1>6, <1>7

LEMMA ReadPadInv == ASSUME Inv, NEW p \in Slots, ReadPad(p) PROVE Inv'
<1>1. Dev(p) \in Sticks /\ call[p] \in Calls
  BY DEF ReadPad, Inv, CallOK
<1>2. disturbed' \in [Slots -> BOOLEAN] /\ \A q \in Slots : q # p => (disturbed[q] => disturbed'[q])
  BY Zenon DEF ReadPad, history, Inv, TypeOK
<1>3. PadOK'
  <2>1. \A q \in Slots : at[q] = "write" => at'[q] = "write" /\ call'[q] = call[q] /\ held'[q] = held[q]
    BY DEF ReadPad, Says, Inv, TypeOK
  <2> QED BY <2>1, PadKeptOK DEF ReadPad, diskVars, history, Inv
<1>4. /\ pad' \in [Disks -> Pads] /\ saved' \in [Disks -> (SUBSET Pads) \ {{}}] /\ spoilt' \subseteq Disks
      /\ seen' \in [Slots -> Pads \union {""}]
  BY DEF ReadPad, diskVars, history, Inv, TypeOK
<1>5. PadMove(p, "answer", NoEntry)
  <2>1. seen[p] \in Answers /\ "not a pad" \in Answers
    BY DEF Inv, TypeOK, Answers
  <2> QED BY <2>1 DEF ReadPad, PadMove, Says, diskVars, bounds, history
<1> QED BY <1>1, <1>2, <1>3, <1>4, <1>5, PadFrame

LEMMA WritesTypes ==
    ASSUME TypeOK, NEW p \in Slots, NEW v \in Pads, Dev(p) \in Disks, Writes(p, v)
    PROVE  /\ pad' \in [Disks -> Pads] /\ saved' \in [Disks -> (SUBSET Pads) \ {{}}]
           /\ pad'[Dev(p)] = v /\ \A d \in Disks : d # Dev(p) => pad'[d] = pad[d]
<1>1. pad' = [pad EXCEPT ![Dev(p)] = v] /\ saved' = [saved EXCEPT ![Dev(p)] = saved[Dev(p)] \union {v}]
  BY DEF Writes
<1>2. saved[Dev(p)] \union {v} \in (SUBSET Pads) \ {{}}
  BY DEF TypeOK
<1>3. saved' \in [Disks -> (SUBSET Pads) \ {{}}]
  BY <1>1, <1>2 DEF TypeOK
<1> QED BY <1>1, <1>3 DEF TypeOK

LEMMA TruncateInv == ASSUME Inv, NEW p \in Slots, Truncate(p) PROVE Inv'
<1> DEFINE u == Dev(p)
<1>1. at[p] = "begun" /\ call[p].op \in DiskOps /\ call[p].op \in PadOps \ {"getpad"}
  BY DEF Truncate, Begun, DiskOps
<1>2. u \in Sticks /\ u \in Disks /\ u \in Points /\ call[p] \in Calls
  <2>1. u \in Sticks /\ call[p] \in Calls
    BY <1>1, OnTheWayFacts
  <2> QED BY <2>1, DiskAssumption DEF Points
<1>3. seen' \in [Slots -> Pads \union {""}] /\ spoilt' \subseteq Disks
  BY DEF Truncate, Inv, TypeOK
<1>4. CASE IsLiveOn(u)
  <2>1. Top(u) \in ToSet(mounts[u])
    BY <1>2, <1>4, Popped DEF IsLiveOn, IsOn, Top, Inv, TypeOK
  <2>2. Top(u) \in Entry
    BY <1>2, <2>1, OnePoint DEF Inv
  <2>3. PadMove(p, "write", Top(u))
    BY <1>4 DEF Truncate, PadMove, Goto, bounds
  <2>4. Writes(p, "empty") /\ "empty" \in Pads
    BY <1>4 DEF Truncate, Pads
  <2>5. /\ pad' \in [Disks -> Pads] /\ saved' \in [Disks -> (SUBSET Pads) \ {{}}]
        /\ \A d \in Disks : d # u => pad'[d] = pad[d]
    BY <1>2, <2>4, WritesTypes DEF Inv
  <2>6. /\ at'[p] = "write" /\ held'[p] = Top(u) /\ \A q \in Slots : q # p => at'[q] = at[q] /\ held'[q] = held[q]
        /\ call' = call /\ where' = where /\ spoilt' = spoilt
    BY <2>3 DEF PadMove, Truncate, Inv, TypeOK
  <2>7. PadOK'
    <3> SUFFICES ASSUME NEW d \in Sticks, pad'[d] = "empty", d \notin spoilt'
                 PROVE  \E q \in Slots : at'[q] = "write" /\ Dev(q)' = d /\ Live(held[q])'
      BY DEF PadOK, Writers
    <3>1. CASE d = u
      BY <1>4, <2>6, <3>1 DEF IsLiveOn, Live, Dev
    <3>2. CASE d # u
      <4>1. pad[d] = "empty" /\ d \notin spoilt
        BY <2>5, <2>6, <3>2, DiskAssumption
      <4>2. PICK q \in Slots : at[q] = "write" /\ Dev(q) = d /\ Live(held[q])
        BY <4>1 DEF Inv, PadOK, Writers
      <4> QED BY <1>1, <2>6, <4>2 DEF Live, Dev
    <3> QED BY <3>1, <3>2
  <2>8. disturbed' \in [Slots -> BOOLEAN] /\ \A q \in Slots : q # p => (disturbed[q] => disturbed'[q])
    <3>1. disturbed' = [Others(p) EXCEPT ![p] = @ \/ Writers(Dev(p)) # {}]
      BY <1>4 DEF Truncate
    <3> QED BY <3>1, Zenon DEF Others
  <2> QED BY <1>1, <1>2, <1>3, <2>1, <2>2, <2>3, <2>5, <2>7, <2>8, PadFrame
<1>5. CASE ~IsLiveOn(u)
  <2>1. UNCHANGED <<pad, saved, held, disturbed, where, spoilt>> /\ held[p] = NoEntry
    BY <1>1, <1>5 DEF Truncate, Inv, TypeOK
  <2>2. held' = [held EXCEPT ![p] = NoEntry]
    BY <2>1 DEF Inv, TypeOK
  <2>3. PadMove(p, "answer", NoEntry)
    BY <1>5, <2>2 DEF Truncate, PadMove, Says, Answers, bounds
  <2>4. PadOK'
    <3>1. \A q \in Slots : at[q] = "write" => at'[q] = "write" /\ call'[q] = call[q] /\ held'[q] = held[q]
      BY <1>1, <2>1, <2>3 DEF PadMove, Inv, TypeOK
    <3> QED BY <2>1, <3>1, PadKeptOK DEF Inv
  <2>5. disturbed' \in [Slots -> BOOLEAN] /\ \A q \in Slots : q # p => (disturbed[q] => disturbed'[q])
    BY <2>1, Zenon DEF Inv, TypeOK
  <2>6. pad' \in [Disks -> Pads] /\ saved' \in [Disks -> (SUBSET Pads) \ {{}}]
    BY <2>1 DEF Inv, TypeOK
  <2> QED BY <1>2, <1>3, <2>3, <2>4, <2>5, <2>6, PadFrame
<1> QED BY <1>4, <1>5

LEMMA WriteInv == ASSUME Inv, NEW p \in Slots, Write(p) PROVE Inv'
<1> DEFINE u == Dev(p)
           op == call[p].op
<1>1. at[p] = "write" /\ u \in Sticks /\ u \in Disks /\ call[p] \in Calls /\ op \in PadOps \ {"getpad"}
  BY DiskAssumption DEF Write, Inv, CallOK
<1>2. PadMove(p, "answer", NoEntry)
  BY DEF Write, PadMove, Says, Answers, bounds
<1>3. seen' \in [Slots -> Pads \union {""}]
  BY DEF Write, Inv, TypeOK
<1>4. disturbed' \in [Slots -> BOOLEAN] /\ \A q \in Slots : q # p => (disturbed[q] => disturbed'[q])
  BY Marked DEF Write, Inv
<1>5. Written(op) \in Pads /\ (Written(op) = "empty" => op = "newpad bad")
  BY <1>1 DEF Written, PadOps, Pads
<1>6. \A q \in Slots : q # p => at'[q] = at[q] /\ held'[q] = held[q]
  BY <1>2 DEF PadMove, Inv, TypeOK
<1>7. call' = call /\ where' = where
  BY <1>2 DEF PadMove
<1>8. \A q \in Slots : q # p /\ at[q] = "write" /\ Live(held[q]) =>
         at'[q] = "write" /\ Dev(q)' = Dev(q) /\ Live(held[q])'
  BY <1>6, <1>7 DEF Dev, Live
<1>9. CASE Live(held[p])
  <2>1. Writes(p, Written(op)) /\ spoilt' = IF op = "newpad bad" THEN spoilt \union {u} ELSE spoilt \ {u}
    BY <1>9 DEF Write
  <2>2. /\ pad' \in [Disks -> Pads] /\ saved' \in [Disks -> (SUBSET Pads) \ {{}}]
        /\ pad'[u] = Written(op) /\ \A d \in Disks : d # u => pad'[d] = pad[d]
    BY <1>1, <1>5, <2>1, WritesTypes DEF Inv
  <2>3. PadOK'
    <3> SUFFICES ASSUME NEW d \in Sticks, pad'[d] = "empty", d \notin spoilt'
                 PROVE  \E q \in Slots : at'[q] = "write" /\ Dev(q)' = d /\ Live(held[q])'
      BY DEF PadOK, Writers
    <3>1. d # u
      BY <1>5, <2>1, <2>2
    <3>2. pad[d] = "empty" /\ d \notin spoilt
      BY <2>1, <2>2, <3>1, DiskAssumption
    <3>3. PICK q \in Slots : at[q] = "write" /\ Dev(q) = d /\ Live(held[q])
      BY <3>2 DEF Inv, PadOK, Writers
    <3> QED BY <1>8, <3>1, <3>3
  <2>4. spoilt' \subseteq Disks
    BY <1>1, <2>1 DEF Inv, TypeOK
  <2> QED BY <1>1, <1>2, <1>3, <1>4, <2>2, <2>3, <2>4, PadFrame
<1>10. CASE ~Live(held[p])
  <2>1. UNCHANGED <<pad, saved, spoilt>>
    BY <1>10 DEF Write
  <2>2. PadOK'
    <3> SUFFICES ASSUME NEW d \in Sticks, pad'[d] = "empty", d \notin spoilt'
                 PROVE  \E q \in Slots : at'[q] = "write" /\ Dev(q)' = d /\ Live(held[q])'
      BY DEF PadOK, Writers
    <3>1. PICK q \in Slots : at[q] = "write" /\ Dev(q) = d /\ Live(held[q])
      BY <2>1 DEF Inv, PadOK, Writers
    <3> QED BY <1>8, <1>10, <3>1
  <2>3. pad' \in [Disks -> Pads] /\ saved' \in [Disks -> (SUBSET Pads) \ {{}}] /\ spoilt' \subseteq Disks
    BY <2>1 DEF Inv, TypeOK
  <2> QED BY <1>1, <1>2, <1>3, <1>4, <2>2, <2>3, PadFrame
<1> QED BY <1>9, <1>10
------------------------------------------------------------------------------
(* A server that ends, a stick that is pulled or plugged. *)

LEMMA CrashInv == ASSUME Inv, NEW p \in Slots, Crash(p) PROVE Inv'
<1> DEFINE dying == {q \in Slots : at[q] \in {"read", "write", "answer"} \/ Begun(q, PadOps)}
<1>1. /\ at' = [q \in Slots |-> IF q \in dying THEN "idle" ELSE at[q]]
      /\ call' = [q \in Slots |-> IF q \in dying THEN NoCall ELSE call[q]]
      /\ count' = [q \in Slots |-> IF q \in dying THEN 0 ELSE count[q]]
      /\ held' = [q \in Slots |-> IF q \in dying THEN NoEntry ELSE held[q]]
      /\ seen' = [q \in Slots |-> IF q \in dying THEN "none" ELSE seen[q]]
      /\ answer' = [q \in Slots |-> IF q \in dying THEN "none" ELSE answer[q]]
      /\ disturbed' = [q \in Slots |-> IF q \in dying THEN FALSE ELSE Others(p)[q]]
      /\ spoilt' = spoilt \union {Dev(q) : q \in {r \in Slots : at[r] = "write"}}
      /\ misled' = misled \ dying
      /\ UNCHANGED <<diskVars, bounds, pinned>>
  BY DEF Crash
<1>2. UNCHANGED <<where, mounts, pad, saved, spawned, issued, plugs, pinned>>
  BY <1>1 DEF diskVars, bounds
<1>3. dying \subseteq Slots /\ \A q \in Slots : at[q] \in {"read", "write"} => q \in dying
  OBVIOUS
<1> HIDE DEF dying
<1>4. DiskTypes /\ CallTypes /\ HeldOK
  BY TypeParts DEF Inv, Types
<1>5. DiskTypes'
  <2>1. spoilt' \subseteq Disks
    <3>1. \A r \in Slots : at[r] = "write" => Dev(r) \in Disks
      BY DiskAssumption DEF Inv, CallOK
    <3>2. spoilt \subseteq Disks
      BY DEF Inv, TypeOK
    <3> QED BY <1>1, <3>1, <3>2
  <2> QED BY <1>2, <1>4, <2>1 DEF DiskTypes
<1>6. CallTypes'
  <2>1. call' \in [Slots -> Calls \union {NoCall}] /\ at' \in [Slots -> Labels]
    BY <1>1, <1>4 DEF CallTypes, Labels
  <2>2. held' \in [Slots -> Entry \union {NoEntry}]
    BY <1>1, <1>4 DEF CallTypes
  <2>3. seen' \in [Slots -> Pads \union {""}] /\ answer' \in [Slots -> Answers]
    BY <1>1, <1>4 DEF CallTypes, Pads, Answers
  <2>4. count' \in [Slots -> 0..MaxWait]
    <3>1. 0 \in 0..MaxWait
      BY BoundAssumption
    <3> QED BY <1>1, <1>4, <3>1 DEF CallTypes
  <2>5. misled' \subseteq Slots
    BY <1>1, <1>4 DEF CallTypes
  <2> QED BY <1>2, <1>4, <2>1, <2>2, <2>3, <2>4, <2>5 DEF CallTypes
<1>7. \A q \in Slots : disturbed'[q] = IF q \in dying THEN FALSE ELSE Others(p)[q]
  BY <1>1, Zenon
<1>8. disturbed' \in [Slots -> BOOLEAN]
  BY <1>1, Zenon DEF Others
<1>9. \A q \in Slots : at'[q] # "idle" => q \notin dying /\ at'[q] = at[q] /\ call'[q] = call[q] /\ held'[q] = held[q]
  BY <1>1
<1>10. HeldOK'
  <2> SUFFICES ASSUME NEW q \in Slots
               PROVE  IF at'[q] \in {"read", "write"} THEN held'[q] \in ToSet(mounts'[Dev(q)']) ELSE held'[q] = NoEntry
    BY DEF HeldOK, Dev
  <2>1. CASE q \in dying
    BY <1>1, <2>1
  <2>2. CASE q \notin dying
    BY <1>1, <1>3, <1>4, <2>2 DEF HeldOK
  <2> QED BY <2>1, <2>2
<1>11. TypeOK'
  <2>1. Types'
    BY <1>5, <1>6, <1>8 DEF Types
  <2> QED BY <1>10, <2>1, TypeParts, PTL
<1>12. CallOK'
  BY <1>9 DEF Inv, CallOK, Dev
<1>13. TableOK' /\ OnePerPoint'
  BY <1>2, ShrunkSame, TableKept DEF Inv, PinOK, OnePerPoint
<1>14. PadOK'
  <2> SUFFICES ASSUME NEW d \in Sticks, pad[d] = "empty" PROVE d \in spoilt'
    BY <1>2 DEF PadOK
  <2>1. CASE d \in spoilt
    BY <1>1, <2>1
  <2>2. CASE d \notin spoilt
    BY <1>1, <2>2 DEF Inv, PadOK, Writers
  <2> QED BY <2>1, <2>2
<1>15. PinOK'
  <2> SUFFICES ASSUME NEW q \in Slots, at'[q] = "mount uuid", ~disturbed'[q]
               PROVE  \A e \in ToSet(mounts'[Dev(q)']) : e.disk \in pinned'
    BY <1>13 DEF PinOK
  <2>1. q \notin dying /\ at[q] = "mount uuid" /\ Dev(q)' = Dev(q)
    BY <1>9 DEF Dev
  <2>2. ~disturbed[q]
    BY <1>7, <2>1, Zenon DEF Others
  <2> QED BY <1>2, <2>1, <2>2 DEF Inv, PinOK
<1> QED BY <1>11, <1>12, <1>13, <1>14, <1>15 DEF Inv

\* The disk goes: an open file of another disk stays where it is.
LEMMA GoneStep ==
    ASSUME Inv, NEW d \in Sticks, NEW medium \in [Disks -> (SUBSET Pads) \ {{}}], Gone(d, medium), Shrunk,
           \A q \in Slots : at[q] = "write" => at'[q] = "write" /\ call'[q] = call[q] /\ held'[q] = held[q]
    PROVE  /\ where' \in [Disks -> Names \union {"out"}] /\ pad' \in [Disks -> Pads]
           /\ saved' \in [Disks -> (SUBSET Pads) \ {{}}] /\ spoilt' \subseteq Disks
           /\ TableOK' /\ PadOK'
<1>1. PICK v \in medium[d] : /\ pad' = [pad EXCEPT ![d] = v]
                            /\ saved' = [medium EXCEPT ![d] = {v}]
                            /\ spoilt' = IF v = "empty" THEN spoilt \union {d} ELSE spoilt
  BY DEF Gone
<1>2. d \in Disks /\ where' = [where EXCEPT ![d] = "out"]
  BY DiskAssumption DEF Gone
<1>3. v \in Pads
  BY <1>2
<1>4. where' \in [Disks -> Names \union {"out"}] /\ pad' \in [Disks -> Pads] /\ spoilt' \subseteq Disks
  BY <1>1, <1>2, <1>3 DEF Inv, TypeOK
<1>5. saved' \in [Disks -> (SUBSET Pads) \ {{}}]
  <2>1. {v} \in (SUBSET Pads) \ {{}}
    BY <1>3
  <2> QED BY <1>1, <2>1
<1>6. where'[d] = "out" /\ \A e \in Disks : e # d => where'[e] = where[e] /\ pad'[e] = pad[e]
  BY <1>1, <1>2 DEF Inv, TypeOK
<1>7. TableOK'
  <2>1. \A q \in Points : \A e \in ToSet(mounts'[q]) : e \in ToSet(mounts[q]) /\ e.name # "out"
    <3> SUFFICES ASSUME NEW q \in Points, NEW e \in ToSet(mounts'[q])
                 PROVE  e \in ToSet(mounts[q]) /\ e.name # "out"
      OBVIOUS
    <3>1. e \in ToSet(mounts[q]) /\ e \in Entry
      BY OnePoint DEF Shrunk, Inv
    <3> QED BY <3>1, DiskAssumption DEF Entry
  <2>2. \A q \in Points : \A e \in ToSet(mounts'[q]) :
            /\ q \in Disks => e.disk = q
            /\ q \in Names => e.name = q
            /\ \A f \in Disks : where'[f] = e.name => e.disk = f
    BY <1>6, <2>1 DEF Inv, TableOK
  <2>3. \A e, f \in Disks : where'[e] = where'[f] /\ where'[e] # "out" => e = f
    BY <1>6 DEF Inv, TableOK
  <2> QED BY <2>2, <2>3 DEF TableOK
<1>8. PadOK'
  <2> SUFFICES ASSUME NEW e \in Sticks, pad'[e] = "empty", e \notin spoilt'
               PROVE  \E q \in Slots : at'[q] = "write" /\ Dev(q)' = e /\ Live(held[q])'
    BY DEF PadOK, Writers
  <2>1. e # d /\ e \in Disks
    BY <1>1, <1>2, DiskAssumption DEF Inv, TypeOK
  <2>2. pad[e] = "empty" /\ e \notin spoilt
    BY <1>1, <1>6, <2>1
  <2>3. PICK q \in Slots : at[q] = "write" /\ Dev(q) = e /\ Live(held[q])
    BY <2>2 DEF Inv, PadOK, Writers
  <2>4. held[q].disk = e
    <3>1. held[q] \in ToSet(mounts[e]) /\ e \in Points
      BY <2>1, <2>3 DEF Inv, TypeOK, Points
    <3> QED BY <2>1, <3>1 DEF Inv, TableOK
  <2>5. at'[q] = "write" /\ Dev(q)' = e /\ held'[q] = held[q]
    BY <2>3 DEF Dev
  <2> QED BY <1>6, <2>1, <2>3, <2>4, <2>5 DEF Live
<1> QED BY <1>4, <1>5, <1>7, <1>8

LEMMA PullInv == ASSUME Inv, NEW d \in Sticks, Pull(d) PROVE Inv'
<1>1. UNCHANGED <<mounts, spawned, callVars, issued, plugs, pinned>>
  BY DEF Pull, bounds
<1>2. at' = at /\ call' = call /\ held' = held
  BY <1>1 DEF callVars
<1>3. HeldStay /\ Shrunk
  BY <1>1, SameHeld, ShrunkSame DEF Inv
<1>4. saved \in [Disks -> (SUBSET Pads) \ {{}}] /\ Gone(d, saved)
  BY DEF Pull, Inv, TypeOK
<1>5. /\ where' \in [Disks -> Names \union {"out"}] /\ pad' \in [Disks -> Pads]
      /\ saved' \in [Disks -> (SUBSET Pads) \ {{}}] /\ spoilt' \subseteq Disks
      /\ TableOK' /\ PadOK'
  BY <1>2, <1>3, <1>4, GoneStep
<1>6. DiskTypes'
  BY <1>1, <1>5 DEF DiskTypes, Inv, TypeOK
<1>7. OnePerPoint'
  BY <1>1 DEF Inv, PinOK, OnePerPoint
<1>8. disturbed' \in [Slots -> BOOLEAN] /\ \A q \in Slots : at[q] # "idle" => disturbed'[q]
  BY AllMarked DEF Pull, Inv
<1>9. misled' \subseteq Slots
  BY DEF Pull, Inv, TypeOK
<1> QED BY <1>1, <1>3, <1>5, <1>6, <1>7, <1>8, <1>9, EnvFrame

LEMMA PlugInv == ASSUME Inv, NEW d \in Sticks, NEW n \in Names, Plug(d, n) PROVE Inv'
<1>1. UNCHANGED <<mounts, pad, saved, spawned, callVars, issued, pinned, spoilt>>
  BY DEF Plug
<1>2. at' = at /\ call' = call /\ held' = held
  BY <1>1 DEF callVars
<1>3. HeldStay /\ OnePerPoint'
  BY <1>1, SameHeld DEF Inv, PinOK, OnePerPoint
<1>4. d \in Disks /\ where[d] = "out" /\ where' = [where EXCEPT ![d] = n]
  BY DiskAssumption DEF Plug
<1>5. where'[d] = n /\ \A e \in Disks : e # d => where'[e] = where[e]
  BY <1>4 DEF Inv, TypeOK
<1>6. plugs' \in 0..MaxPlugs
  <2>1. plugs \in 0..MaxPlugs /\ plugs < MaxPlugs /\ plugs' = plugs + 1
    BY DEF Plug, Inv, TypeOK
  <2> QED BY <2>1, BoundAssumption
<1>7. DiskTypes'
  BY <1>1, <1>4, <1>6 DEF DiskTypes, Inv, TypeOK
<1>8. TableOK'
  <2>1. /\ \A e \in Disks : where[e] # n
        /\ \A q \in Points : \A e \in ToSet(mounts[q]) : e.name # n
    BY DEF Plug
  <2> QED BY <1>1, <1>5, <2>1 DEF Inv, TableOK
<1>9. PadOK'
  <2> SUFFICES ASSUME NEW e \in Sticks, pad[e] = "empty", e \notin spoilt
               PROVE  \E q \in Slots : at'[q] = "write" /\ Dev(q)' = e /\ Live(held[q])'
    BY <1>1 DEF PadOK, Writers
  <2>1. PICK q \in Slots : at[q] = "write" /\ Dev(q) = e /\ Live(held[q])
    BY DEF Inv, PadOK, Writers
  <2>2. held[q] \in Entry
    BY <2>1, OnePoint, DiskAssumption DEF Inv, TypeOK, Points
  <2>3. held[q].name \in Names /\ held[q].disk \in Disks
    BY <2>2 DEF Entry
  <2>4. held[q].disk # d
    BY <1>4, <2>1, <2>3, DiskAssumption DEF Live
  <2> QED BY <1>2, <1>5, <2>1, <2>3, <2>4 DEF Live, Dev
<1>10. disturbed' \in [Slots -> BOOLEAN] /\ \A q \in Slots : at[q] # "idle" => disturbed'[q]
  BY AllMarked DEF Plug, Inv
<1>11. misled' \subseteq Slots
  BY DEF Plug, Inv, TypeOK
<1> QED BY <1>1, <1>3, <1>7, <1>8, <1>9, <1>10, <1>11, EnvFrame

LEMMA NothingIsNotMany == ~(0 > 1) /\ \A n \in Nat : 0 <= n
OBVIOUS

LEMMA EjectInv == ASSUME Inv, NEW p \in Slots, Eject(p) PROVE Inv'
<1> DEFINE n == Dev(p)
<1>1. at[p] \in OnTheWay /\ n \in Names /\ n \in Points /\ n \notin Disks
  <2>1. at[p] = "begun" /\ call[p].op \in NameOps
    BY DEF Eject, Begun, NameOps
  <2>2. n \in Names
    BY <2>1, OnTheWayFacts
  <2> QED BY <2>1, <2>2, OnTheWayFacts, DiskAssumption DEF Points
<1>2. Moved(p, "answer") /\ "answer" \in OnTheWay \ {"mount uuid"}
  BY DEF Eject, Says, Moved, Answers, OnTheWay, Labels, bounds
<1>3. count' \in [Slots -> 0..MaxWait] /\ UNCHANGED <<spawned, plugs, misled, pinned>>
  BY DEF Eject, bounds, Inv, TypeOK
<1>4. CASE UNCHANGED <<where, mounts, pad, saved, disturbed, spoilt>>
  <2>1. UNCHANGED <<diskVars, plugs, history>>
    BY <1>3, <1>4 DEF diskVars, history
  <2> QED BY <1>1, <1>2, <1>3, <2>1, QuietMove
<1>5. ASSUME NEW d \in Sticks, where[d] = n, Gone(d, [saved EXCEPT ![d] = Flushed(d)]),
             mounts' = [mounts EXCEPT ![n] = << >>], disturbed' = Others(p)
      PROVE  Inv'
  <2> DEFINE medium == [saved EXCEPT ![d] = Flushed(d)]
  <2>1. medium \in [Disks -> (SUBSET Pads) \ {{}}]
    <3>1. Flushed(d) \in (SUBSET Pads) \ {{}}
      <4>1. d \in Disks
        BY DiskAssumption
      <4>2. saved[d] \in (SUBSET Pads) \ {{}} /\ {pad[d]} \in (SUBSET Pads) \ {{}}
        BY <4>1 DEF Inv, TypeOK
      <4>3. Flushed(d) = saved[d] \/ Flushed(d) = {pad[d]}
        BY DEF Flushed
      <4> QED BY <4>2, <4>3, Zenon
    <3> QED BY <3>1 DEF Inv, TypeOK
  <2> HIDE DEF medium
  <2>2. /\ mounts'[n] = << >> /\ mounts' \in [Points -> Seq(Entry)]
        /\ \A q \in Points : q # n => mounts'[q] = mounts[q]
    BY <1>1, <1>5, EmptyStack DEF Inv, TypeOK
  <2>3. Shrunk
    <3> SUFFICES ASSUME NEW q \in Points
                 PROVE  ToSet(mounts'[q]) \subseteq ToSet(mounts[q]) /\ Len(mounts'[q]) <= Len(mounts[q])
      BY DEF Shrunk
    <3>1. Len(mounts[q]) \in Nat
      BY OnePoint DEF Inv
    <3>2. CASE q = n
      <4>1. Len(mounts'[q]) = 0 /\ ToSet(mounts'[q]) = {}
        BY <2>2, <3>2, EmptyStack
      <4>2. Len(mounts'[q]) <= Len(mounts[q])
        BY <3>1, <4>1, NothingIsNotMany, Zenon
      <4> QED BY <4>1, <4>2
    <3>3. CASE q # n
      <4>1. mounts'[q] = mounts[q]
        BY <2>2, <3>3
      <4> QED BY <3>1, <4>1, OneLess, Zenon
    <3> QED BY <3>2, <3>3
  <2>4. HeldStay
    BY <1>1, <2>2, DiskAssumption DEF HeldStay, Inv, TypeOK, CallOK, Points
  <2>5. \A q \in Slots : at[q] = "write" => at'[q] = "write" /\ call'[q] = call[q] /\ held'[q] = held[q]
    BY <1>1, <1>2 DEF Moved, OnTheWay, Inv, TypeOK
  <2>6. /\ where' \in [Disks -> Names \union {"out"}] /\ pad' \in [Disks -> Pads]
        /\ saved' \in [Disks -> (SUBSET Pads) \ {{}}] /\ spoilt' \subseteq Disks
        /\ TableOK' /\ PadOK'
    BY <1>5, <2>1, <2>3, <2>5, GoneStep DEF medium
  <2>7. DiskTypes'
    BY <1>3, <2>2, <2>6 DEF DiskTypes, Inv, TypeOK
  <2>8. disturbed' \in [Slots -> BOOLEAN] /\ \A q \in Slots : q # p => (disturbed[q] => disturbed'[q])
    BY <1>5, Marked DEF Inv
  <2>9. SlotStep(p) /\ at'[p] = "answer"
    BY <1>1, <1>2, <1>3, <2>4, <2>7, <2>8, MovedSlot
  <2>10. OnePerPoint'
    <3> SUFFICES ASSUME NEW q \in Points, Len(mounts'[q]) > 1
                 PROVE  \A e \in ToSet(mounts'[q]) : e.disk \in pinned'
      BY DEF OnePerPoint
    <3>1. Len(mounts'[n]) = 0
      BY <2>2, EmptyStack
    <3>2. q # n
      BY <3>1, NothingIsNotMany, Zenon
    <3>3. mounts'[q] = mounts[q]
      BY <2>2, <3>2
    <3> QED BY <1>3, <3>3 DEF Inv, PinOK, OnePerPoint
  <2>11. PinOK'
    <3>1. \A q \in Slots : at[q] = "mount uuid" => ToSet(mounts'[Dev(q)]) \subseteq ToSet(mounts[Dev(q)])
      BY <2>3, DiskAssumption DEF Shrunk, Inv, CallOK, Points
    <3> QED BY <1>3, <2>9, <2>10, <3>1, PinStay
  <2> QED BY <2>6, <2>9, <2>11, SlotFrame
<1>6. \/ \E d \in Sticks : where[d] = n /\ Gone(d, [saved EXCEPT ![d] = Flushed(d)])
            /\ mounts' = [mounts EXCEPT ![n] = << >>] /\ disturbed' = Others(p)
      \/ UNCHANGED <<where, mounts, pad, saved, disturbed, spoilt>>
  BY DEF Eject
<1> QED BY <1>4, <1>5, <1>6
------------------------------------------------------------------------------
(* Every step keeps the invariant. *)

LEMMA StepInv == Inv /\ [Next]_vars => Inv'
<1> SUFFICES ASSUME Inv, [Next]_vars PROVE Inv'
  OBVIOUS
<1>1. ASSUME NEW p \in Slots, NEW c \in Calls, Begin(p, c) PROVE Inv'
  BY <1>1, BeginInv
<1>2. ASSUME NEW p \in Slots, Devicesctl(p) PROVE Inv'
  <2>1. CASE Look(p)
    BY <2>1, LookInv
  <2>2. CASE Mount(p)
    BY <2>2, MountInv
  <2>3. CASE MountNtfs(p)
    BY <2>3, MountNtfsInv
  <2>4. CASE Wait(p)
    BY <2>4, WaitInv
  <2>5. CASE Umount(p)
    BY <2>5, UmountInv
  <2>6. CASE GetStatus(p)
    BY <2>6, TellInv
  <2>7. CASE Eject(p)
    BY <2>7, EjectInv
  <2> QED BY <1>2, <2>1, <2>2, <2>3, <2>4, <2>5, <2>6, <2>7 DEF Devicesctl
<1>3. ASSUME NEW p \in Slots, PamUsb(p) PROVE Inv'
  <2>1. CASE Clear(p)
    BY <2>1, ClearInv
  <2>2. CASE MountUuid(p)
    BY <2>2, MountUuidInv
  <2>3. CASE UmountUuid(p)
    BY <2>3, UmountInv
  <2>4. CASE CheckUuid(p)
    BY <2>4, TellInv
  <2>5. CASE OpenPad(p)
    BY <2>5, OpenPadInv
  <2>6. CASE ReadPad(p)
    BY <2>6, ReadPadInv
  <2>7. CASE Truncate(p)
    BY <2>7, TruncateInv
  <2>8. CASE Write(p)
    BY <2>8, WriteInv
  <2>9. CASE Crash(p)
    BY <2>9, CrashInv
  <2> QED BY <1>3, <2>1, <2>2, <2>3, <2>4, <2>5, <2>6, <2>7, <2>8, <2>9 DEF PamUsb
<1>4. ASSUME NEW p \in Slots, Answer(p) PROVE Inv'
  BY <1>4, AnswerInv
<1>5. ASSUME NEW n \in Names, Background(n) PROVE Inv'
  BY <1>5, BackgroundInv
<1>6. ASSUME NEW d \in Sticks, Pull(d) PROVE Inv'
  BY <1>6, PullInv
<1>7. ASSUME NEW d \in Sticks, NEW n \in Names, Plug(d, n) PROVE Inv'
  BY <1>7, PlugInv
<1>8. ASSUME UNCHANGED vars PROVE Inv'
  <2>1. UNCHANGED <<where, mounts, pad, saved, spawned, call, at, count, held, seen, answer, issued, plugs>>
        /\ UNCHANGED <<disturbed, misled, pinned, spoilt>>
    BY <1>8 DEF vars, diskVars, callVars, bounds, history
  <2>2. TypeOK'
    BY <2>1 DEF Inv, TypeOK, Dev
  <2>3. CallOK'
    BY <2>1 DEF Inv, CallOK, Dev
  <2>4. TableOK'
    BY <2>1 DEF Inv, TableOK
  <2>5. PadOK'
    BY <2>1, PadKeptOK DEF Inv
  <2>6. PinOK'
    BY <2>1 DEF Inv, PinOK, OnePerPoint, Dev
  <2> QED BY <2>2, <2>3, <2>4, <2>5, <2>6 DEF Inv
<1> QED BY <1>1, <1>2, <1>3, <1>4, <1>5, <1>6, <1>7, <1>8 DEF Next

LEMMA InvAlways == Spec => []Inv
BY InitInv, StepInv, PTL DEF Spec
------------------------------------------------------------------------------
(* Theorems. *)

\* Types hold, and a file that a call has open is on a mount of the table all the time:
\* umount does not go past it, and neither does mountusb (tcos-pam-usb.sh:49).
THEOREM TypeCorrect == Spec => []TypeOK
<1>1. Inv => TypeOK
  BY DEF Inv
<1> QED BY <1>1, InvAlways, PTL

\* However many sticks are pulled and plugged and however many calls overlap, a mount hides
\* another only when an umount failed or someone got in between (tcos-pam-usb.sh:49).
THEOREM OnePerPointAlways == Spec => []OnePerPoint
<1>1. Inv => OnePerPoint
  BY DEF Inv, PinOK
<1> QED BY <1>1, InvAlways, PTL

\* A pad is never left empty, but by a bad text, a stick pulled too early or a server that
\* ended, although newpad empties it before it writes it (pam-usb.c:105).
THEOREM PadKeptAlways == Spec => []PadKept
<1>1. Inv => PadKept
  BY DEF Inv, PadOK, PadKept
<1> QED BY <1>1, InvAlways, PTL
------------------------------------------------------------------------------
(* What the stacks and the medium hold. *)

\* Only the top of a stack may be live, and the point of a name has one mount at most.
StackOK == /\ \A q \in Points : mounts[q] # << >> => \A e \in ToSet(Front(mounts[q])) : ~Live(e)
           /\ \A n \in Names : mounts[n] # << >> => Front(mounts[n]) = << >>

\* What was written is on the medium of a disk that is not mounted.
SavedOK == \A d \in Disks : saved[d] = {pad[d]} \/ LiveIn(mounts, d)

DiskOK == StackOK /\ SavedOK

LEMMA PushPop ==
    ASSUME NEW s \in Seq(Entry), NEW e \in Entry
    PROVE  Append(s, e) # << >> /\ Front(Append(s, e)) = s /\ Last(Append(s, e)) = e
<1>1. /\ Append(s, e) \in Seq(Entry) /\ Append(s, e) # << >> /\ Len(Append(s, e)) = Len(s) + 1
      /\ Len(s) \in Nat
  BY AppendProperties, StackType
<1>2. Last(Append(s, e)) = e
  BY DEF Last
<1>3. Front(Append(s, e)) \in Seq(Entry) /\ Len(Front(Append(s, e))) = Len(s)
  <2>1. Front(Append(s, e)) \in Seq(Entry) /\ Len(Front(Append(s, e))) = Len(Append(s, e)) - 1
    BY <1>1, Popped
  <2> QED BY <1>1, <2>1
<1>4. \A i \in 1..Len(s) : Front(Append(s, e))[i] = s[i]
  BY DEF Front
<1> QED BY <1>1, <1>2, <1>3, <1>4, SeqEqual

LEMMA EntryFacts ==
    ASSUME Inv, NEW q \in Points, NEW e \in ToSet(mounts[q])
    PROVE  /\ e.disk \in Disks /\ e.name \in Names /\ e.name # "out"
           /\ q \in Disks => e.disk = q
           /\ q \in Names => e.name = q
           /\ \A d \in Disks : where[d] = e.name => e.disk = d
<1>1. e \in Entry
  BY OnePoint DEF Inv
<1> QED BY <1>1, DiskAssumption DEF Entry, Inv, TableOK

LEMMA SameDisk == ASSUME DiskOK, UNCHANGED <<where, mounts, pad, saved>> PROVE DiskOK'
BY DEF DiskOK, StackOK, SavedOK, LiveIn, Live

LEMMA MountedDisk ==
    ASSUME Inv, DiskOK, NEW d \in Disks, NEW point \in Points, CanMount(d, point), Mounted(d, point),
           UNCHANGED <<where, pad, saved>>,
           point \in Names => where[d] = point, point \in Disks => d = point
    PROVE  DiskOK' /\ IsOn(point)' /\ IsLiveOn(point)'
<1> DEFINE new == [disk |-> d, name |-> where[d]]
           s == mounts[point]
<1>1. new \in Entry /\ s \in Seq(Entry) /\ where[new.disk] = new.name
  BY DEF Inv, TypeOK, CanMount, Entry
<1>2. mounts' = [mounts EXCEPT ![point] = Append(s, new)] /\ mounts \in [Points -> Seq(Entry)]
  BY DEF Mounted, Inv, TypeOK
<1>3. new.disk = d
  OBVIOUS
<1> HIDE DEF new
<1>4. /\ Append(s, new) # << >> /\ Front(Append(s, new)) = s /\ Last(Append(s, new)) = new
      /\ ToSet(Append(s, new)) = ToSet(s) \union {new}
  BY <1>1, PushPop, Pushed
<1>5. mounts'[point] = Append(s, new) /\ \A q \in Points : q # point => mounts'[q] = mounts[q]
  BY <1>2
<1>6. s # << >> => Last(s) \in ToSet(s) /\ ~Live(Last(s)) /\ Last(s).disk = d
  <2> SUFFICES ASSUME s # << >> PROVE Last(s) \in ToSet(s) /\ ~Live(Last(s)) /\ Last(s).disk = d
    OBVIOUS
  <2>1. Last(s) \in ToSet(s)
    BY <1>1, Popped
  <2>2. Last(s).disk = d
    BY <2>1, EntryFacts DEF Points
  <2> QED BY <2>1, <2>2 DEF CanMount, IsLiveOn, IsOn, Top
<1>7. point \in Names => s = << >>
  <2> SUFFICES ASSUME point \in Names, s # << >> PROVE FALSE
    OBVIOUS
  <2>1. Last(s).name = point
    BY <1>6, EntryFacts
  <2> QED BY <1>6, <2>1 DEF Live
<1>8. \A e \in ToSet(s) : ~Live(e)
  <2> TAKE e \in ToSet(s)
  <2>1. s # << >>
    BY EmptyStack
  <2>2. e = Last(s) \/ e \in ToSet(Front(s))
    BY <1>1, <2>1, Popped
  <2> QED BY <1>6, <2>1, <2>2 DEF DiskOK, StackOK
<1>9. IsOn(point)' /\ IsLiveOn(point)'
  BY <1>1, <1>4, <1>5 DEF IsLiveOn, IsOn, Live, Top
<1>10. StackOK'
  <2>1. \A q \in Points : mounts'[q] # << >> => \A e \in ToSet(Front(mounts'[q])) : where'[e.disk] # e.name
    BY <1>4, <1>5, <1>8 DEF DiskOK, StackOK, Live
  <2>2. \A n \in Names : mounts'[n] # << >> => Front(mounts'[n]) = << >>
    BY <1>4, <1>5, <1>7 DEF DiskOK, StackOK, Points
  <2> QED BY <2>1, <2>2 DEF StackOK, Live
<1>11. SavedOK'
  <2>1. \A q \in Points : ToSet(mounts[q]) \subseteq ToSet(mounts'[q])
    BY <1>4, <1>5
  <2>2. \A x \in Disks : LiveIn(mounts, x) => LiveIn(mounts, x)'
    BY <2>1 DEF LiveIn, Live
  <2> QED BY <2>2 DEF DiskOK, SavedOK
<1> QED BY <1>9, <1>10, <1>11 DEF DiskOK

LEMMA UnmountedDisk ==
    ASSUME Inv, DiskOK, NEW point \in Points, CanUmount(point), Unmount(point), UNCHANGED <<where, pad>>
    PROVE  DiskOK' /\ ~IsLiveOn(point)' /\ (point \in Names => ~IsOn(point)')
<1> DEFINE s == mounts[point]
<1>1. s \in Seq(Entry) /\ s # << >> /\ Front(s) \in Seq(Entry)
  BY Popped DEF Inv, TypeOK, CanUmount, IsOn
<1>2. mounts' = [mounts EXCEPT ![point] = Front(s)] /\ mounts \in [Points -> Seq(Entry)]
  BY DEF Unmount, Inv, TypeOK
<1>3. mounts'[point] = Front(s) /\ \A q \in Points : q # point => mounts'[q] = mounts[q]
  BY <1>1, <1>2
<1>4. \A e \in ToSet(Front(s)) : ~Live(e)
  BY <1>1 DEF DiskOK, StackOK
<1>5. Front(s) # << >> => Last(Front(s)) \in ToSet(Front(s)) /\ ToSet(Front(Front(s))) \subseteq ToSet(Front(s))
  BY <1>1, Popped
<1>6. point \in Names => Front(s) = << >>
  BY <1>1 DEF DiskOK, StackOK
<1>7. ~IsLiveOn(point)' /\ (point \in Names => ~IsOn(point)')
  BY <1>3, <1>4, <1>5, <1>6 DEF IsLiveOn, IsOn, Live, Top
<1>8. StackOK'
  <2>1. \A q \in Points : mounts'[q] # << >> => \A e \in ToSet(Front(mounts'[q])) : where'[e.disk] # e.name
    BY <1>3, <1>4, <1>5 DEF DiskOK, StackOK, Live
  <2>2. \A n \in Names : mounts'[n] # << >> => Front(mounts'[n]) = << >>
    BY <1>3, <1>6 DEF DiskOK, StackOK, Points
  <2> QED BY <2>1, <2>2 DEF StackOK, Live
<1>9. SavedOK'
  <2>1. \A d \in Disks : saved'[d] = IF LiveIn(mounts, d) /\ ~LiveIn(mounts', d) THEN {pad[d]} ELSE saved[d]
    BY DEF Unmount
  <2>2. \A d \in Disks : LiveIn(mounts', d) = LiveIn(mounts, d)'
    BY DEF LiveIn, Live
  <2> QED BY <2>1, <2>2 DEF DiskOK, SavedOK
<1> QED BY <1>7, <1>8, <1>9 DEF DiskOK

LEMMA WrittenDisk ==
    ASSUME Inv, DiskOK, NEW d \in Disks, NEW v, NEW e \in ToSet(mounts[d]), Live(e), UNCHANGED <<where, mounts>>,
           pad' = [pad EXCEPT ![d] = v], saved' = [saved EXCEPT ![d] = @ \union {v}]
    PROVE  DiskOK'
<1>1. \A x \in Disks : x # d => pad'[x] = pad[x] /\ saved'[x] = saved[x]
  BY DEF Inv, TypeOK
<1>2. \A x \in Disks : LiveIn(mounts, x)' = LiveIn(mounts, x)
  BY DEF LiveIn, Live
<1>3. LiveIn(mounts, d)
  BY EntryFacts DEF LiveIn, Points
<1>4. SavedOK'
  BY <1>1, <1>2, <1>3 DEF DiskOK, SavedOK
<1>5. StackOK'
  BY DEF DiskOK, StackOK, Live
<1> QED BY <1>4, <1>5 DEF DiskOK

\* A stick that is pulled, and what eject unmounts with it.
LEMMA GoneDisk ==
    ASSUME Inv, DiskOK, NEW d \in Sticks, NEW medium, Gone(d, medium),
           medium \in [Disks -> SUBSET Pads], \A x \in Disks : x # d => medium[x] = saved[x],
           mounts' = mounts \/ mounts' = [mounts EXCEPT ![where[d]] = << >>], where[d] \in Names
    PROVE  DiskOK'
<1>1. d \in Disks /\ where \in [Disks -> Names \union {"out"}] /\ pad \in [Disks -> Pads] /\ mounts \in [Points -> Seq(Entry)]
  BY DiskAssumption DEF Inv, TypeOK
<1>2. where'[d] = "out" /\ \A x \in Disks : x # d => where'[x] = where[x] /\ pad'[x] = pad[x] /\ saved'[x] = saved[x]
  BY <1>1 DEF Gone
<1>3. saved'[d] = {pad'[d]}
  BY <1>1 DEF Gone
<1>4. \A q \in Points : mounts'[q] = mounts[q] \/ (q = where[d] /\ mounts'[q] = << >>)
  BY <1>1 DEF Points
<1>5. \A q \in Points : \A e \in ToSet(mounts[q]) :
          /\ e.disk = d => where'[e.disk] # e.name
          /\ e.disk # d => where'[e.disk] = where[e.disk]
  BY <1>2, EntryFacts
<1>6. StackOK'
  <2>1. ASSUME NEW q \in Points, mounts'[q] # << >>, NEW e \in ToSet(Front(mounts'[q]))
        PROVE  where'[e.disk] # e.name
    <3>1. mounts'[q] = mounts[q] /\ e \in ToSet(mounts[q]) /\ ~Live(e)
      BY <1>1, <1>4, <2>1, Popped DEF DiskOK, StackOK
    <3> QED BY <1>5, <3>1 DEF Live
  <2>2. \A n \in Names : mounts'[n] # << >> => Front(mounts'[n]) = << >>
    BY <1>4 DEF DiskOK, StackOK, Points
  <2> QED BY <2>1, <2>2 DEF StackOK, Live
<1>7. SavedOK'
  <2> SUFFICES ASSUME NEW x \in Disks, x # d, LiveIn(mounts, x)
               PROVE  LiveIn(mounts, x)'
    BY <1>2, <1>3 DEF DiskOK, SavedOK
  <2>1. PICK q \in Points : \E e \in ToSet(mounts[q]) : e.disk = x /\ Live(e)
    BY DEF LiveIn
  <2>2. PICK e \in ToSet(mounts[q]) : e.disk = x /\ Live(e)
    BY <2>1
  <2>3. q # where[d]
    <3> SUFFICES ASSUME q = where[d] PROVE FALSE
      OBVIOUS
    <3>1. e.name = where[d]
      BY <2>2, EntryFacts
    <3> QED BY <1>1, <2>2, <3>1, EntryFacts
  <2>4. mounts'[q] = mounts[q]
    BY <1>4, <2>3
  <2>5. where'[e.disk] = e.name
    BY <1>5, <2>2 DEF Live
  <2> QED BY <2>2, <2>4, <2>5 DEF LiveIn, Live
<1> QED BY <1>6, <1>7 DEF DiskOK

LEMMA PluggedDisk == ASSUME Inv, DiskOK, NEW d \in Sticks, NEW n \in Names, Plug(d, n) PROVE DiskOK'
<1>1. d \in Disks /\ where \in [Disks -> Names \union {"out"}] /\ where[d] = "out" /\ UNCHANGED <<mounts, pad, saved>>
  BY DiskAssumption DEF Inv, TypeOK, Plug
<1>2. where'[d] = n /\ \A x \in Disks : x # d => where'[x] = where[x]
  BY <1>1 DEF Plug
<1>3. \A q \in Points : \A e \in ToSet(mounts[q]) : e.name # n /\ e.name # "out"
  BY EntryFacts DEF Plug
<1>4. \A q \in Points : \A e \in ToSet(mounts[q]) :
          (where'[e.disk] = e.name <=> where[e.disk] = e.name) /\ (e.disk = d => where[e.disk] # e.name)
  BY <1>1, <1>2, <1>3, EntryFacts
<1>5. StackOK'
  <2>1. ASSUME NEW q \in Points, mounts[q] # << >>, NEW e \in ToSet(Front(mounts[q]))
        PROVE  where'[e.disk] # e.name
    <3>1. e \in ToSet(mounts[q]) /\ ~Live(e)
      BY <2>1, Popped DEF DiskOK, StackOK, Inv, TypeOK
    <3> QED BY <1>4, <3>1 DEF Live
  <2>2. \A m \in Names : mounts'[m] # << >> => Front(mounts'[m]) = << >>
    BY <1>1 DEF DiskOK, StackOK
  <2> QED BY <1>1, <2>1, <2>2 DEF StackOK, Live
<1>6. SavedOK'
  BY <1>1, <1>4 DEF DiskOK, SavedOK, LiveIn, Live
<1> QED BY <1>5, <1>6 DEF DiskOK
------------------------------------------------------------------------------
(* What a call knows. *)

\* How far a call can have come, and when it has begun to count.
PhaseOf(p) == /\ at[p] \in {"mount", "ntfs", "wait"} => call[p].op = "--mount"
              /\ at[p] = "mount uuid" => call[p].op = "mountusb"
              /\ at[p] = "read" => call[p].op = "getpad"
              /\ at[p] \notin {"wait", "answer"} => count[p] = 0

\* A call that nobody disturbed is right about what it has seen.
TruthOf(p) == ~disturbed[p] =>
    /\ at[p] = "answer" => IsTrue(call[p], answer[p]) \/ KnownFalse(p)
    /\ at[p] \in {"mount", "ntfs"} => ~LooksMounted(Dev(p))
    /\ at[p] = "wait" /\ count[p] = MaxWait => ~LooksMounted(Dev(p)) \/ p \in misled
    /\ at[p] = "mount uuid" => ~IsLiveOn(Dev(p)) \/ p \in misled
    /\ at[p] \in {"read", "write"} => IsLiveOn(Dev(p)) /\ held[p] = Top(Dev(p))
    /\ at[p] = "read" => seen[p] = Reading(p) /\ pad[Dev(p)] # "none"

Truth == DiskOK /\ \A p \in Slots : PhaseOf(p) /\ TruthOf(p)

\* What the steps of a call leave to the others: their own state, and a mark if they change
\* what the others look at.
Alone(p) == \A q \in Slots \ {p} :
    /\ at'[q] = at[q] /\ call'[q] = call[q] /\ count'[q] = count[q]
    /\ held'[q] = held[q] /\ seen'[q] = seen[q] /\ answer'[q] = answer[q]
    /\ q \in misled => q \in misled'
Unseen(p) == \A q \in Slots \ {p} :
    at[q] # "idle" /\ ~disturbed'[q] => ~disturbed[q] /\ UNCHANGED <<where, mounts, pad>>

LEMMA SameTruth ==
    ASSUME NEW q \in Slots, TruthOf(q),
           at'[q] = at[q], call'[q] = call[q], count'[q] = count[q],
           held'[q] = held[q], seen'[q] = seen[q], answer'[q] = answer[q], q \in misled => q \in misled',
           at[q] # "idle" /\ ~disturbed'[q] => ~disturbed[q] /\ UNCHANGED <<where, mounts, pad>>
    PROVE  TruthOf(q)'
<1>1. CASE at[q] = "idle" \/ disturbed'[q]
  BY <1>1 DEF TruthOf
<1>2. CASE at[q] # "idle" /\ ~disturbed'[q]
  <2>1. ~disturbed[q] /\ where' = where /\ mounts' = mounts /\ pad' = pad
    BY <1>2
  <2>2. /\ Dev(q)' = Dev(q) /\ LooksMounted(Dev(q))' = LooksMounted(Dev(q))
        /\ IsLiveOn(Dev(q))' = IsLiveOn(Dev(q)) /\ Top(Dev(q))' = Top(Dev(q)) /\ Reading(q)' = Reading(q)
        /\ IsTrue(call[q], answer[q])' = IsTrue(call[q], answer[q])
    BY <2>1 DEF Dev, LooksMounted, IsLiveOn, IsOn, Top, Live, Reading, IsTrue, Status
  <2>3. KnownFalse(q) => KnownFalse(q)'
    BY <2>1, <2>2 DEF KnownFalse, IsOn
  <2> QED BY <2>1, <2>2, <2>3 DEF TruthOf
<1> QED BY <1>1, <1>2

LEMMA TruthFrame ==
    ASSUME Truth, NEW p \in Slots, Alone(p), Unseen(p), DiskOK', PhaseOf(p)', TruthOf(p)'
    PROVE  Truth'
<1>1. ASSUME NEW q \in Slots, q # p PROVE PhaseOf(q)' /\ TruthOf(q)'
  <2>1. PhaseOf(q)'
    BY <1>1 DEF Truth, Alone, PhaseOf
  <2>2. TruthOf(q)'
    BY <1>1, SameTruth DEF Truth, Alone, Unseen
  <2> QED BY <2>1, <2>2
<1> QED BY <1>1 DEF Truth

LEMMA UnseenFact ==
    ASSUME TypeOK, NEW p \in Slots,
           \/ disturbed' = Others(p)
           \/ \E b \in BOOLEAN : disturbed' = [Others(p) EXCEPT ![p] = disturbed[p] \/ b]
           \/ /\ UNCHANGED <<where, mounts, pad>>
              /\ disturbed' = disturbed \/ \E b \in BOOLEAN : disturbed' = [disturbed EXCEPT ![p] = disturbed[p] \/ b]
    PROVE  Unseen(p) /\ (~disturbed'[p] => ~disturbed[p])
<1>1. CASE disturbed' = Others(p)
  BY <1>1, OthersFact, Zenon DEF Unseen
<1>2. ASSUME NEW b \in BOOLEAN, disturbed' = [Others(p) EXCEPT ![p] = disturbed[p] \/ b]
      PROVE  Unseen(p) /\ (~disturbed'[p] => ~disturbed[p])
  <2>1. \A q \in Slots : q # p => disturbed'[q] = (disturbed[q] \/ (q # p /\ at[q] # "idle"))
    BY <1>2, Zenon DEF Others
  <2>2. disturbed'[p] = (disturbed[p] \/ b)
    BY <1>2, Zenon DEF Others
  <2> QED BY <2>1, <2>2, Zenon DEF Unseen
<1>3. CASE UNCHANGED <<where, mounts, pad>> /\ disturbed' = disturbed
  BY <1>3, Zenon DEF Unseen
<1>4. ASSUME NEW b \in BOOLEAN, disturbed' = [disturbed EXCEPT ![p] = disturbed[p] \/ b], UNCHANGED <<where, mounts, pad>>
      PROVE  Unseen(p) /\ (~disturbed'[p] => ~disturbed[p])
  <2>1. \A q \in Slots : q # p => disturbed'[q] = disturbed[q]
    BY <1>4, Zenon DEF TypeOK
  <2>2. disturbed'[p] = (disturbed[p] \/ b)
    BY <1>4, Zenon DEF TypeOK
  <2> QED BY <1>4, <2>1, <2>2, Zenon DEF Unseen
<1> QED BY <1>1, <1>2, <1>3, <1>4

\* Most steps: the call moves on, or answers.
LEMMA MovedAlone ==
    ASSUME Inv, NEW p \in Slots, NEW to \in Labels, Moved(p, to),
           count' = count \/ \E c \in Nat : count' = [count EXCEPT ![p] = c]
    PROVE  /\ Alone(p) /\ at'[p] = to /\ call'[p] = call[p] /\ Dev(p)' = Dev(p)
           /\ held'[p] = held[p] /\ seen'[p] = seen[p]
<1>1. CallTypes
  BY TypeParts DEF Inv, Types
<1>2. at'[p] = to /\ call' = call /\ held' = held /\ seen' = seen
  BY <1>1 DEF CallTypes, Moved
<1>3. Alone(p)
  BY <1>1 DEF CallTypes, Moved, Alone
<1> QED BY <1>2, <1>3 DEF Dev

\* The answer, when the call is undisturbed.
LEMMA AnswerTruth ==
    ASSUME Truth, NEW p \in Slots, Alone(p), Unseen(p), DiskOK', at'[p] = "answer",
           ~disturbed'[p] => IsTrue(call[p], answer[p])' \/ KnownFalse(p)'
    PROVE  Truth'
<1>1. PhaseOf(p)' /\ TruthOf(p)'
  BY DEF PhaseOf, TruthOf
<1> QED BY <1>1, TruthFrame
------------------------------------------------------------------------------
(* The steps of devicesctl.sh. *)

LEMMA SameTable == ASSUME UNCHANGED mounts, NEW q PROVE LooksMounted(q)' = LooksMounted(q) /\ IsOn(q)' = IsOn(q)
BY DEF LooksMounted, IsOn

LEMMA BeginTruth == ASSUME Inv, Truth, NEW p \in Slots, NEW c \in Calls, Begin(p, c) PROVE Truth'
<1>1. CallTypes /\ TypeOK
  BY TypeParts DEF Inv, Types
<1>2. Alone(p) /\ at[p] = "idle" /\ at'[p] = "begun" /\ count' = count
  BY <1>1 DEF Alone, Begin, history, CallTypes
<1>3. UNCHANGED <<where, mounts, pad, saved, disturbed>>
  BY DEF Begin, diskVars, history
<1>4. Unseen(p)
  BY <1>1, <1>3, UnseenFact
<1>5. PhaseOf(p)' /\ TruthOf(p)'
  BY <1>2 DEF PhaseOf, TruthOf, Truth
<1> QED BY <1>2, <1>3, <1>4, <1>5, SameDisk, TruthFrame DEF Truth

\* When a device looks mounted, it is, or the answer is known to be false.
LEMMA NamedAlike ==
    ASSUME NEW p \in Slots, UNCHANGED mounts, call'[p] = call[p], call[p].op = "--mount", answer'[p] = "path",
           LooksMounted(Dev(p))
    PROVE  IsTrue(call[p], answer[p])' \/ KnownFalse(p)'
<1>1. PICK m \in BeginsWith[Dev(p)] : IsOn(m)
  BY DEF LooksMounted
<1>2. CASE m = Dev(p)
  BY <1>1, <1>2 DEF IsTrue, IsOn, Dev
<1>3. CASE m # Dev(p)
  BY <1>1, <1>3 DEF KnownFalse, IsOn, Dev
<1> QED BY <1>2, <1>3

LEMMA LookTruth == ASSUME Inv, Truth, NEW p \in Slots, Look(p) PROVE Truth'
<1>1. UNCHANGED <<where, mounts, pad, saved, disturbed, count>> /\ TypeOK
  BY DEF Look, diskVars, history, Inv
<1>2. Unseen(p) /\ (~disturbed'[p] => ~disturbed[p]) /\ DiskOK'
  BY <1>1, UnseenFact, SameDisk DEF Truth
<1>3. CASE LooksMounted(Dev(p))
  <2>1. Moved(p, "answer") /\ answer'[p] = "path"
    BY <1>3 DEF Look, Says, Moved, Answers, bounds, history, Inv, TypeOK
  <2>2. Alone(p) /\ at'[p] = "answer" /\ call'[p] = call[p]
    BY <1>1, <2>1, MovedAlone DEF Labels
  <2>3. IsTrue(call[p], answer[p])' \/ KnownFalse(p)'
    <3>1. call[p].op = "--mount"
      BY DEF Look, Begun
    <3> QED BY <1>1, <1>3, <2>1, <2>2, <3>1, NamedAlike
  <2> QED BY <1>2, <2>2, <2>3, AnswerTruth
<1>4. CASE ~LooksMounted(Dev(p))
  <2>1. PICK to \in {"mount", "ntfs"} : Moved(p, to)
    BY <1>4 DEF Look, Goto, Moved, bounds, history
  <2>2. Alone(p) /\ at'[p] = to /\ call'[p] = call[p] /\ Dev(p)' = Dev(p)
    BY <1>1, <2>1, MovedAlone DEF Labels
  <2>3. call[p].op = "--mount" /\ count[p] = 0
    BY DEF Look, Begun, Truth, PhaseOf
  <2>4. ~LooksMounted(Dev(p))'
    BY <1>1, <1>4, <2>2 DEF LooksMounted, IsOn
  <2>5. PhaseOf(p)' /\ TruthOf(p)'
    BY <1>1, <2>2, <2>3, <2>4 DEF PhaseOf, TruthOf
  <2> QED BY <1>2, <2>2, <2>5, TruthFrame
<1> QED BY <1>3, <1>4

LEMMA TryMountStep ==
    ASSUME Inv, DiskOK, NEW p \in Slots, NEW n, NEW point \in Points, TryMount(p, n, point),
           UNCHANGED <<where, pad, saved>>,
           point \in Names => n = point, point \in Disks => n = where[point]
    PROVE  /\ DiskOK' /\ Unseen(p) /\ (~disturbed'[p] => ~disturbed[p])
           /\ mounts' # mounts => IsOn(point)' /\ IsLiveOn(point)'
<1>1. ASSUME NEW d \in Disks, where[d] = n, CanMount(d, point), Mounted(d, point), disturbed' = Others(p)
      PROVE  /\ DiskOK' /\ Unseen(p) /\ (~disturbed'[p] => ~disturbed[p])
             /\ IsOn(point)' /\ IsLiveOn(point)'
  <2>1. Unseen(p) /\ (~disturbed'[p] => ~disturbed[p])
    BY <1>1, UnseenFact DEF Inv
  <2>2. point \in Disks => d = point
    BY <1>1 DEF CanMount, Inv, TableOK
  <2> QED BY <1>1, <2>1, <2>2, MountedDisk
<1>2. CASE UNCHANGED <<mounts, disturbed>>
  <2>1. Unseen(p) /\ (~disturbed'[p] => ~disturbed[p])
    BY <1>2, UnseenFact DEF Inv
  <2> QED BY <1>2, <2>1, SameDisk
<1> QED BY <1>1, <1>2 DEF TryMount

LEMMA MountTruth == ASSUME Inv, Truth, NEW p \in Slots, Mount(p) PROVE Truth'
<1>1. at[p] = "mount" /\ Dev(p) \in Names /\ Dev(p) \in Points /\ Dev(p) \notin Disks
  BY OnTheWayFacts, DiskAssumption DEF Mount, Points
<1>2. /\ DiskOK' /\ Unseen(p) /\ (~disturbed'[p] => ~disturbed[p])
      /\ mounts' # mounts => IsOn(Dev(p))'
  <2> DEFINE q == Dev(p)
  <2>1. TryMount(p, q, q) /\ UNCHANGED <<where, pad, saved>> /\ q \in Points /\ q \notin Disks /\ Dev(p)' = q
    BY <1>1 DEF Mount, Dev
  <2> HIDE DEF q
  <2>2. DiskOK' /\ Unseen(p) /\ (~disturbed'[p] => ~disturbed[p]) /\ (mounts' # mounts => mounts'[q] # << >>)
    BY <2>1, TryMountStep DEF Truth, IsOn
  <2> QED BY <2>1, <2>2 DEF IsOn
<1>3. Moved(p, "answer") /\ count' = count /\ answer'[p] = IF mounts' # mounts THEN "path" ELSE "error"
  BY DEF Mount, Says, Moved, Answers, bounds, Inv, TypeOK
<1>4. Alone(p) /\ at'[p] = "answer" /\ call'[p] = call[p] /\ Dev(p)' = Dev(p)
  BY <1>3, MovedAlone DEF Labels
<1>5. ASSUME ~disturbed'[p] PROVE IsTrue(call[p], answer[p])'
  <2>1. call[p].op = "--mount" /\ ~LooksMounted(Dev(p))
    BY <1>1, <1>2, <1>5 DEF Truth, PhaseOf, TruthOf
  <2>2. Dev(p) \in BeginsWith[Dev(p)]
    BY <1>1, DiskAssumption
  <2>3. CASE mounts' # mounts
    <3>1. answer'[p] = "path" /\ IsOn(Dev(p))'
      BY <1>2, <1>3, <2>3
    <3> QED BY <1>4, <2>1, <3>1 DEF IsTrue, Dev
  <2>4. CASE mounts' = mounts
    <3>1. answer'[p] = "error" /\ ~IsOn(Dev(p))'
      BY <1>3, <1>4, <2>1, <2>2, <2>4 DEF LooksMounted, IsOn
    <3> QED BY <1>4, <2>1, <3>1 DEF IsTrue, IsOn, Dev
  <2> QED BY <2>3, <2>4
<1> QED BY <1>2, <1>4, <1>5, AnswerTruth

LEMMA MountNtfsTruth == ASSUME Inv, Truth, NEW p \in Slots, MountNtfs(p) PROVE Truth'
<1>1. at[p] = "ntfs" /\ Dev(p) \in Points /\ Dev(p) \notin Disks
  BY OnTheWayFacts, DiskAssumption DEF MountNtfs, Points
<1>2. DiskOK' /\ Unseen(p)
  <2> DEFINE q == Dev(p)
  <2>1. TryMount(p, q, q) /\ UNCHANGED <<where, pad, saved>> /\ q \in Points /\ q \notin Disks
    BY <1>1 DEF MountNtfs
  <2> HIDE DEF q
  <2> QED BY <2>1, TryMountStep DEF Truth
<1>3. Moved(p, "wait") /\ count' = count
  BY DEF MountNtfs, Goto, Moved, bounds
<1>4. Alone(p) /\ at'[p] = "wait" /\ call'[p] = call[p]
  BY <1>3, MovedAlone DEF Labels
<1>5. call[p].op = "--mount" /\ count'[p] = 0
  BY <1>1, <1>3 DEF Truth, PhaseOf
<1>6. PhaseOf(p)' /\ TruthOf(p)'
  BY <1>4, <1>5, BoundAssumption DEF PhaseOf, TruthOf
<1> QED BY <1>2, <1>4, <1>6, TruthFrame

LEMMA WaitTruth == ASSUME Inv, Truth, NEW p \in Slots, Wait(p) PROVE Truth'
<1>1. UNCHANGED <<where, mounts, pad, saved, disturbed, misled>> /\ TypeOK /\ at[p] = "wait"
  BY DEF Wait, diskVars, history, Inv
<1>2. Unseen(p) /\ (~disturbed'[p] => ~disturbed[p]) /\ DiskOK'
  BY <1>1, UnseenFact, SameDisk DEF Truth
<1>3. call[p].op = "--mount" /\ count[p] \in 0..MaxWait /\ Dev(p) \in Names
  BY <1>1, OnTheWayFacts DEF Truth, PhaseOf
<1>4. CASE LooksMounted(Dev(p)) \/ count[p] = MaxWait
  <2>1. /\ Moved(p, "answer") /\ answer'[p] = IF count[p] < MaxWait THEN "path" ELSE "error"
        /\ count' = count
    BY <1>4 DEF Wait, Says, Moved, Answers, bounds, history, Inv, TypeOK
  <2>2. Alone(p) /\ at'[p] = "answer" /\ call'[p] = call[p]
    BY <2>1, MovedAlone DEF Labels
  <2>3. ASSUME ~disturbed'[p] PROVE IsTrue(call[p], answer[p])' \/ KnownFalse(p)'
    <3>1. count[p] = MaxWait => ~LooksMounted(Dev(p)) \/ p \in misled
      BY <1>1, <1>2, <2>3 DEF Truth, TruthOf
    <3>2. CASE count[p] < MaxWait
      <4>1. LooksMounted(Dev(p)) /\ answer'[p] = "path"
        BY <1>3, <1>4, <2>1, <3>2, BoundAssumption
      <4> QED BY <1>1, <1>3, <2>2, <4>1, NamedAlike
    <3>3. CASE ~(count[p] < MaxWait)
      <4>1. count[p] = MaxWait /\ answer'[p] = "error"
        BY <1>3, <2>1, <3>3, BoundAssumption
      <4>2. CASE p \in misled
        BY <1>1, <1>3, <2>2, <4>1, <4>2 DEF KnownFalse
      <4>3. CASE p \notin misled
        <5>1. ~IsOn(Dev(p))
          BY <1>3, <3>1, <4>1, <4>3, DiskAssumption DEF LooksMounted
        <5> QED BY <1>1, <1>3, <2>2, <4>1, <5>1 DEF IsTrue, Dev, IsOn
      <4> QED BY <4>2, <4>3
    <3> QED BY <3>2, <3>3
  <2> QED BY <1>2, <2>2, <2>3, AnswerTruth
<1>5. CASE ~(LooksMounted(Dev(p)) \/ count[p] = MaxWait)
  <2>1. UNCHANGED <<at, answer, call, held, seen, issued>> /\ count' = [count EXCEPT ![p] = @ + 1]
    BY <1>5 DEF Wait, bounds
  <2>2. Alone(p)
    BY <1>1, <2>1 DEF Alone, TypeOK
  <2>3. PhaseOf(p)'
    BY <1>1, <1>3, <2>1 DEF PhaseOf
  <2>4. ~LooksMounted(Dev(p))'
    BY <1>1, <1>5, <2>1 DEF LooksMounted, IsOn, Dev
  <2>5. TruthOf(p)'
    BY <1>1, <2>1, <2>4 DEF TruthOf
  <2> QED BY <1>2, <2>2, <2>3, <2>5, TruthFrame
<1> QED BY <1>4, <1>5

LEMMA TellTruth == ASSUME Inv, Truth, NEW p \in Slots, GetStatus(p) \/ CheckUuid(p) PROVE Truth'
<1>1. UNCHANGED <<where, mounts, pad, saved, disturbed, count>> /\ TypeOK
  BY DEF GetStatus, CheckUuid, diskVars, history, Inv
<1>2. Unseen(p) /\ (~disturbed'[p] => ~disturbed[p]) /\ DiskOK'
  BY <1>1, UnseenFact, SameDisk DEF Truth
<1>3. Moved(p, "answer")
  BY DEF GetStatus, CheckUuid, Status, Says, Moved, Answers, bounds, history
<1>4. Alone(p) /\ at'[p] = "answer" /\ call'[p] = call[p]
  BY <1>1, <1>3, MovedAlone DEF Labels
<1>5. IsTrue(call[p], answer[p])'
  <2>1. CASE GetStatus(p)
    <3>1. call[p].op = "--getstatus" /\ answer'[p] = Status(call[p].dev)
      BY <2>1 DEF GetStatus, Begun, Says, Dev, Inv, TypeOK
    <3>2. Status(call[p].dev)' = Status(call[p].dev)
      BY <1>1, <1>4 DEF Status, IsOn
    <3> QED BY <1>4, <3>1, <3>2 DEF IsTrue
  <2>2. CASE CheckUuid(p)
    <3>1. call[p].op = "checkuuid" /\ (answer'[p] = "on" <=> where[call[p].dev] # "out")
      BY <2>2 DEF CheckUuid, Begun, Says, Dev, Inv, TypeOK
    <3> QED BY <1>1, <1>4, <3>1 DEF IsTrue
  <2> QED BY <2>1, <2>2
<1> QED BY <1>2, <1>4, <1>5, AnswerTruth

LEMMA EjectTruth == ASSUME Inv, Truth, NEW p \in Slots, Eject(p) PROVE Truth'
<1>1. at[p] = "begun" /\ call[p].op = "--eject" /\ Dev(p) \in Names /\ TypeOK
  <2>1. at[p] = "begun" /\ call[p].op = "--eject" /\ call[p].op \in NameOps
    BY DEF Eject, Begun, NameOps
  <2> QED BY <2>1, OnTheWayFacts DEF Inv
<1>2. Moved(p, "answer") /\ count' = count
  BY DEF Eject, Says, Moved, Answers, bounds
<1>3. Alone(p) /\ at'[p] = "answer" /\ call'[p] = call[p]
  BY <1>2, MovedAlone DEF Labels
<1>4. DiskOK' /\ Unseen(p)
  <2>1. CASE UNCHANGED <<where, mounts, pad, saved, disturbed, spoilt>>
    BY <1>1, <2>1, UnseenFact, SameDisk DEF Truth
  <2>2. ASSUME NEW d \in Sticks, where[d] = Dev(p), Gone(d, [saved EXCEPT ![d] = Flushed(d)]),
               mounts' = [mounts EXCEPT ![Dev(p)] = << >>], disturbed' = Others(p)
        PROVE  DiskOK' /\ Unseen(p)
    <3> DEFINE medium == [saved EXCEPT ![d] = Flushed(d)]
    <3>1. d \in Disks /\ Flushed(d) \in SUBSET Pads
      <4>1. d \in Disks
        BY DiskAssumption
      <4>2. saved[d] \in SUBSET Pads /\ {pad[d]} \in SUBSET Pads
        BY <1>1, <4>1 DEF TypeOK
      <4> QED BY <4>1, <4>2 DEF Flushed
    <3>2. medium \in [Disks -> SUBSET Pads] /\ \A x \in Disks : x # d => medium[x] = saved[x]
      BY <1>1, <3>1 DEF TypeOK
    <3>3. Gone(d, medium) /\ mounts' = [mounts EXCEPT ![where[d]] = << >>] /\ where[d] \in Names
      BY <1>1, <2>2
    <3> HIDE DEF medium
    <3>4. DiskOK'
      BY <3>2, <3>3, GoneDisk DEF Truth
    <3>5. Unseen(p)
      BY <1>1, <2>2, UnseenFact
    <3> QED BY <3>4, <3>5
  <2> QED BY <2>1, <2>2 DEF Eject
<1>5. IsTrue(call[p], answer[p])'
  BY <1>1, <1>3 DEF IsTrue
<1> QED BY <1>3, <1>4, <1>5, AnswerTruth

\* A call tries to unmount something.
LEMMA TriedTruth ==
    ASSUME Inv, DiskOK, NEW p \in Slots, NEW point \in Points, Tried(p, point), UNCHANGED <<where, pad>>
    PROVE  /\ DiskOK' /\ Unseen(p) /\ (~disturbed'[p] => ~disturbed[p])
           /\ p \in misled' \/ ~IsLiveOn(point)'
           /\ point \in Names => ~IsOn(point)'
<1>1. CASE CanUmount(point)
  <2>1. Unmount(point) /\ disturbed' = Others(p)
    BY <1>1 DEF Tried
  <2> QED BY <1>1, <2>1, UnmountedDisk, UnseenFact DEF Inv
<1>2. CASE ~CanUmount(point)
  <2>1. /\ UNCHANGED <<where, mounts, pad, saved, disturbed>>
        /\ misled' = IF IsOn(point) THEN misled \union {p} ELSE misled
    BY <1>2 DEF Tried
  <2>2. Unseen(p) /\ (~disturbed'[p] => ~disturbed[p]) /\ DiskOK'
    BY <2>1, UnseenFact, SameDisk DEF Inv
  <2>3. p \in misled' \/ ~IsLiveOn(point)'
    BY <2>1 DEF IsLiveOn, IsOn
  <2>4. point \in Names => ~IsOn(point)'
    <3> SUFFICES ASSUME point \in Names PROVE ~IsOn(point)
      BY <2>1 DEF IsOn
    <3>1. Holders(point) = {}
      <4>1. \A q \in Slots : at[q] \in {"read", "write"} => call[q].dev \in Sticks
        BY DEF Inv, CallOK, Dev
      <4> QED BY <4>1, DiskAssumption DEF Holders
    <3> QED BY <1>2, <3>1 DEF CanUmount, Busy
  <2> QED BY <2>2, <2>3, <2>4
<1> QED BY <1>1, <1>2

LEMMA UmountTruth == ASSUME Inv, Truth, NEW p \in Slots, Umount(p) \/ UmountUuid(p) PROVE Truth'
<1>1. at[p] = "begun" /\ Dev(p) \in Points /\ call[p].op \in {"--umount", "umountusb"}
  <2>1. at[p] = "begun" /\ call[p].op \in {"--umount", "umountusb"}
    BY DEF Umount, UmountUuid, Begun
  <2>2. Dev(p) \in Names \/ Dev(p) \in Sticks
    BY <2>1, OnTheWayFacts DEF NameOps, DiskOps
  <2> QED BY <2>1, <2>2, DiskAssumption DEF Points
<1>2. /\ DiskOK' /\ Unseen(p)
      /\ p \in misled' \/ mounts'[Dev(p)] = << >> \/ where'[Last(mounts'[Dev(p)]).disk] # Last(mounts'[Dev(p)]).name
      /\ Dev(p) \in Names => mounts'[Dev(p)] = << >>
  <2> DEFINE q == Dev(p)
  <2>1. Tried(p, q) /\ UNCHANGED <<where, pad>> /\ q \in Points
    BY <1>1 DEF Umount, UmountUuid
  <2> HIDE DEF q
  <2>2. /\ DiskOK' /\ Unseen(p)
        /\ p \in misled' \/ mounts'[q] = << >> \/ where'[Last(mounts'[q]).disk] # Last(mounts'[q]).name
        /\ q \in Names => mounts'[q] = << >>
    BY <2>1, TriedTruth DEF Truth, IsLiveOn, IsOn, Live, Top
  <2> QED BY <2>2 DEF q
<1>3. Moved(p, "answer") /\ count' = count
  BY DEF Umount, UmountUuid, Tried, Says, Moved, Answers, bounds
<1>4. Alone(p) /\ at'[p] = "answer" /\ call'[p] = call[p]
  BY <1>3, MovedAlone DEF Labels
<1>5. IsTrue(call[p], answer[p])' \/ KnownFalse(p)'
  <2>1. CASE call[p].op = "--umount"
    <3>1. Dev(p) \in Names
      BY <1>1, <2>1, OnTheWayFacts DEF NameOps
    <3> QED BY <1>2, <1>4, <2>1, <3>1 DEF IsTrue, IsOn, Dev
  <2>2. CASE call[p].op = "umountusb" /\ p \notin misled'
    BY <1>2, <1>4, <2>2 DEF IsTrue, IsLiveOn, IsOn, Live, Top, Dev
  <2>3. CASE call[p].op = "umountusb" /\ p \in misled'
    <3>1. answer'[p] = "ok"
      BY <2>3 DEF Umount, UmountUuid, Begun, Says, Inv, TypeOK
    <3> QED BY <1>4, <2>3, <3>1 DEF KnownFalse
  <2> QED BY <1>1, <2>1, <2>2, <2>3
<1> QED BY <1>2, <1>4, <1>5, AnswerTruth
------------------------------------------------------------------------------
(* The steps of tcos-pam-usb.sh. *)

LEMMA ClearTruth == ASSUME Inv, Truth, NEW p \in Slots, Clear(p) PROVE Truth'
<1>1. at[p] = "begun" /\ call[p].op = "mountusb" /\ Dev(p) \in Sticks /\ Dev(p) \in Disks /\ Dev(p) \in Points
  <2>1. at[p] = "begun" /\ call[p].op = "mountusb" /\ call[p].op \in DiskOps
    BY DEF Clear, Begun, DiskOps
  <2> QED BY <2>1, OnTheWayFacts, DiskAssumption DEF Points
<1>2. UNCHANGED <<where, pad, count>> /\ TypeOK
  BY DEF Clear, Inv
<1>3. CASE where[Dev(p)] = "out"
  <2>1. Moved(p, "answer") /\ answer'[p] = "error" /\ UNCHANGED <<mounts, saved, disturbed>>
    BY <1>3 DEF Clear, Says, Moved, Answers, bounds, Inv, TypeOK
  <2>2. Unseen(p) /\ DiskOK'
    BY <1>2, <2>1, UnseenFact, SameDisk DEF Truth
  <2>3. Alone(p) /\ at'[p] = "answer" /\ call'[p] = call[p]
    BY <1>2, <2>1, MovedAlone DEF Labels
  <2>4. ~IsLiveOn(Dev(p))
    <3> SUFFICES ASSUME mounts[Dev(p)] # << >> PROVE ~Live(Last(mounts[Dev(p)]))
      BY DEF IsLiveOn, IsOn, Top
    <3>1. Last(mounts[Dev(p)]) \in ToSet(mounts[Dev(p)])
      BY <1>1, OnePoint, Popped DEF Inv
    <3> QED BY <1>1, <1>3, <3>1, EntryFacts DEF Live
  <2>5. IsTrue(call[p], answer[p])'
    BY <1>1, <1>2, <2>1, <2>3, <2>4 DEF IsTrue, IsLiveOn, IsOn, Live, Top, Dev
  <2> QED BY <2>2, <2>3, <2>5, AnswerTruth
<1>4. CASE where[Dev(p)] # "out"
  <2>1. Moved(p, "mount uuid") /\ Tried(p, Dev(p))
    BY <1>4 DEF Clear, Tried, Goto, Moved, bounds
  <2>2. Alone(p) /\ at'[p] = "mount uuid" /\ call'[p] = call[p]
    BY <1>2, <2>1, MovedAlone DEF Labels
  <2>3. /\ DiskOK' /\ Unseen(p)
        /\ p \in misled' \/ mounts'[Dev(p)] = << >> \/ where'[Last(mounts'[Dev(p)]).disk] # Last(mounts'[Dev(p)]).name
    <3> DEFINE q == Dev(p)
    <3>1. Tried(p, q) /\ q \in Points
      BY <1>1, <2>1
    <3> HIDE DEF q
    <3>2. /\ DiskOK' /\ Unseen(p)
          /\ p \in misled' \/ mounts'[q] = << >> \/ where'[Last(mounts'[q]).disk] # Last(mounts'[q]).name
      BY <1>2, <3>1, TriedTruth DEF Truth, IsLiveOn, IsOn, Live, Top
    <3> QED BY <3>2 DEF q
  <2>4. PhaseOf(p)'
    BY <1>1, <1>2, <2>2 DEF PhaseOf, Truth
  <2>5. TruthOf(p)'
    BY <2>2, <2>3 DEF TruthOf, IsLiveOn, IsOn, Live, Top, Dev
  <2> QED BY <2>2, <2>3, <2>4, <2>5, TruthFrame
<1> QED BY <1>3, <1>4

LEMMA MountUuidTruth == ASSUME Inv, Truth, NEW p \in Slots, MountUuid(p) PROVE Truth'
<1>1. at[p] = "mount uuid" /\ call[p].op = "mountusb" /\ Dev(p) \in Disks /\ Dev(p) \in Points /\ Dev(p) \notin Names
  <2>1. at[p] = "mount uuid"
    BY DEF MountUuid
  <2> QED BY <2>1, OnTheWayFacts, DiskAssumption DEF Points, Truth, PhaseOf
<1>2. /\ DiskOK' /\ Unseen(p) /\ (~disturbed'[p] => ~disturbed[p])
      /\ mounts' # mounts => /\ mounts'[Dev(p)] # << >>
                             /\ where'[Last(mounts'[Dev(p)]).disk] = Last(mounts'[Dev(p)]).name
  <2> DEFINE q == Dev(p)
  <2>1. TryMount(p, where[q], q) /\ UNCHANGED <<where, pad, saved>> /\ q \in Points /\ q \notin Names
    BY <1>1 DEF MountUuid
  <2> HIDE DEF q
  <2>2. /\ DiskOK' /\ Unseen(p) /\ (~disturbed'[p] => ~disturbed[p])
        /\ mounts' # mounts => mounts'[q] # << >> /\ where'[Last(mounts'[q]).disk] = Last(mounts'[q]).name
    BY <2>1, TryMountStep DEF Truth, IsLiveOn, IsOn, Live, Top
  <2> QED BY <2>2 DEF q
<1>3. Moved(p, "answer") /\ count' = count /\ answer'[p] = IF mounts' # mounts THEN "ok" ELSE "error"
  BY DEF MountUuid, Says, Moved, Answers, bounds, Inv, TypeOK
<1>4. Alone(p) /\ at'[p] = "answer" /\ call'[p] = call[p]
  BY <1>3, MovedAlone DEF Labels
<1>5. ASSUME ~disturbed'[p] PROVE IsTrue(call[p], answer[p])' \/ KnownFalse(p)'
  <2>1. (~IsLiveOn(Dev(p)) \/ p \in misled) /\ where' = where /\ misled' = misled
    BY <1>1, <1>2, <1>5 DEF Truth, TruthOf, MountUuid
  <2>2. CASE mounts' # mounts
    BY <1>1, <1>2, <1>3, <1>4, <2>2 DEF IsTrue, IsLiveOn, IsOn, Live, Top, Dev
  <2>3. CASE mounts' = mounts /\ p \notin misled
    BY <1>1, <1>3, <1>4, <2>1, <2>3 DEF IsTrue, IsLiveOn, IsOn, Live, Top, Dev
  <2>4. CASE mounts' = mounts /\ p \in misled
    BY <1>1, <1>3, <1>4, <2>1, <2>4 DEF KnownFalse
  <2> QED BY <2>2, <2>3, <2>4
<1> QED BY <1>2, <1>4, <1>5, AnswerTruth
------------------------------------------------------------------------------
(* The steps of pam-usb.c. *)

LEMMA PadAlone ==
    ASSUME Inv, NEW p \in Slots, NEW to \in Labels, NEW h, PadMove(p, to, h),
           seen' = seen \/ \E v : seen' = [seen EXCEPT ![p] = v]
    PROVE  /\ Alone(p) /\ at'[p] = to /\ held'[p] = h /\ call'[p] = call[p] /\ Dev(p)' = Dev(p)
           /\ UNCHANGED <<count, where, mounts>>
<1>1. CallTypes
  BY TypeParts DEF Inv, Types
<1> QED BY <1>1 DEF CallTypes, PadMove, Alone, Dev

LEMMA PadCall ==
    ASSUME Inv, NEW p \in Slots, at[p] \in {"begun", "read", "write"}, at[p] = "begun" => call[p].op \in PadOps
    PROVE  Dev(p) \in Sticks /\ Dev(p) \in Disks /\ Dev(p) \in Points /\ Dev(p) \notin Names
<1>1. Dev(p) \in Sticks
  BY OnTheWayFacts DEF Inv, CallOK, DiskOps
<1> QED BY <1>1, DiskAssumption DEF Points

LEMMA OpenPadTruth == ASSUME Inv, Truth, NEW p \in Slots, OpenPad(p) PROVE Truth'
<1>1. at[p] = "begun" /\ call[p].op = "getpad" /\ Dev(p) \in Disks /\ count[p] = 0
  BY PadCall DEF OpenPad, Begun, PadOps, Truth, PhaseOf
<1>2. UNCHANGED <<where, mounts, pad, saved, count>> /\ TypeOK
  BY DEF OpenPad, diskVars, Inv
<1>3. DiskOK' /\ Unseen(p)
  <2>1. PICK b \in BOOLEAN : b = (Writers(Dev(p)) # {})
    OBVIOUS
  <2>2. disturbed' = [disturbed EXCEPT ![p] = disturbed[p] \/ b]
    BY <2>1, Zenon DEF OpenPad
  <2>3. Unseen(p)
    BY <1>2, <2>2, UnseenFact
  <2> QED BY <1>2, <2>3, SameDisk DEF Truth
<1>4. CASE IsLiveOn(Dev(p)) /\ pad[Dev(p)] # "none"
  <2>1. PadMove(p, "read", Top(Dev(p))) /\ seen' = [seen EXCEPT ![p] = Reading(p)] /\ seen'[p] = Reading(p)
    BY <1>4 DEF OpenPad, Goto, PadMove, diskVars, bounds, Inv, TypeOK
  <2>2. Alone(p) /\ at'[p] = "read" /\ held'[p] = Top(Dev(p)) /\ call'[p] = call[p] /\ Dev(p)' = Dev(p)
    BY <2>1, PadAlone DEF Labels
  <2>3. PhaseOf(p)'
    BY <1>1, <1>2, <2>2 DEF PhaseOf
  <2>4. /\ IsLiveOn(Dev(p))' /\ Top(Dev(p))' = Top(Dev(p)) /\ Reading(p)' = Reading(p)
        /\ pad'[Dev(p)'] # "none"
    BY <1>2, <1>4, <2>2 DEF IsLiveOn, IsOn, Live, Top, Reading
  <2>5. TruthOf(p)'
    BY <2>1, <2>2, <2>4 DEF TruthOf
  <2> QED BY <1>3, <2>2, <2>3, <2>5, TruthFrame
<1>5. CASE ~(IsLiveOn(Dev(p)) /\ pad[Dev(p)] # "none")
  <2>1. Moved(p, "answer") /\ answer'[p] = ""
    BY <1>5 DEF OpenPad, Says, Moved, Answers, bounds, Inv, TypeOK
  <2>2. Alone(p) /\ at'[p] = "answer" /\ call'[p] = call[p]
    BY <1>2, <2>1, MovedAlone DEF Labels
  <2>3. IsTrue(call[p], answer[p])'
    BY <1>1, <1>2, <1>5, <2>1, <2>2 DEF IsTrue, IsLiveOn, IsOn, Live, Top, Dev
  <2> QED BY <1>3, <2>2, <2>3, AnswerTruth
<1> QED BY <1>4, <1>5

LEMMA ReadPadTruth == ASSUME Inv, Truth, NEW p \in Slots, ReadPad(p) PROVE Truth'
<1>1. at[p] = "read" /\ call[p].op = "getpad"
  BY DEF ReadPad, Truth, PhaseOf
<1>2. UNCHANGED <<where, mounts, pad, saved, disturbed>> /\ TypeOK
  BY DEF ReadPad, diskVars, history, Inv
<1>3. DiskOK' /\ Unseen(p) /\ (~disturbed'[p] => ~disturbed[p])
  BY <1>2, UnseenFact, SameDisk DEF Truth
<1>4. /\ PadMove(p, "answer", NoEntry) /\ seen' = seen
      /\ answer'[p] = IF Live(held[p]) /\ Reading(p) = seen[p] THEN seen[p] ELSE "not a pad"
  <2>1. seen[p] \in Answers /\ "not a pad" \in Answers
    BY <1>2 DEF TypeOK, Answers
  <2> QED BY <2>1 DEF ReadPad, Says, PadMove, diskVars, bounds, history, Inv, TypeOK
<1>5. Alone(p) /\ at'[p] = "answer" /\ call'[p] = call[p]
  BY <1>4, PadAlone DEF Labels
<1>6. ASSUME ~disturbed'[p] PROVE IsTrue(call[p], answer[p])'
  <2>1. IsLiveOn(Dev(p)) /\ held[p] = Top(Dev(p)) /\ seen[p] = Reading(p) /\ pad[Dev(p)] # "none"
    BY <1>1, <1>3, <1>6 DEF Truth, TruthOf
  <2>2. answer'[p] = Reading(p)
    BY <1>4, <2>1 DEF IsLiveOn
  <2> QED BY <1>1, <1>2, <1>5, <2>1, <2>2 DEF IsTrue, IsLiveOn, IsOn, Live, Top, Dev, Reading
<1> QED BY <1>3, <1>5, <1>6, AnswerTruth

LEMMA TruncateTruth == ASSUME Inv, Truth, NEW p \in Slots, Truncate(p) PROVE Truth'
<1>1. /\ at[p] = "begun" /\ call[p].op \in {"newpad", "newpad bad", "savepad"}
      /\ Dev(p) \in Disks /\ Dev(p) \in Points /\ count[p] = 0
  BY PadCall DEF Truncate, Begun, PadOps, Truth, PhaseOf
<1>2. UNCHANGED <<where, mounts, count, seen>> /\ TypeOK
  BY DEF Truncate, Inv
<1>3. CASE IsLiveOn(Dev(p))
  <2> DEFINE d == Dev(p)
  <2>1. Top(d) \in ToSet(mounts[d]) /\ Live(Top(d))
    BY <1>1, <1>3, OnePoint, Popped DEF IsLiveOn, IsOn, Top, Inv
  <2>2. /\ pad' = [pad EXCEPT ![d] = "empty"] /\ saved' = [saved EXCEPT ![d] = @ \union {"empty"}]
        /\ PadMove(p, "write", Top(d))
    BY <1>3 DEF Truncate, Writes, Goto, PadMove, bounds
  <2>3. DiskOK'
    BY <1>1, <1>2, <2>1, <2>2, WrittenDisk DEF Truth
  <2>4. Unseen(p) /\ (~disturbed'[p] => ~disturbed[p])
    <3>1. PICK b \in BOOLEAN : b = (Writers(d) # {})
      OBVIOUS
    <3>2. Others(p)[p] = disturbed[p]
      BY <1>2, Zenon DEF Others, TypeOK
    <3>3. disturbed' = [Others(p) EXCEPT ![p] = Others(p)[p] \/ b]
      BY <1>3, <3>1, Zenon DEF Truncate
    <3>4. disturbed' = [Others(p) EXCEPT ![p] = disturbed[p] \/ b]
      BY <3>2, <3>3, Zenon
    <3> QED BY <1>2, <3>4, UnseenFact
  <2>5. Alone(p) /\ at'[p] = "write" /\ held'[p] = Top(d) /\ call'[p] = call[p] /\ Dev(p)' = d
    BY <1>2, <2>2, PadAlone DEF Labels
  <2>6. PhaseOf(p)'
    BY <1>1, <1>2, <2>5 DEF PhaseOf
  <2>7. IsLiveOn(Dev(p))' /\ Top(Dev(p))' = Top(d)
    BY <1>2, <1>3, <2>5 DEF IsLiveOn, IsOn, Live, Top
  <2>8. TruthOf(p)'
    BY <2>5, <2>7 DEF TruthOf
  <2> QED BY <2>3, <2>4, <2>5, <2>6, <2>8, TruthFrame
<1>4. CASE ~IsLiveOn(Dev(p))
  <2>1. Moved(p, "answer") /\ answer'[p] = "error" /\ UNCHANGED <<pad, saved, disturbed>>
    BY <1>4 DEF Truncate, Says, Moved, Answers, bounds, Inv, TypeOK
  <2>2. Unseen(p) /\ DiskOK'
    BY <1>2, <2>1, UnseenFact, SameDisk DEF Truth
  <2>3. Alone(p) /\ at'[p] = "answer" /\ call'[p] = call[p]
    BY <1>2, <2>1, MovedAlone DEF Labels
  <2>4. IsTrue(call[p], answer[p])'
    BY <1>1, <1>2, <1>4, <2>1, <2>3 DEF IsTrue, IsLiveOn, IsOn, Live, Top, Dev
  <2> QED BY <2>2, <2>3, <2>4, AnswerTruth
<1> QED BY <1>3, <1>4

LEMMA WriteTruth == ASSUME Inv, Truth, NEW p \in Slots, Write(p) PROVE Truth'
<1>1. at[p] = "write" /\ call[p].op \in {"newpad", "newpad bad", "savepad"} /\ Dev(p) \in Disks /\ Dev(p) \in Points
  <2>1. at[p] = "write"
    BY DEF Write
  <2> QED BY <2>1, PadCall DEF Inv, CallOK, PadOps
<1>2. UNCHANGED <<where, mounts, count, seen>> /\ TypeOK
  BY DEF Write, Inv
<1>3. PadMove(p, "answer", NoEntry) /\ answer'[p] = "ok"
  BY DEF Write, Says, PadMove, Answers, bounds, Inv, TypeOK
<1>4. Alone(p) /\ at'[p] = "answer" /\ call'[p] = call[p]
  BY <1>2, <1>3, PadAlone DEF Labels
<1>5. Unseen(p) /\ (~disturbed'[p] => ~disturbed[p])
  BY <1>2, UnseenFact DEF Write
<1>6. held[p] \in ToSet(mounts[Dev(p)])
  BY <1>1, <1>2 DEF TypeOK
<1>7. Live(held[p]) => /\ pad' = [pad EXCEPT ![Dev(p)] = Written(call[p].op)]
                       /\ saved' = [saved EXCEPT ![Dev(p)] = @ \union {Written(call[p].op)}]
  BY DEF Write, Writes
<1>8. DiskOK'
  <2>1. CASE Live(held[p])
    BY <1>1, <1>2, <1>6, <1>7, <2>1, WrittenDisk DEF Truth
  <2>2. CASE ~Live(held[p])
    BY <1>2, <2>2, SameDisk DEF Truth, Write
  <2> QED BY <2>1, <2>2
<1>9. ASSUME ~disturbed'[p] PROVE IsTrue(call[p], answer[p])'
  <2>1. IsLiveOn(Dev(p)) /\ held[p] = Top(Dev(p))
    BY <1>1, <1>5, <1>9 DEF Truth, TruthOf
  <2>2. pad'[Dev(p)] = Written(call[p].op)
    BY <1>1, <1>2, <1>7, <2>1 DEF IsLiveOn, TypeOK
  <2> QED BY <1>1, <1>3, <1>4, <2>2 DEF IsTrue, Written, Dev
<1> QED BY <1>4, <1>5, <1>8, <1>9, AnswerTruth

LEMMA CrashTruth == ASSUME Inv, Truth, NEW p \in Slots, Crash(p) PROVE Truth'
<1> DEFINE dying == {q \in Slots : at[q] \in {"read", "write", "answer"} \/ Begun(q, PadOps)}
<1>1. UNCHANGED <<where, mounts, pad, saved>> /\ at[p] = "write"
  BY DEF Crash, diskVars
<1>2. /\ at' = [q \in Slots |-> IF q \in dying THEN "idle" ELSE at[q]]
      /\ call' = [q \in Slots |-> IF q \in dying THEN NoCall ELSE call[q]]
      /\ count' = [q \in Slots |-> IF q \in dying THEN 0 ELSE count[q]]
      /\ held' = [q \in Slots |-> IF q \in dying THEN NoEntry ELSE held[q]]
      /\ seen' = [q \in Slots |-> IF q \in dying THEN "none" ELSE seen[q]]
      /\ answer' = [q \in Slots |-> IF q \in dying THEN "none" ELSE answer[q]]
  BY DEF Crash
<1>3. disturbed' = [q \in Slots |-> IF q \in dying THEN FALSE ELSE Others(p)[q]]
  BY DEF Crash
<1>3a. misled' = misled \ dying
  BY DEF Crash
<1>4. p \in dying
  BY <1>1
<1> HIDE DEF dying
<1>5. ASSUME NEW q \in Slots, q \in dying PROVE PhaseOf(q)' /\ TruthOf(q)'
  BY <1>2, <1>5 DEF PhaseOf, TruthOf
<1>6. ASSUME NEW q \in Slots, q \notin dying PROVE PhaseOf(q)' /\ TruthOf(q)'
  <2>1. /\ at'[q] = at[q] /\ call'[q] = call[q] /\ count'[q] = count[q]
        /\ held'[q] = held[q] /\ seen'[q] = seen[q] /\ answer'[q] = answer[q]
    BY <1>2, <1>6
  <2>2. disturbed'[q] = (disturbed[q] \/ (q # p /\ at[q] # "idle"))
    BY <1>3, <1>6, Zenon DEF Others
  <2>3. ~disturbed'[q] => ~disturbed[q]
    BY <2>2, Zenon
  <2>4. TruthOf(q)'
    BY <1>1, <1>3a, <1>6, <2>1, <2>3, SameTruth DEF Truth
  <2> QED BY <2>1, <2>4 DEF Truth, PhaseOf
<1> QED BY <1>1, <1>5, <1>6, SameDisk DEF Truth

LEMMA AnsweredTruth == ASSUME Inv, Truth, NEW p \in Slots, Answer(p) PROVE Truth'
<1>1. CallTypes /\ TypeOK
  BY TypeParts DEF Inv, Types
<1>2. Alone(p) /\ at'[p] = "idle" /\ count'[p] = 0
  BY <1>1 DEF Alone, Answer, CallTypes
<1>3. UNCHANGED <<where, mounts, pad, saved>>
  BY DEF Answer, diskVars
<1>4. \A q \in Slots : q # p => disturbed'[q] = disturbed[q]
  BY <1>1, Zenon DEF Answer, TypeOK
<1>5. Unseen(p)
  BY <1>3, <1>4, Zenon DEF Unseen
<1>6. PhaseOf(p)' /\ TruthOf(p)'
  BY <1>2 DEF PhaseOf, TruthOf
<1> QED BY <1>2, <1>3, <1>5, <1>6, SameDisk, TruthFrame DEF Truth
------------------------------------------------------------------------------
(* The steps of nobody's call. *)

LEMMA EnvTruth ==
    ASSUME Truth, UNCHANGED callVars, DiskOK', misled' = misled,
           \/ UNCHANGED <<where, mounts, pad, disturbed>>
           \/ \A q \in Slots : at[q] # "idle" => disturbed'[q]
    PROVE  Truth'
<1>1. UNCHANGED <<at, call, count, held, seen, answer>>
  BY DEF callVars
<1>2. ASSUME NEW q \in Slots PROVE PhaseOf(q)' /\ TruthOf(q)'
  <2>1. at[q] # "idle" /\ ~disturbed'[q] => ~disturbed[q] /\ UNCHANGED <<where, mounts, pad>>
    BY Zenon
  <2>2. TruthOf(q)'
    BY <1>1, <2>1, SameTruth DEF Truth
  <2> QED BY <1>1, <2>2 DEF Truth, PhaseOf
<1> QED BY <1>2 DEF Truth

LEMMA BackgroundTruth == ASSUME Inv, Truth, NEW n \in Names, Background(n) PROVE Truth'
<1>1. UNCHANGED <<where, pad, saved, callVars>> /\ n \in Points /\ n \notin Disks
  BY DiskAssumption DEF Background, Points
<1>2. ASSUME NEW d \in Ntfs, where[d] = n, CanMount(d, n), Mounted(d, n) PROVE DiskOK'
  BY <1>1, <1>2, DiskAssumption, MountedDisk DEF Truth
<1>3. CASE UNCHANGED <<mounts, disturbed, misled>>
  BY <1>1, <1>3, SameDisk, EnvTruth DEF Truth
<1>4. CASE ~UNCHANGED <<mounts, disturbed, misled>>
  <2>1. /\ DiskOK' /\ disturbed' = [q \in Slots |-> disturbed[q] \/ (at[q] # "idle" /\ q \notin Waiting(n))]
        /\ misled' = misled \union {q \in Waiting(n) : count[q] = MaxWait}
    BY <1>2, <1>4 DEF Background
  <2>2. \A q \in Slots : at[q] # "idle" /\ ~(at[q] = "wait" /\ Dev(q) = n) => disturbed'[q]
    BY <2>1, OthersMarked DEF Inv
  <2>3. UNCHANGED <<at, call, count, held, seen, answer>>
    BY <1>1 DEF callVars
  <2>4. ASSUME NEW q \in Slots PROVE PhaseOf(q)' /\ TruthOf(q)'
    <3>1. CASE at[q] = "wait" /\ Dev(q) = n
      <4>1. count[q] = MaxWait => q \in misled'
        BY <2>1, <3>1 DEF Waiting
      <4> QED BY <2>3, <3>1, <4>1 DEF TruthOf, Truth, PhaseOf
    <3>2. CASE at[q] = "idle" \/ disturbed'[q]
      BY <2>3, <3>2 DEF TruthOf, Truth, PhaseOf
    <3> QED BY <2>2, <3>1, <3>2
  <2> QED BY <2>1, <2>4 DEF Truth
<1> QED BY <1>3, <1>4

LEMMA PullTruth == ASSUME Inv, Truth, NEW d \in Sticks, Pull(d) PROVE Truth'
<1>1. DiskOK'
  <2>1. where[d] \in Names /\ saved \in [Disks -> SUBSET Pads] /\ mounts' = mounts /\ Gone(d, saved)
    BY DiskAssumption DEF Pull, Inv, TypeOK
  <2> QED BY <2>1, GoneDisk DEF Truth
<1>2. UNCHANGED callVars /\ disturbed' = [q \in Slots |-> disturbed[q] \/ at[q] # "idle"]
  BY DEF Pull
<1>3. misled' = misled
  BY DEF Pull
<1> QED BY <1>3, <1>1, <1>2, AllMarked, EnvTruth DEF Inv

LEMMA PlugTruth == ASSUME Inv, Truth, NEW d \in Sticks, NEW n \in Names, Plug(d, n) PROVE Truth'
<1>1. UNCHANGED callVars /\ disturbed' = [q \in Slots |-> disturbed[q] \/ at[q] # "idle"]
  BY DEF Plug
<1>2. misled' = misled
  BY DEF Plug
<1> QED BY <1>1, <1>2, PluggedDisk, AllMarked, EnvTruth DEF Inv, Truth

LEMMA StepTruth == Inv /\ Truth /\ [Next]_vars => Truth'
<1> SUFFICES ASSUME Inv, Truth, [Next]_vars PROVE Truth'
  OBVIOUS
<1>1. CASE UNCHANGED vars
  BY <1>1, SameDisk, EnvTruth DEF vars, diskVars, history, Truth
<1>2. ASSUME NEW p \in Slots, Devicesctl(p) PROVE Truth'
  BY <1>2, LookTruth, MountTruth, MountNtfsTruth, WaitTruth, UmountTruth, TellTruth, EjectTruth DEF Devicesctl
<1>3. ASSUME NEW p \in Slots, PamUsb(p) PROVE Truth'
  BY <1>3, ClearTruth, MountUuidTruth, UmountTruth, TellTruth, OpenPadTruth, ReadPadTruth, TruncateTruth,
     WriteTruth, CrashTruth DEF PamUsb
<1>4. ASSUME NEW p \in Slots, (\E c \in Calls : Begin(p, c)) \/ Answer(p) PROVE Truth'
  BY <1>4, BeginTruth, AnsweredTruth
<1>5. ASSUME NEW n \in Names, Background(n) PROVE Truth'
  BY <1>5, BackgroundTruth
<1>6. ASSUME NEW d \in Sticks, Pull(d) \/ \E n \in Names : Plug(d, n) PROVE Truth'
  BY <1>6, PullTruth, PlugTruth
<1> QED BY <1>1, <1>2, <1>3, <1>4, <1>5, <1>6 DEF Next

LEMMA InitTruth == Init => Truth
<1> SUFFICES ASSUME Init PROVE Truth
  OBVIOUS
<1>1. DiskOK
  BY DEF Init, DiskOK, StackOK, SavedOK, Points
<1>2. \A p \in Slots : PhaseOf(p) /\ TruthOf(p)
  BY DEF Init, PhaseOf, TruthOf
<1> QED BY <1>1, <1>2 DEF Truth

LEMMA TruthAlways == Spec => []Truth
<1>1. Init => Truth
  BY InitTruth
<1>2. Inv /\ Truth /\ [Next]_vars => Truth'
  BY StepTruth
<1> QED BY <1>1, <1>2, InvAlways, PTL DEF Spec

(* A call that nobody disturbed tells the truth, for any number of calls at a time, any   *)
(* devices and any order of steps (devicesctl.sh:159, tcos-pam-usb.sh:50, pam-usb.c:105), *)
(* but for four answers: --mount of a device whose name another mounted one begins with   *)
(* (devicesctl.sh:124), or that is mounted in the last second (:159), and the two that    *)
(* follow an umount that failed (tcos-pam-usb.sh:49, :62).                                *)
THEOREM AnswersAreTrueAlways == Spec => AnswersAreTrue
<1>1. Truth /\ [Next]_vars =>
      [\A p \in Slots : at[p] = "answer" /\ at'[p] = "idle" /\ call'[p] = NoCall
                            /\ ~disturbed[p] => IsTrue(call[p], answer[p]) \/ KnownFalse(p)]_vars
  BY DEF Truth, TruthOf
<1> QED BY <1>1, TruthAlways, PTL DEF Spec, AnswersAreTrue

(* What an undisturbed umountusb leaves may be unplugged (tcos-pam-usb.sh:67), unless the *)
(* disk is mounted elsewhere, or a pad was open on it: what was written is on the medium. *)
THEOREM SafeToUnplugAlways == Spec => SafeToUnplug
<1> DEFINE Safe(p) == LET d == Dev(p) IN
        at[p] = "answer" /\ call[p].op = "umountusb" /\ ~disturbed[p] /\ p \notin misled =>
            saved[d] = {pad[d]} \/ \E q \in Points \ {d} : \E e \in ToSet(mounts[q]) : e.disk = d /\ Live(e)
<1>1. ASSUME Inv, Truth, NEW p \in Slots PROVE Safe(p)
  <2> SUFFICES ASSUME at[p] = "answer", call[p].op = "umountusb", ~disturbed[p], p \notin misled,
                      saved[Dev(p)] # {pad[Dev(p)]}
               PROVE  \E q \in Points \ {Dev(p)} : \E e \in ToSet(mounts[q]) : e.disk = Dev(p) /\ Live(e)
    OBVIOUS
  <2>1. Dev(p) \in Disks /\ Dev(p) \in Points
    <3>1. call[p] \in Calls /\ call[p].op \in DiskOps
      BY <1>1 DEF Inv, CallOK, DiskOps
    <3> QED BY <3>1, CallType, DiskAssumption DEF Dev, Points
  <2>2. ~IsLiveOn(Dev(p))
    BY <1>1 DEF Truth, TruthOf, IsTrue, KnownFalse, Dev
  <2>3. PICK q \in Points : \E e \in ToSet(mounts[q]) : e.disk = Dev(p) /\ Live(e)
    BY <1>1, <2>1 DEF Truth, DiskOK, SavedOK, LiveIn
  <2>4. q # Dev(p)
    <3> SUFFICES ASSUME q = Dev(p) PROVE FALSE
      OBVIOUS
    <3>1. PICK e \in ToSet(mounts[q]) : Live(e)
      BY <2>3
    <3>2. mounts[q] \in Seq(Entry) /\ mounts[q] # << >>
      BY <1>1, <3>1, OnePoint, EmptyStack DEF Inv
    <3>3. e = Last(mounts[q]) \/ e \in ToSet(Front(mounts[q]))
      BY <3>1, <3>2, Popped
    <3> QED BY <1>1, <2>2, <3>1, <3>2, <3>3 DEF Truth, DiskOK, StackOK, IsLiveOn, IsOn, Top
  <2> QED BY <2>3, <2>4
<1>2. Inv /\ Truth /\ [Next]_vars => [\A p \in Slots : Safe(p)]_vars
  BY <1>1
<1> QED BY <1>2, InvAlways, TruthAlways, PTL DEF Spec, SafeToUnplug
=============================================================================
