-------------------------- MODULE MountListenerProofs --------------------------
(***************************************************************************)
(* Proofs about MountListener, for any lines, any table and any number of  *)
(* changes, deaths of the listener and writes that fail.                   *)
(***************************************************************************)
EXTENDS MountListener, FiniteSetTheorems, SequenceTheorems, TLAPS

\* Counting what is in the log, and what is on its way.
Occurs(e, events) == {i \in DOMAIN events : events[i] = e}
Underway(e)       == {h \in helpers : h.event = e}

LEMMA TimesType == ASSUME NEW S, NEW e, NEW events \in Seq(S)
                   PROVE  /\ IsFiniteSet(Occurs(e, events)) /\ Times(e, events) \in Nat
                          /\ Times(e, events) = Cardinality(Occurs(e, events))
<1>1. Occurs(e, events) \in SUBSET (1..Len(events)) /\ Len(events) \in Nat
  BY DEF Occurs
<1>2. IsFiniteSet(1..Len(events))
  BY <1>1, FS_Interval
<1>3. IsFiniteSet(Occurs(e, events))
  BY <1>1, <1>2, FS_Subset
<1> QED BY <1>3, FS_CardinalityType DEF Times, Occurs

LEMMA TimesAppend ==
    ASSUME NEW S, NEW e \in S, NEW x \in S, NEW events \in Seq(S)
    PROVE  Times(e, Append(events, x)) = Times(e, events) + (IF x = e THEN 1 ELSE 0)
<1> DEFINE n == Len(events) + 1
<1>1. Append(events, x) \in Seq(S) /\ Len(events) \in Nat
  OBVIOUS
<1>2. /\ DOMAIN Append(events, x) = DOMAIN events \cup {n} /\ n \notin DOMAIN events
      /\ Append(events, x)[n] = x
      /\ \A i \in DOMAIN events : Append(events, x)[i] = events[i]
  OBVIOUS
<1> HIDE DEF n
<1>0. /\ IsFiniteSet(Occurs(e, events)) /\ Times(e, events) \in Nat
      /\ Times(e, events) = Cardinality(Occurs(e, events))
      /\ Times(e, Append(events, x)) = Cardinality(Occurs(e, Append(events, x)))
  BY <1>1, TimesType
<1>3. CASE x = e
  <2>1. Occurs(e, Append(events, x)) = Occurs(e, events) \cup {n} /\ n \notin Occurs(e, events)
    BY <1>2, <1>3 DEF Occurs
  <2>2. Cardinality(Occurs(e, events) \cup {n}) = Cardinality(Occurs(e, events)) + 1
    BY <1>0, <2>1, FS_AddElement
  <2> QED BY <1>0, <1>3, <2>1, <2>2
<1>4. CASE x # e
  <2>1. Occurs(e, Append(events, x)) = Occurs(e, events)
    BY <1>2, <1>4 DEF Occurs
  <2> QED BY <1>0, <1>4, <2>1
<1> QED BY <1>3, <1>4
------------------------------------------------------------------------------
(* Sequences without repetition. *)

LEMMA InjectiveAppend ==
    ASSUME NEW S, NEW s \in Seq(S), IsInjective(s), NEW x \in S, x \notin Range(s)
    PROVE  IsInjective(Append(s, x)) /\ Range(Append(s, x)) = Range(s) \cup {x}
<1> DEFINE n == Len(s) + 1
<1>1. /\ DOMAIN Append(s, x) = DOMAIN s \cup {n} /\ n \notin DOMAIN s
      /\ Append(s, x)[n] = x /\ \A i \in DOMAIN s : Append(s, x)[i] = s[i]
  OBVIOUS
<1> QED BY <1>1 DEF IsInjective, Range

LEMMA InjectiveTail ==
    ASSUME NEW S, NEW s \in Seq(S), IsInjective(s), s # << >>
    PROVE  /\ Tail(s) \in Seq(S) /\ IsInjective(Tail(s)) /\ Head(s) \in S
           /\ Head(s) \in Range(s) /\ Range(Tail(s)) = Range(s) \ {Head(s)}
<1>1. /\ Tail(s) \in Seq(S) /\ Head(s) \in S /\ Head(s) = s[1] /\ Len(s) \in Nat \ {0}
      /\ Len(Tail(s)) = Len(s) - 1 /\ \A i \in 1..(Len(s) - 1) : Tail(s)[i] = s[i + 1]
  OBVIOUS
<1>2. DOMAIN s = 1..Len(s) /\ DOMAIN Tail(s) = 1..(Len(s) - 1)
  BY <1>1
<1>3. \A i \in DOMAIN Tail(s) : i + 1 \in DOMAIN s /\ i + 1 # 1 /\ Tail(s)[i] = s[i + 1]
  BY <1>1, <1>2
<1>4. \A j \in DOMAIN s : j = 1 \/ (j - 1 \in DOMAIN Tail(s) /\ Tail(s)[j - 1] = s[j])
  BY <1>1, <1>2
<1>5. IsInjective(Tail(s))
  <2> SUFFICES ASSUME NEW i \in DOMAIN Tail(s), NEW j \in DOMAIN Tail(s), Tail(s)[i] = Tail(s)[j]
               PROVE  i = j
    BY DEF IsInjective
  <2>1. i + 1 = j + 1
    BY <1>3 DEF IsInjective
  <2> QED BY <2>1, <1>2
<1>6. 1 \in DOMAIN s
  BY <1>1, <1>2
<1>7. Range(Tail(s)) \subseteq Range(s) \ {Head(s)}
  <2> SUFFICES ASSUME NEW i \in DOMAIN Tail(s) PROVE Tail(s)[i] \in Range(s) \ {Head(s)}
    BY DEF Range
  <2> QED BY <1>1, <1>3, <1>6 DEF IsInjective, Range
<1>8. Range(s) \ {Head(s)} \subseteq Range(Tail(s))
  <2> SUFFICES ASSUME NEW j \in DOMAIN s, s[j] # Head(s) PROVE s[j] \in Range(Tail(s))
    BY DEF Range
  <2> QED BY <1>1, <1>4 DEF Range
<1>9. Head(s) \in Range(s)
  BY <1>1, <1>6 DEF Range
<1> QED BY <1>1, <1>5, <1>7, <1>8, <1>9

LEMMA InjectiveRemoveAt ==
    ASSUME NEW S, NEW s \in Seq(S), IsInjective(s), NEW n \in DOMAIN s
    PROVE  /\ RemoveAt(s, n) \in Seq(S) /\ IsInjective(RemoveAt(s, n)) /\ Len(RemoveAt(s, n)) = Len(s) - 1
           /\ Range(RemoveAt(s, n)) = Range(s) \ {s[n]}
<1> DEFINE a == SubSeq(s, 1, n - 1)
           b == SubSeq(s, n + 1, Len(s))
           r == RemoveAt(s, n)
<1>0. Len(s) \in Nat /\ n \in 1..Len(s) /\ DOMAIN s = 1..Len(s)
  OBVIOUS
<1>1. a \in Seq(S) /\ Len(a) = n - 1 /\ \A i \in 1..(n - 1) : a[i] = s[i]
  BY <1>0
<1>2. b \in Seq(S) /\ Len(b) = Len(s) - n /\ \A i \in 1..(Len(s) - n) : b[i] = s[n + i]
  BY <1>0
<1>3. r = a \o b
  BY DEF RemoveAt
<1> HIDE DEF a, b, r
<1>4. /\ r \in Seq(S) /\ Len(r) = Len(s) - 1
      /\ \A i \in 1..(n - 1) : r[i] = s[i]
      /\ \A i \in n..(Len(s) - 1) : r[i] = s[i + 1]
  <2>1. r \in Seq(S) /\ Len(r) = Len(a) + Len(b) /\ DOMAIN r = 1..Len(r)
    BY <1>1, <1>2, <1>3, ConcatProperties, LenProperties
  <2>2. Len(r) = Len(s) - 1
    BY <1>0, <1>1, <1>2, <2>1
  <2>3. \A i \in 1..(Len(a) + Len(b)) : r[i] = IF i <= Len(a) THEN a[i] ELSE b[i - Len(a)]
    BY <1>1, <1>2, <1>3, ConcatProperties
  <2>4. \A i \in 1..(n - 1) : r[i] = s[i]
    BY <1>0, <1>1, <1>2, <2>3
  <2>5. ASSUME NEW i \in n..(Len(s) - 1) PROVE r[i] = s[i + 1]
    <3>1. i \in 1..(Len(a) + Len(b)) /\ ~(i <= Len(a)) /\ i - Len(a) = i - n + 1
      BY <1>0, <1>1, <1>2
    <3>2. i - n + 1 \in 1..(Len(s) - n) /\ n + (i - n + 1) = i + 1
      BY <1>0
    <3> QED BY <1>2, <2>3, <3>1, <3>2
  <2> QED BY <2>1, <2>2, <2>4, <2>5
<1> DEFINE at(i) == IF i < n THEN i ELSE i + 1
<1>5. \A i \in DOMAIN r : at(i) \in DOMAIN s /\ at(i) # n /\ r[i] = s[at(i)] /\ i \in Int
  BY <1>0, <1>4
<1>6. \A i, j \in Int : at(i) = at(j) => i = j
  BY <1>0
<1>7. \A k \in DOMAIN s : k = n \/ \E i \in DOMAIN r : r[i] = s[k]
  <2> SUFFICES ASSUME NEW k \in DOMAIN s, k # n PROVE \E i \in DOMAIN r : r[i] = s[k]
    OBVIOUS
  <2>1. CASE k < n
    <3>1. k \in DOMAIN r /\ r[k] = s[k]
      BY <1>0, <1>4, <2>1
    <3> QED BY <3>1
  <2>2. CASE k > n
    <3>1. k - 1 \in DOMAIN r /\ r[k - 1] = s[k]
      BY <1>0, <1>4, <2>2
    <3> QED BY <3>1
  <2> QED BY <1>0, <2>1, <2>2
<1> HIDE DEF at
<1>8. IsInjective(r)
  BY <1>5, <1>6 DEF IsInjective
<1>9. Range(r) = Range(s) \ {s[n]}
  BY <1>5, <1>7 DEF IsInjective, Range
<1> QED BY <1>4, <1>8, <1>9 DEF r
------------------------------------------------------------------------------
(* The inductive invariant. *)

NoLineTwice == IsInjective(mounts) /\ IsInjective(snapshot) /\ IsInjective(scan)

\* A listener has started a helper only when it waits for it.
HelpersOK == /\ IsFiniteSet(helpers)
             /\ \A h \in helpers : h.by <= crashes /\ (h.by = crashes => pc = "waiting")

\* An event that compare may still report before the next copy.
Due(e) == \/ /\ pc \in {"polling", "opening"}
             /\ IF e.action = Mount THEN e.line \in Range(mounts) \ Range(snapshot)
                                    ELSE e.line \in Range(snapshot) \ Range(mounts)
          \/ /\ pc \in {"scanning", "waiting"} /\ e.action = action
             /\ e.line \in Range(scan) \ Range(Other)

Failed(e) == IF e.action = Mount THEN cuts ELSE 0

\* What is reported, and what may still be, is paid for by a change or a failed copy.
PaidFor(e) == Reported(e) + (IF Due(e) THEN 1 ELSE 0) <= Times(e, changes) + Failed(e)

Inv == TypeOK /\ NoLineTwice /\ HelpersOK /\ \A e \in Event : PaidFor(e)

LEMMA ReportedType == ASSUME TypeOK, HelpersOK, NEW e \in Event
                      PROVE  /\ Reported(e) \in Nat /\ Times(e, log) \in Nat
                             /\ IsFiniteSet(Underway(e)) /\ Cardinality(Underway(e)) \in Nat
                             /\ Reported(e) = Times(e, log) + Cardinality(Underway(e))
<1>1. IsFiniteSet(Underway(e))
  BY FS_Subset DEF HelpersOK, Underway
<1>2. Cardinality(Underway(e)) \in Nat
  BY <1>1, FS_CardinalityType
<1>3. Times(e, log) \in Nat
  BY TimesType DEF TypeOK
<1> QED BY <1>1, <1>2, <1>3 DEF Reported, Underway

LEMMA PaidType == ASSUME Inv, NEW e \in Event
                  PROVE  /\ PaidFor(e) /\ Reported(e) \in Nat /\ Times(e, changes) \in Nat
                         /\ Failed(e) \in Nat /\ cuts \in Nat
<1>1. PaidFor(e) /\ TypeOK /\ HelpersOK
  BY DEF Inv
<1>2. Reported(e) \in Nat
  BY <1>1, ReportedType
<1>3. Times(e, changes) \in Nat
  BY <1>1, TimesType DEF TypeOK
<1>4. cuts \in Nat /\ Failed(e) \in Nat
  BY <1>1, BoundAssumption DEF TypeOK, Failed
<1> QED BY <1>1, <1>2, <1>3, <1>4

LEMMA InitInv == Init => Inv
<1> SUFFICES ASSUME Init PROVE Inv
  OBVIOUS
<1>1. TypeOK
  <2>1. InitialTable \in Seq(Lines) /\ MaxUpsets \in Nat
    BY LinesAssumption, BoundAssumption
  <2>2. << >> \in Seq(Lines) /\ << >> \in Seq(Event)
    OBVIOUS
  <2>3. copied \in BOOLEAN /\ calm \in BOOLEAN
    BY DEF Init
  <2> QED BY <2>1, <2>2, <2>3 DEF Init, TypeOK
<1>2. NoLineTwice
  BY LinesAssumption DEF Init, NoLineTwice, IsInjective
<1>3. HelpersOK
  BY FS_EmptySet DEF Init, HelpersOK
<1>4. ASSUME NEW e \in Event PROVE PaidFor(e)
  <2>1. Underway(e) = {} /\ Occurs(e, << >>) = {}
    BY DEF Init, Underway, Occurs
  <2>2. Times(e, << >>) = 0
    BY <2>1, FS_EmptySet DEF Times, Occurs
  <2>3. Reported(e) = Times(e, log) + Cardinality(Underway(e))
    BY <1>1, <1>3, ReportedType
  <2>4. Reported(e) = 0
    BY <2>1, <2>2, <2>3, FS_EmptySet DEF Init
  <2> QED BY <2>2, <2>4 DEF Init, PaidFor, Due, Failed
<1> QED BY <1>1, <1>2, <1>3, <1>4 DEF Inv
------------------------------------------------------------------------------
(* The steps. *)

LEMMA ChangeInv == ASSUME Inv, NEW line \in Lines, NEW kind \in {Mount, Umount}, Change(line, kind)
                   PROVE  Inv'
<1> DEFINE x == [line |-> line, action |-> kind]
<1>1. TypeOK /\ NoLineTwice /\ HelpersOK /\ x \in Event /\ Mount # Umount
  BY DEF Inv, Event, Mount, Umount
<1>2. /\ mounts' \in Seq(Lines) /\ IsInjective(mounts')
      /\ Range(mounts') = IF kind = Mount THEN Range(mounts) \cup {line} ELSE Range(mounts) \ {line}
  <2>1. CASE kind = Mount
    <3>1. line \notin Range(mounts) /\ mounts' = Append(mounts, line)
      BY <1>1, <2>1 DEF Change
    <3>2. mounts' \in Seq(Lines)
      BY <1>1, <3>1 DEF TypeOK
    <3> QED BY <1>1, <2>1, <3>1, <3>2, InjectiveAppend DEF TypeOK, NoLineTwice
  <2>2. CASE kind = Umount
    <3>1. PICK n \in DOMAIN mounts : mounts[n] = line /\ mounts' = RemoveAt(mounts, n)
      BY <1>1, <2>2 DEF Change
    <3> QED BY <1>1, <2>2, <3>1, InjectiveRemoveAt DEF TypeOK, NoLineTwice
  <2> QED BY <2>1, <2>2
<1>3. /\ UNCHANGED <<snapshot, copied, cuts, pc, action, scan, helpers, log, crashes>>
      /\ changes' = IF pc = "starting" /\ crashes = 0 THEN changes ELSE Append(changes, x)
  BY DEF Change, copy
<1>4. TypeOK'
  <2>1. changes' \in Seq(Event)
    BY <1>1, <1>3 DEF TypeOK
  <2>2. calm' \in BOOLEAN
    BY <1>1 DEF Change, TypeOK
  <2>3. copied' \in BOOLEAN
    BY <1>1, <1>3 DEF TypeOK
  <2> QED BY <2>2, <2>3, <1>1, <1>2, <1>3, <2>1 DEF TypeOK
<1>5. NoLineTwice' /\ HelpersOK'
  BY <1>1, <1>2, <1>3 DEF NoLineTwice, HelpersOK
<1>6. ASSUME NEW e \in Event PROVE PaidFor(e)'
  <2>0. /\ PaidFor(e) /\ Reported(e) \in Nat /\ Times(e, changes) \in Nat /\ Failed(e) \in Nat
        /\ Reported(e)' = Reported(e) /\ Failed(e)' = Failed(e)
    BY <1>3, PaidType DEF Reported, Times, Failed
  <2>3. Times(e, Append(changes, x)) = Times(e, changes) + (IF x = e THEN 1 ELSE 0)
    BY <1>1, TimesAppend DEF TypeOK
  <2>1. CASE pc = "starting"
    <3>1. ~Due(e)' /\ ~Due(e)
      BY <1>3, <2>1 DEF Due
    <3>2. Times(e, changes') \in Nat /\ Times(e, changes') >= Times(e, changes)
      BY <1>3, <2>0, <2>3
    <3> QED BY <2>0, <3>1, <3>2 DEF PaidFor
  <2>2. CASE pc # "starting"
    <3>1. Times(e, changes') = Times(e, changes) + (IF x = e THEN 1 ELSE 0)
      BY <1>3, <2>2, <2>3
    <3>2. Due(e)' => Due(e) \/ (e.line = line /\ e.action = kind)
      BY <1>1, <1>2, <1>3 DEF Due, Other, Event
    <3>3. e.line = line /\ e.action = kind => x = e
      BY DEF Event
    <3> QED BY <2>0, <3>1, <3>2, <3>3 DEF PaidFor
  <2> QED BY <2>1, <2>2
<1> QED BY <1>4, <1>5, <1>6 DEF Inv

\* A copy, of the whole table or of nothing, leaves only what a failed copy pays for.
LEMMA SyncInv ==
    ASSUME Inv, SyncFiles, pc' = "polling", pc # "waiting",
           UNCHANGED <<mounts, action, scan, helpers, log, crashes, changes, calm>>
    PROVE  Inv'
<1>1. TypeOK /\ NoLineTwice /\ HelpersOK /\ Mount # Umount
  BY DEF Inv, Mount, Umount
<1>2. \/ snapshot' = mounts /\ copied' = TRUE /\ cuts' = cuts
      \/ MoreUpsets /\ cuts' = cuts + 1 /\ snapshot' = << >> /\ copied' \in BOOLEAN
  BY <1>1 DEF SyncFiles, TypeOK
<1>3. cuts \in Nat /\ cuts' \in {cuts, cuts + 1} /\ cuts' \in 0..MaxUpsets
  BY <1>1, <1>2, BoundAssumption DEF TypeOK, MoreUpsets
<1>4. TypeOK'
  <2>3. snapshot' = mounts \/ snapshot' = << >>
    BY <1>2
  <2>4. mounts \in Seq(Lines) /\ << >> \in Seq(Lines)
    BY <1>1 DEF TypeOK
  <2>1. snapshot' \in Seq(Lines)
    BY <2>3, <2>4
  <2>2. copied' \in BOOLEAN
    BY <1>1, <1>2 DEF TypeOK
  <2> QED BY <1>1, <1>3, <2>1, <2>2 DEF TypeOK
<1>5. NoLineTwice' /\ HelpersOK'
  BY <1>1, <1>2 DEF NoLineTwice, HelpersOK, IsInjective
<1>6. ASSUME NEW e \in Event PROVE PaidFor(e)'
  <2>0. /\ PaidFor(e) /\ Reported(e) \in Nat /\ Times(e, changes) \in Nat
        /\ Reported(e)' = Reported(e) /\ Times(e, changes)' = Times(e, changes)
    BY PaidType DEF Reported, Times
  <2>1. CASE snapshot' = mounts
    <3>1. ~Due(e)'
      BY <2>1 DEF Due
    <3> QED BY <1>3, <2>0, <3>1 DEF PaidFor, Failed
  <2>2. CASE snapshot' = << >> /\ cuts' = cuts + 1
    <3>1. Due(e)' => e.action = Mount
      BY <2>2 DEF Due, Range
    <3> QED BY <1>3, <2>0, <2>2, <3>1 DEF PaidFor, Failed
  <2> QED BY <1>2, <2>1, <2>2
<1> QED BY <1>4, <1>5, <1>6 DEF Inv

\* The file that is scanned has every line that may still be reported.
LEMMA OpenInv == ASSUME Inv, Open PROVE Inv'
<1>1. TypeOK /\ NoLineTwice /\ HelpersOK /\ Mount # Umount
  BY DEF Inv, Mount, Umount
<1>2. /\ pc = "opening" /\ pc' = "scanning"
      /\ scan' = IF action = Mount THEN mounts ELSE snapshot
      /\ UNCHANGED <<mounts, snapshot, copied, cuts, action, helpers, log, crashes, changes, calm>>
  BY DEF Open, copy
<1>3. TypeOK'
  BY <1>1, <1>2 DEF TypeOK
<1>4. NoLineTwice' /\ HelpersOK'
  BY <1>1, <1>2 DEF NoLineTwice, HelpersOK
<1>5. ASSUME NEW e \in Event PROVE PaidFor(e)'
  <2>1. /\ PaidFor(e) /\ Reported(e)' = Reported(e) /\ Failed(e)' = Failed(e)
        /\ Times(e, changes)' = Times(e, changes)
    BY <1>2, PaidType DEF Reported, Times, Failed
  <2>2. Due(e)' => Due(e)
    BY <1>1, <1>2 DEF Due, Other, TypeOK
  <2> QED BY <2>1, <2>2, PaidType DEF PaidFor
<1> QED BY <1>3, <1>4, <1>5 DEF Inv

\* A line that is reported, or found in the other file, is not due any more.
LEMMA ExamineInv == ASSUME Inv, Examine PROVE Inv'
<1> DEFINE x == [line |-> Head(scan), action |-> action]
           h == [event |-> x, by |-> crashes]
<1>1. TypeOK /\ NoLineTwice /\ HelpersOK /\ Mount # Umount
  BY DEF Inv, Mount, Umount
<1>2. /\ pc = "scanning" /\ scan # << >> /\ scan' = Tail(scan)
      /\ UNCHANGED <<mounts, snapshot, copied, cuts, action, log, crashes, changes, calm>>
      /\ \/ Head(scan) \in Range(Other) /\ UNCHANGED <<pc, helpers>>
         \/ Head(scan) \in Ignored /\ UNCHANGED <<pc, helpers>>
         \/ /\ Head(scan) \notin Range(Other)
            /\ helpers' = helpers \cup {h} /\ pc' = "waiting"
  BY DEF Examine, PrintDev, copy
<1>3. /\ scan' \in Seq(Lines) /\ IsInjective(scan') /\ Head(scan) \in Lines
      /\ Head(scan) \in Range(scan) /\ Range(scan') = Range(scan) \ {Head(scan)}
  BY <1>1, <1>2, InjectiveTail DEF TypeOK, NoLineTwice
<1>4. x \in Event /\ h \in Helper /\ h \notin helpers /\ crashes \in Nat
  BY <1>1, <1>2, <1>3, BoundAssumption DEF TypeOK, HelpersOK, Event, Helper
<1>5. /\ helpers' \subseteq Helper
      /\ pc' \in {"starting", "polling", "opening", "scanning", "waiting"}
  BY <1>1, <1>2, <1>4 DEF TypeOK
<1>6. TypeOK'
  BY <1>1, <1>2, <1>3, <1>5 DEF TypeOK
<1>7. NoLineTwice'
  BY <1>1, <1>2, <1>3 DEF NoLineTwice
<1>8. HelpersOK'
  <2>1. IsFiniteSet(helpers) /\ IsFiniteSet(helpers \cup {h})
    BY <1>1, FS_AddElement DEF HelpersOK
  <2>2. CASE UNCHANGED <<pc, helpers>>
    BY <1>1, <1>2, <2>2 DEF HelpersOK
  <2>3. CASE helpers' = helpers \cup {h} /\ pc' = "waiting"
    <3>1. \A g \in helpers' : g.by <= crashes
      BY <1>1, <1>4, <2>3 DEF HelpersOK
    <3> QED BY <1>2, <2>1, <2>3, <3>1 DEF HelpersOK
  <2> QED BY <1>2, <2>2, <2>3
<1>9. ASSUME NEW e \in Event PROVE PaidFor(e)'
  <2>1. /\ PaidFor(e) /\ Reported(e) \in Nat /\ Times(e, changes) \in Nat /\ Failed(e) \in Nat
        /\ Failed(e)' = Failed(e) /\ Times(e, changes)' = Times(e, changes)
    BY <1>2, PaidType DEF Times, Failed
  <2>2. Due(e)' => Due(e)
    BY <1>2, <1>3 DEF Due, Other
  <2>3. CASE helpers' = helpers
    <3>1. Reported(e)' = Reported(e)
      BY <1>2, <2>3 DEF Reported
    <3> QED BY <2>1, <2>2, <3>1 DEF PaidFor
  <2>4. CASE Head(scan) \notin Range(Other) /\ helpers' = helpers \cup {h} /\ pc' = "waiting" /\ x # e
    <3>1. Reported(e)' = Reported(e)
      <4>1. Underway(e)' = Underway(e)
        BY <2>4 DEF Underway
      <4> QED BY <1>2, <4>1 DEF Reported, Underway
    <3> QED BY <2>1, <2>2, <3>1 DEF PaidFor
  <2>5. CASE Head(scan) \notin Range(Other) /\ helpers' = helpers \cup {h} /\ pc' = "waiting" /\ x = e
    <3>1. Reported(e)' = Reported(e) + 1
      <4>1. Underway(e)' = Underway(e) \cup {h} /\ h \notin Underway(e)
        BY <1>4, <2>5 DEF Underway
      <4>2. /\ IsFiniteSet(Underway(e)) /\ Times(e, log) \in Nat /\ Cardinality(Underway(e)) \in Nat
            /\ Reported(e) = Times(e, log) + Cardinality(Underway(e))
        BY <1>1, ReportedType
      <4>3. Cardinality(Underway(e)') = Cardinality(Underway(e)) + 1
        BY <4>1, <4>2, FS_AddElement
      <4>4. Reported(e)' = Times(e, log) + Cardinality(Underway(e)')
        BY <1>2 DEF Reported, Underway
      <4> QED BY <4>2, <4>3, <4>4
    <3>2. Due(e) /\ ~Due(e)'
      BY <1>2, <1>3, <2>5 DEF Due
    <3> QED BY <2>1, <3>1, <3>2 DEF PaidFor
  <2> QED BY <1>2, <2>3, <2>4, <2>5
<1> QED BY <1>6, <1>7, <1>8, <1>9 DEF Inv

\* The helper's line goes from its way into the log, or is lost.
LEMMA SaveUdevInv == ASSUME Inv, NEW h \in helpers, SaveUdev(h) PROVE Inv'
<1>1. TypeOK /\ NoLineTwice /\ HelpersOK /\ h \in Helper /\ h.event \in Event
  BY DEF Inv, TypeOK, Helper
<1>2. /\ helpers' = helpers \ {h}
      /\ UNCHANGED <<mounts, snapshot, copied, pc, action, scan, crashes, changes, calm>>
      /\ \/ log' = Append(log, h.event) /\ cuts' = cuts
         \/ log' = log /\ cuts' = cuts + 1 /\ MoreUpsets
  BY DEF SaveUdev
<1>3. cuts \in Nat /\ cuts' \in {cuts, cuts + 1} /\ cuts' \in 0..MaxUpsets
  BY <1>1, <1>2, BoundAssumption DEF TypeOK, MoreUpsets
<1>4. TypeOK'
  <2>1. log \in Seq(Event) /\ (log' = log \/ log' = Append(log, h.event))
    BY <1>1, <1>2 DEF TypeOK
  <2>2. log' \in Seq(Event)
    BY <1>1, <2>1
  <2> QED BY <1>1, <1>2, <1>3, <2>2 DEF TypeOK
<1>5. NoLineTwice' /\ HelpersOK'
  <2>1. IsFiniteSet(helpers \ {h})
    BY <1>1, FS_RemoveElement DEF HelpersOK
  <2> QED BY <1>1, <1>2, <2>1 DEF NoLineTwice, HelpersOK
<1>6. ASSUME NEW e \in Event PROVE PaidFor(e)'
  <2>1. /\ PaidFor(e) /\ Times(e, changes) \in Nat /\ Failed(e) \in Nat /\ Reported(e) \in Nat
        /\ Times(e, changes)' = Times(e, changes)
    BY <1>2, PaidType DEF Times
  <2>2. Failed(e)' \in Nat /\ Failed(e)' >= Failed(e) /\ (Due(e)' => Due(e))
    BY <1>2, <1>3 DEF Failed, Due, Other
  <2>3. /\ IsFiniteSet(Underway(e)) /\ Times(e, log) \in Nat /\ Cardinality(Underway(e)) \in Nat
        /\ Reported(e) = Times(e, log) + Cardinality(Underway(e))
        /\ Reported(e)' = Times(e, log') + Cardinality(Underway(e)')
    BY <1>1, ReportedType DEF Reported, Underway
  <2>4. Times(e, log') = Times(e, log) + (IF log' # log /\ h.event = e THEN 1 ELSE 0)
    <3>1. Times(e, Append(log, h.event)) = Times(e, log) + (IF h.event = e THEN 1 ELSE 0)
      BY <1>1, TimesAppend DEF TypeOK
    <3>2. log \in Seq(Event) /\ (log' = log \/ log' = Append(log, h.event))
      BY <1>1, <1>2 DEF TypeOK
    <3>3. Append(log, h.event) # log
      BY <1>1, <3>2
    <3>4. CASE log' = log
      BY <2>3, <3>4
    <3>5. CASE log' = Append(log, h.event)
      BY <3>1, <3>3, <3>5
    <3> QED BY <3>2, <3>4, <3>5
  <2>5. Cardinality(Underway(e)') = Cardinality(Underway(e)) - (IF h.event = e THEN 1 ELSE 0)
    <3>1. CASE h.event = e
      <4>1. Underway(e)' = Underway(e) \ {h} /\ h \in Underway(e)
        BY <1>2, <3>1 DEF Underway
      <4>2. Cardinality(Underway(e) \ {h}) = Cardinality(Underway(e)) - 1
        BY <2>3, <4>1, FS_RemoveElement
      <4> QED BY <3>1, <4>1, <4>2
    <3>2. CASE h.event # e
      <4>1. Underway(e)' = Underway(e)
        BY <1>2, <3>2 DEF Underway
      <4> QED BY <2>3, <3>2, <4>1
    <3> QED BY <3>1, <3>2
  <2>6. Reported(e)' \in Int /\ Reported(e)' <= Reported(e)
    BY <2>3, <2>4, <2>5
  <2> QED BY <2>1, <2>2, <2>6 DEF PaidFor
<1> QED BY <1>4, <1>5, <1>6 DEF Inv

\* The other steps make no event due that was not.
LEMMA OtherInv ==
    ASSUME Inv, Count \/ Unchanged \/ HelperDone \/ Crash \/ UNCHANGED vars PROVE Inv'
<1>1. TypeOK /\ NoLineTwice /\ HelpersOK /\ crashes \in Nat
  BY BoundAssumption DEF Inv, TypeOK
<1>2. UNCHANGED <<mounts, snapshot, copied, cuts, helpers, log, changes>>
  BY DEF Count, Unchanged, HelperDone, Crash, vars, copy
<1>3. /\ action' \in {Mount, Umount} /\ scan' \in {scan, << >>} /\ crashes' \in 0..MaxUpsets
      /\ pc' \in {"starting", "polling", "opening", "scanning", "waiting"}
      /\ crashes' = crashes \/ crashes' = crashes + 1
  <2>1. CASE Crash
    BY <1>1, <2>1, BoundAssumption DEF Crash, MoreUpsets, TypeOK
  <2>2. CASE Count \/ Unchanged \/ HelperDone \/ UNCHANGED vars
    BY <1>1, <2>2 DEF Count, Direction, Unchanged, HelperDone, vars, copy, TypeOK
  <2> QED BY <2>1, <2>2
<1>4. calm' \in BOOLEAN
  BY <1>1 DEF Count, Unchanged, HelperDone, Crash, vars, TypeOK
<1>5. TypeOK'
  <2>1. scan' \in Seq(Lines)
    <3>1. scan \in Seq(Lines) /\ << >> \in Seq(Lines)
      BY <1>1 DEF TypeOK
    <3> QED BY <1>3, <3>1
  <2>2. copied' \in BOOLEAN
    BY <1>1, <1>2 DEF TypeOK
  <2> QED BY <1>1, <1>2, <1>3, <1>4, <2>1, <2>2 DEF TypeOK
<1>6. NoLineTwice'
  BY <1>1, <1>2, <1>3 DEF NoLineTwice, IsInjective
<1>7. HelpersOK'
  <2>1. CASE Crash
    <3>1. \A h \in helpers : h.by \in Nat /\ h.by <= crashes
      BY <1>1, BoundAssumption DEF TypeOK, Helper, HelpersOK
    <3>2. crashes' = crashes + 1
      BY <2>1 DEF Crash
    <3> QED BY <1>1, <1>2, <3>1, <3>2 DEF HelpersOK
  <2>2. CASE HelperDone
    BY <1>1, <1>2, <2>2 DEF HelperDone, HelpersOK
  <2>3. CASE Count \/ Unchanged \/ UNCHANGED vars
    BY <1>1, <1>2, <2>3 DEF Count, Unchanged, HelpersOK, vars
  <2> QED BY <2>1, <2>2, <2>3
<1>8. ASSUME NEW e \in Event PROVE PaidFor(e)'
  <2>1. /\ PaidFor(e) /\ Reported(e)' = Reported(e) /\ Failed(e)' = Failed(e)
        /\ Times(e, changes)' = Times(e, changes)
    BY <1>2, PaidType DEF Reported, Times, Failed
  <2>2. Due(e)' => Due(e)
    BY <1>2 DEF Due, Other, Count, Unchanged, HelperDone, Crash, vars, copy
  <2> QED BY <2>1, <2>2, PaidType DEF PaidFor
<1> QED BY <1>5, <1>6, <1>7, <1>8 DEF Inv

LEMMA StepInv == Inv /\ [Next]_vars => Inv'
<1> SUFFICES ASSUME Inv, [Next]_vars PROVE Inv'
  OBVIOUS
<1>1. ASSUME Start \/ EndScan PROVE Inv'
  <2>1. SyncFiles /\ pc' = "polling" /\ pc # "waiting"
        /\ UNCHANGED <<mounts, action, scan, helpers, log, crashes, changes, calm>>
    BY <1>1 DEF Start, EndScan
  <2> QED BY <2>1, SyncInv
<1> QED BY <1>1, ChangeInv, OpenInv, ExamineInv, SaveUdevInv, OtherInv DEF Next, Listener
------------------------------------------------------------------------------
\* Type correctness, whatever changes and fails (mount_listener.c).
THEOREM TypeCorrect == Spec => []TypeOK
<1>1. Inv => TypeOK
  BY DEF Inv
<1> QED BY <1>1, InitInv, StepInv, PTL DEF Spec

\* compare and print_dev report a change at most once, and none that did not happen,
\* except for one more mount per failed write (mount_listener.c:204, 224).
THEOREM ReportsAreRealAlways == Spec => []ReportsAreReal
<1>1. Inv => ReportsAreReal
  <2> SUFFICES ASSUME Inv, NEW e \in Event
               PROVE  Reported(e) <= Times(e, changes) + (IF e.action = Mount THEN cuts ELSE 0)
    BY DEF ReportsAreReal
  <2>1. /\ PaidFor(e) /\ Reported(e) \in Nat /\ Times(e, changes) \in Nat /\ Failed(e) \in Nat
    BY PaidType
  <2> QED BY <2>1 DEF PaidFor, Failed
<1> QED BY <1>1, InitInv, StepInv, PTL DEF Spec
------------------------------------------------------------------------------
(* Nothing is missed while changes wait and no write fails. *)

\* Tables without a repeated line are compared by their numbers of lines.
LEMMA LenRange ==
    ASSUME NEW S, NEW s \in Seq(S), NEW t \in Seq(S), IsInjective(s), IsInjective(t),
           Range(s) \subseteq Range(t)
    PROVE  Len(s) <= Len(t) /\ (Len(s) = Len(t) => Range(s) = Range(t))
<1>1. ASSUME NEW u \in Seq(S), IsInjective(u)
      PROVE  IsFiniteSet(Range(u)) /\ Cardinality(Range(u)) = Len(u)
  <2>1. Len(u) \in Nat /\ DOMAIN u = 1..Len(u) /\ u \in [1..Len(u) -> Range(u)]
    BY DEF Range
  <2>2. u \in Bijection(1..Len(u), Range(u))
    BY <1>1, <2>1 DEF Bijection, Injection, Surjection, Range
  <2>3. IsFiniteSet(1..Len(u)) /\ Cardinality(1..Len(u)) = Len(u)
    <3>1. 1 \in Int /\ Len(u) \in Int
      BY <2>1
    <3>2. /\ IsFiniteSet(1..Len(u))
          /\ Cardinality(1..Len(u)) = IF 1 > Len(u) THEN 0 ELSE Len(u) - 1 + 1
      BY <3>1, FS_Interval, Zenon
    <3> QED BY <2>1, <3>2
  <2>4. ExistsBijection(1..Len(u), Range(u))
    BY <2>2 DEF ExistsBijection
  <2> QED BY <2>3, <2>4, FS_Bijection
<1>2. /\ IsFiniteSet(Range(s)) /\ Cardinality(Range(s)) = Len(s)
      /\ IsFiniteSet(Range(t)) /\ Cardinality(Range(t)) = Len(t)
  BY <1>1
<1> QED BY <1>2, FS_Subset

Grown  == Range(snapshot) \subseteq Range(mounts)
Shrunk == Range(mounts) \subseteq Range(snapshot)

\* Changes that wait make the table grow or shrink, until it is copied.
Aligned == CASE pc = "starting" -> changes = << >> /\ log = << >> /\ helpers = {}
             [] pc = "polling"  -> Grown \/ Shrunk
             [] pc = "opening"  -> IF action = Mount THEN Grown /\ Len(snapshot) < Len(mounts)
                                                     ELSE Shrunk /\ Len(mounts) < Len(snapshot)
             [] OTHER           -> TRUE

Exact(e) == Reported(e) + (IF Due(e) THEN 1 ELSE 0) = Times(e, changes)

Waiting  == calm /\ cuts = 0
NoneLost == Waiting => Aligned /\ \A e \in Event : e.line \notin Ignored => Exact(e)

LEMMA InitNoneLost == Init => NoneLost
<1> SUFFICES ASSUME Init PROVE NoneLost
  OBVIOUS
<1>1. Aligned
  BY DEF Init, Aligned
<1>2. ASSUME NEW e \in Event PROVE Exact(e)
  <2>1. Underway(e) = {} /\ Occurs(e, << >>) = {}
    BY DEF Init, Underway, Occurs
  <2>2. Times(e, << >>) = 0 /\ Cardinality(Underway(e)) = 0
    BY <2>1, FS_EmptySet DEF Times, Occurs
  <2>3. Reported(e) = 0 /\ Times(e, changes) = 0 /\ ~Due(e)
    BY <2>2 DEF Init, Reported, Underway, Due
  <2> QED BY <2>3 DEF Exact
<1> QED BY <1>1, <1>2 DEF NoneLost

LEMMA ChangeNoneLost ==
    ASSUME Inv, NoneLost, NEW line \in Lines, NEW kind \in {Mount, Umount}, Change(line, kind),
           Waiting'
    PROVE  Aligned' /\ \A e \in Event : e.line \notin Ignored => Exact(e)'
<1> DEFINE x == [line |-> line, action |-> kind]
<1>0. TypeOK /\ NoLineTwice /\ x \in Event /\ Mount # Umount
  BY DEF Inv, Event, Mount, Umount
<1>1. UNCHANGED <<snapshot, cuts, pc, action, scan, helpers, log>>
  BY DEF Change, copy
<1>2. CASE pc = "starting" /\ crashes = 0
  <2>1. Waiting /\ changes' = changes
    BY <1>1, <1>2 DEF Change, Waiting
  <2>2. Aligned'
    BY <1>1, <1>2, <2>1 DEF NoneLost, Aligned
  <2>3. ASSUME NEW e \in Event, e.line \notin Ignored PROVE Exact(e)'
    <3>1. Exact(e) /\ Reported(e)' = Reported(e) /\ Times(e, changes)' = Times(e, changes)
      BY <1>1, <2>1, <2>3 DEF NoneLost, Reported, Times
    <3>2. ~Due(e) /\ ~Due(e)'
      BY <1>1, <1>2 DEF Due
    <3> QED BY <3>1, <3>2 DEF Exact
  <2> QED BY <2>2, <2>3
<1>3. CASE ~(pc = "starting" /\ crashes = 0)
  <2>1. Waiting /\ Waited(kind) /\ changes' = Append(changes, x)
    BY <1>1, <1>3 DEF Change, Waiting
  <2>2. Aligned /\ pc \in {"polling", "opening"}
    BY <2>1 DEF NoneLost, Waited
  <2>3. /\ Grown => Len(snapshot) <= Len(mounts) /\ (Len(snapshot) = Len(mounts) => Shrunk)
        /\ Shrunk => Len(mounts) <= Len(snapshot) /\ (Len(snapshot) = Len(mounts) => Grown)
        /\ Len(mounts) \in Nat /\ Len(snapshot) \in Nat
    <3>1. /\ mounts \in Seq(Lines) /\ snapshot \in Seq(Lines)
          /\ IsInjective(mounts) /\ IsInjective(snapshot)
      BY <1>0 DEF TypeOK, NoLineTwice
    <3> QED BY <3>1, LenRange DEF Grown, Shrunk
  <2>6. ASSUME NEW e \in Event, e.line \notin Ignored
        PROVE  /\ Exact(e) /\ Reported(e) \in Nat /\ Reported(e)' = Reported(e)
               /\ Times(e, changes)' = Times(e, changes) + (IF x = e THEN 1 ELSE 0)
    <3>1. Reported(e)' = Reported(e)
      BY <1>1 DEF Reported
    <3>2. Times(e, Append(changes, x)) = Times(e, changes) + (IF x = e THEN 1 ELSE 0)
      BY <1>0, TimesAppend DEF TypeOK
    <3> QED BY <2>1, <2>6, <3>1, <3>2, PaidType DEF NoneLost, Times
  <2>4. CASE kind = Mount
    <3>1. Grown /\ (pc = "opening" => action = Mount)
      BY <1>0, <2>1, <2>2, <2>3, <2>4 DEF Aligned, Waited
    <3>2. /\ line \notin Range(mounts) /\ Range(mounts') = Range(mounts) \cup {line}
          /\ Len(mounts') = Len(mounts) + 1
      <4>1. line \notin Range(mounts) /\ mounts' = Append(mounts, line)
        BY <1>0, <2>4 DEF Change
      <4> QED BY <1>0, <4>1, InjectiveAppend DEF TypeOK, NoLineTwice
    <3>3. Aligned'
      BY <1>1, <2>2, <2>3, <3>1, <3>2 DEF Aligned, Grown
    <3>4. ASSUME NEW e \in Event, e.line \notin Ignored PROVE Exact(e)'
      <4>1. Due(e)' <=> Due(e) \/ x = e
        BY <1>0, <1>1, <2>2, <2>4, <3>1, <3>2 DEF Due, Grown, Event
      <4>2. x = e => ~Due(e)
        BY <1>0, <2>2, <2>4, <3>2 DEF Due
      <4> QED BY <2>6, <3>4, <4>1, <4>2 DEF Exact
    <3> QED BY <3>3, <3>4
  <2>5. CASE kind = Umount
    <3>1. Shrunk /\ (pc = "opening" => action # Mount)
      BY <1>0, <2>1, <2>2, <2>3, <2>5 DEF Aligned, Waited
    <3>2. /\ line \in Range(mounts) /\ Range(mounts') = Range(mounts) \ {line}
          /\ Len(mounts') = Len(mounts) - 1
      <4>1. PICK n \in DOMAIN mounts : mounts[n] = line /\ mounts' = RemoveAt(mounts, n)
        BY <1>0, <2>5 DEF Change
      <4> QED BY <1>0, <4>1, InjectiveRemoveAt DEF TypeOK, NoLineTwice, Range
    <3>3. Aligned'
      BY <1>1, <2>2, <2>3, <3>1, <3>2 DEF Aligned, Shrunk
    <3>4. ASSUME NEW e \in Event, e.line \notin Ignored PROVE Exact(e)'
      <4>1. Due(e)' <=> Due(e) \/ x = e
        BY <1>0, <1>1, <2>2, <2>5, <3>1, <3>2 DEF Due, Shrunk, Event
      <4>2. x = e => ~Due(e)
        BY <1>0, <2>2, <2>5, <3>2 DEF Due
      <4> QED BY <2>6, <3>4, <4>1, <4>2 DEF Exact
    <3> QED BY <3>3, <3>4
  <2> QED BY <2>4, <2>5
<1> QED BY <1>2, <1>3

LEMMA ExamineNoneLost ==
    ASSUME Inv, NoneLost, Examine, Waiting'
    PROVE  Aligned' /\ \A e \in Event : e.line \notin Ignored => Exact(e)'
<1> DEFINE x == [line |-> Head(scan), action |-> action]
           h == [event |-> x, by |-> crashes]
<1>1. TypeOK /\ NoLineTwice /\ HelpersOK /\ Mount # Umount
  BY DEF Inv, Mount, Umount
<1>2. /\ pc = "scanning" /\ scan # << >> /\ scan' = Tail(scan) /\ Waiting
      /\ UNCHANGED <<mounts, snapshot, cuts, action, log, crashes, changes>>
      /\ \/ Head(scan) \in Range(Other) /\ UNCHANGED <<pc, helpers>>
         \/ Head(scan) \in Ignored /\ UNCHANGED <<pc, helpers>>
         \/ /\ Head(scan) \notin Range(Other)
            /\ helpers' = helpers \cup {h} /\ pc' = "waiting"
  BY DEF Examine, PrintDev, copy, Waiting
<1>3. /\ Head(scan) \in Lines /\ Head(scan) \in Range(scan) /\ Range(scan') = Range(scan) \ {Head(scan)}
  BY <1>1, <1>2, InjectiveTail DEF TypeOK, NoLineTwice
<1>4. x \in Event /\ h \notin helpers
  BY <1>1, <1>2, <1>3 DEF TypeOK, HelpersOK, Event
<1>5. Aligned'
  BY <1>2 DEF Aligned
<1>6. ASSUME NEW e \in Event, e.line \notin Ignored PROVE Exact(e)'
  <2>1. /\ Exact(e) /\ Reported(e) \in Nat /\ Times(e, changes) \in Nat
        /\ Times(e, changes)' = Times(e, changes)
    BY <1>2, <1>6, PaidType DEF NoneLost, Times
  <2>2. e # x => e.line # Head(scan) \/ e.action # action
    BY DEF Event
  <2>3. CASE helpers' = helpers /\ pc' = pc /\ (Head(scan) \in Range(Other) \/ Head(scan) \in Ignored)
    <3>1. Reported(e)' = Reported(e)
      BY <1>2, <2>3 DEF Reported
    <3>2. Due(e)' <=> Due(e)
      BY <1>2, <1>3, <1>6, <2>3 DEF Due, Other
    <3> QED BY <2>1, <3>1, <3>2 DEF Exact
  <2>4. CASE Head(scan) \notin Range(Other) /\ helpers' = helpers \cup {h} /\ pc' = "waiting" /\ x # e
    <3>1. Reported(e)' = Reported(e)
      <4>1. Underway(e)' = Underway(e)
        BY <2>4 DEF Underway
      <4> QED BY <1>2, <4>1 DEF Reported, Underway
    <3>2. Due(e)' <=> Due(e)
      BY <1>2, <1>3, <2>2, <2>4 DEF Due, Other
    <3> QED BY <2>1, <3>1, <3>2 DEF Exact
  <2>5. CASE Head(scan) \notin Range(Other) /\ helpers' = helpers \cup {h} /\ pc' = "waiting" /\ x = e
    <3>1. Reported(e)' = Reported(e) + 1
      <4>1. Underway(e)' = Underway(e) \cup {h} /\ h \notin Underway(e)
        BY <1>4, <2>5 DEF Underway
      <4>2. /\ IsFiniteSet(Underway(e)) /\ Times(e, log) \in Nat /\ Cardinality(Underway(e)) \in Nat
            /\ Reported(e) = Times(e, log) + Cardinality(Underway(e))
        BY <1>1, ReportedType
      <4>3. Cardinality(Underway(e)') = Cardinality(Underway(e)) + 1
        BY <4>1, <4>2, FS_AddElement
      <4>4. Reported(e)' = Times(e, log) + Cardinality(Underway(e)')
        BY <1>2 DEF Reported, Underway
      <4> QED BY <4>2, <4>3, <4>4
    <3>2. Due(e) /\ ~Due(e)'
      BY <1>2, <1>3, <2>5 DEF Due
    <3> QED BY <2>1, <3>1, <3>2 DEF Exact
  <2> QED BY <1>2, <2>3, <2>4, <2>5
<1> QED BY <1>5, <1>6

LEMMA SaveUdevNoneLost ==
    ASSUME Inv, NoneLost, NEW h \in helpers, SaveUdev(h), Waiting'
    PROVE  Aligned' /\ \A e \in Event : e.line \notin Ignored => Exact(e)'
<1>1. TypeOK /\ HelpersOK /\ h \in Helper /\ h.event \in Event /\ cuts \in Nat
  BY BoundAssumption DEF Inv, TypeOK, Helper
<1>2. /\ helpers' = helpers \ {h} /\ log' = Append(log, h.event) /\ Waiting
      /\ UNCHANGED <<mounts, snapshot, pc, action, scan, changes>>
  BY <1>1 DEF SaveUdev, Waiting
<1>3. Aligned'
  BY <1>2 DEF NoneLost, Aligned, Grown, Shrunk
<1>4. ASSUME NEW e \in Event, e.line \notin Ignored PROVE Exact(e)'
  <2>1. /\ Exact(e) /\ Times(e, changes)' = Times(e, changes) /\ (Due(e)' <=> Due(e))
    BY <1>2, <1>4 DEF NoneLost, Times, Due, Other
  <2>2. /\ IsFiniteSet(Underway(e)) /\ Times(e, log) \in Nat /\ Cardinality(Underway(e)) \in Nat
        /\ Reported(e) = Times(e, log) + Cardinality(Underway(e))
        /\ Reported(e)' = Times(e, log') + Cardinality(Underway(e)')
    BY <1>1, ReportedType DEF Reported, Underway
  <2>3. Times(e, log') = Times(e, log) + (IF h.event = e THEN 1 ELSE 0)
    BY <1>1, <1>2, TimesAppend DEF TypeOK
  <2>4. Cardinality(Underway(e)') = Cardinality(Underway(e)) - (IF h.event = e THEN 1 ELSE 0)
    <3>1. CASE h.event = e
      <4>1. Underway(e)' = Underway(e) \ {h} /\ h \in Underway(e)
        BY <1>2, <3>1 DEF Underway
      <4>2. Cardinality(Underway(e) \ {h}) = Cardinality(Underway(e)) - 1
        BY <2>2, <4>1, FS_RemoveElement
      <4> QED BY <3>1, <4>1, <4>2
    <3>2. CASE h.event # e
      <4>1. Underway(e)' = Underway(e)
        BY <1>2, <3>2 DEF Underway
      <4> QED BY <2>2, <3>2, <4>1
    <3> QED BY <3>1, <3>2
  <2>5. Reported(e)' = Reported(e)
    BY <2>2, <2>3, <2>4
  <2> QED BY <2>1, <2>5 DEF Exact
<1> QED BY <1>3, <1>4

\* A step of the listener, other than examining a line.
LEMMA QuietNoneLost ==
    ASSUME Inv, NoneLost, Waiting',
           Start \/ Count \/ Unchanged \/ Open \/ HelperDone \/ EndScan \/ UNCHANGED vars
    PROVE  Aligned' /\ \A e \in Event : e.line \notin Ignored => Exact(e)'
<1>1. TypeOK /\ NoLineTwice /\ Mount # Umount
  BY DEF Inv, Mount, Umount
<1>2. UNCHANGED <<mounts, helpers, log, changes, calm>> /\ cuts' = 0 /\ (cuts' = cuts \/ cuts' = cuts + 1)
  BY DEF Start, Count, Unchanged, Open, HelperDone, EndScan, SyncFiles, vars, copy, Waiting
<1>3. Waiting /\ cuts' = cuts
  BY <1>1, <1>2, BoundAssumption DEF Waiting, TypeOK
<1>4. Start \/ EndScan => snapshot' = mounts
  <2>1. cuts \in Nat
    BY <1>1, BoundAssumption DEF TypeOK
  <2>2. cuts' # cuts + 1
    BY <1>3, <2>1
  <2> QED BY <2>2 DEF Start, EndScan, SyncFiles
<1>5. Aligned'
  <2>1. CASE Start \/ EndScan
    BY <1>2, <1>4, <2>1 DEF Start, EndScan, Aligned, Grown
  <2>2. CASE Count
    <3>1. /\ Grown => Len(snapshot) <= Len(mounts)
          /\ Shrunk => Len(mounts) <= Len(snapshot)
          /\ Len(mounts) \in Nat /\ Len(snapshot) \in Nat
      BY <1>1, LenRange DEF Grown, Shrunk, TypeOK, NoLineTwice
    <3>2. /\ pc = "polling" /\ pc' = "opening" /\ Len(mounts) # Len(snapshot)
          /\ action' = Direction(Len(mounts), Len(snapshot))
          /\ UNCHANGED <<mounts, snapshot>>
      BY <2>2 DEF Count, copy
    <3>3. Grown \/ Shrunk
      BY <1>3, <3>2 DEF NoneLost, Aligned
    <3> QED BY <1>1, <3>1, <3>2, <3>3 DEF Aligned, Direction, Grown, Shrunk
  <2>3. CASE Unchanged \/ UNCHANGED vars
    BY <1>3, <2>3 DEF NoneLost, Unchanged, vars, copy, Aligned, Grown, Shrunk
  <2>4. CASE Open \/ HelperDone
    BY <2>4 DEF Open, HelperDone, Aligned
  <2> QED BY <2>1, <2>2, <2>3, <2>4
<1>6. ASSUME NEW e \in Event, e.line \notin Ignored PROVE Exact(e)'
  <2>1. Exact(e) /\ Reported(e)' = Reported(e) /\ Times(e, changes)' = Times(e, changes)
    BY <1>2, <1>3, <1>6 DEF NoneLost, Reported, Times
  <2>2. Due(e)' <=> Due(e)
    <3>1. CASE Start \/ EndScan
      <4>1. ~Due(e)
        BY <3>1 DEF Start, EndScan, Due, Range
      <4>2. ~Due(e)'
        BY <1>2, <1>4, <3>1 DEF Start, EndScan, Due
      <4> QED BY <4>1, <4>2
    <3>2. CASE Count \/ Unchanged \/ HelperDone \/ UNCHANGED vars
      BY <3>2 DEF Count, Unchanged, HelperDone, vars, copy, Due, Other
    <3>3. CASE Open
      <4>1. /\ pc = "opening" /\ pc' = "scanning"
            /\ scan' = IF action = Mount THEN mounts ELSE snapshot
            /\ UNCHANGED <<mounts, snapshot, action>>
        BY <3>3 DEF Open, copy
      <4>2. IF action = Mount THEN Grown ELSE Shrunk
        BY <1>3, <4>1 DEF NoneLost, Aligned
      <4>3. e.action \in {Mount, Umount} /\ action \in {Mount, Umount}
        BY <1>1 DEF TypeOK, Event
      <4> QED BY <1>1, <4>1, <4>2, <4>3 DEF Due, Other, Grown, Shrunk
    <3> QED BY <3>1, <3>2, <3>3
  <2> QED BY <2>1, <2>2 DEF Exact
<1> QED BY <1>5, <1>6

LEMMA StepNoneLost == Inv /\ NoneLost /\ [Next]_vars => NoneLost'
<1> SUFFICES ASSUME Inv, NoneLost, [Next]_vars, Waiting'
             PROVE  Aligned' /\ \A e \in Event : e.line \notin Ignored => Exact(e)'
  BY DEF NoneLost
<1>1. ~Crash
  BY DEF Crash, Waiting
<1> QED BY <1>1, ChangeNoneLost, ExamineNoneLost, SaveUdevNoneLost, QuietNoneLost DEF Next, Listener

\* When changes wait for the listener and no write fails, compare and print_dev report
\* each of them exactly once (mount_listener.c:204).
THEOREM AllReportedAlways == Spec => []AllReported
<1>1. Inv /\ NoneLost => AllReported
  <2> SUFFICES ASSUME Inv, NoneLost, AtRest, calm, cuts = 0, NEW e \in Event, e.line \notin Ignored
               PROVE  Times(e, log) = Times(e, changes)
    BY DEF AllReported
  <2>1. Exact(e) /\ ~Due(e)
    BY DEF NoneLost, Waiting, AtRest, Due
  <2>2. Underway(e) = {} /\ TypeOK /\ HelpersOK
    BY DEF AtRest, Underway, Inv
  <2>3. /\ Times(e, log) \in Nat /\ Reported(e) = Times(e, log) + Cardinality(Underway(e))
    BY <2>2, ReportedType
  <2>4. Reported(e) = Times(e, log)
    BY <2>2, <2>3, FS_EmptySet
  <2> QED BY <2>1, <2>3, <2>4 DEF Exact
<1> QED BY <1>1, InitInv, StepInv, InitNoneLost, StepNoneLost, PTL DEF Spec
==============================================================================
