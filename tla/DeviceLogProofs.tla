--------------------------- MODULE DeviceLogProofs ---------------------------
(***************************************************************************)
(* Proofs about DeviceLog when requests are served one at a time, for any  *)
(* disks and partitions, any room in the answer and any number of events   *)
(* and requests.                                                           *)
(***************************************************************************)
EXTENDS DeviceLog, FiniteSetTheorems, SequenceTheorems, TLAPS

(* Lines and the events in them. *)

Kinds == {"event", "disk", "part", "blank"}

LEMMA LinesOfType ==
    ASSUME NEW kind \in Kinds, NEW s \in Seq(Nat)
    PROVE  /\ LinesOf(kind, s) \in Seq(Line)
           /\ Len(LinesOf(kind, s)) = Len(s)
           /\ \A i \in 1..Len(s) : LinesOf(kind, s)[i] = [kind |-> kind, n |-> s[i]]
<1>1. DOMAIN s = 1..Len(s) /\ Len(s) \in Nat /\ \A i \in 1..Len(s) : s[i] \in Nat
  OBVIOUS
<1>2. LinesOf(kind, s) = [i \in 1..Len(s) |-> [kind |-> kind, n |-> s[i]]]
  BY <1>1 DEF LinesOf
<1>3. \A i \in 1..Len(s) : [kind |-> kind, n |-> s[i]] \in Line
  BY <1>1 DEF Line, Kinds
<1>4. LinesOf(kind, s) \in [1..Len(s) -> Line]
  BY <1>2, <1>3
<1>5. LinesOf(kind, s) \in Seq(Line)
  BY <1>1, <1>4, SeqDef
<1>6. DOMAIN LinesOf(kind, s) = 1..Len(s)
  BY <1>2
<1>7. Len(LinesOf(kind, s)) = Len(s)
  BY <1>1, <1>5, <1>6
<1> QED BY <1>2, <1>5, <1>7

LEMMA FirstEvents ==
    ASSUME NEW s \in Seq(Nat), NEW n \in 0..Len(s)
    PROVE  /\ SubSeq(s, 1, n) \in Seq(Nat)
           /\ SubSeq(LinesOf("event", s), 1, n) = LinesOf("event", SubSeq(s, 1, n))
<1>1. /\ SubSeq(s, 1, n) \in Seq(Nat) /\ Len(SubSeq(s, 1, n)) = n
      /\ \A i \in 1..n : SubSeq(s, 1, n)[i] = s[i]
  OBVIOUS
<1>2. /\ LinesOf("event", s) \in Seq(Line) /\ Len(LinesOf("event", s)) = Len(s)
      /\ \A i \in 1..n : LinesOf("event", s)[i] = [kind |-> "event", n |-> s[i]]
  <2>1. "event" \in Kinds /\ 1..n \subseteq 1..Len(s)
    BY DEF Kinds
  <2> QED BY <2>1, LinesOfType
<1>3. /\ LinesOf("event", SubSeq(s, 1, n)) \in Seq(Line) /\ Len(LinesOf("event", SubSeq(s, 1, n))) = n
      /\ \A i \in 1..n : LinesOf("event", SubSeq(s, 1, n))[i] = [kind |-> "event", n |-> s[i]]
  <2>1. "event" \in Kinds
    BY DEF Kinds
  <2> DEFINE part == SubSeq(s, 1, n)
  <2> HIDE DEF part
  <2>2. part \in Seq(Nat) /\ Len(part) = n /\ \A i \in 1..n : part[i] = s[i]
    BY <1>1 DEF part
  <2>3. /\ LinesOf("event", part) \in Seq(Line) /\ Len(LinesOf("event", part)) = n
        /\ \A i \in 1..n : LinesOf("event", part)[i] = [kind |-> "event", n |-> part[i]]
    BY <2>1, <2>2, LinesOfType
  <2> QED BY <2>2, <2>3 DEF part
<1>4. /\ SubSeq(LinesOf("event", s), 1, n) \in Seq(Line) /\ Len(SubSeq(LinesOf("event", s), 1, n)) = n
      /\ \A i \in 1..n : SubSeq(LinesOf("event", s), 1, n)[i] = LinesOf("event", s)[i]
  BY <1>2
<1> DEFINE left1 == SubSeq(LinesOf("event", s), 1, n)
           right1 == LinesOf("event", SubSeq(s, 1, n))
<1>5. \A i \in 1..n : left1[i] = right1[i]
  BY <1>2, <1>3, <1>4
<1>6. left1 \in Seq(Line) /\ right1 \in Seq(Line) /\ Len(left1) = n /\ Len(right1) = n
  BY <1>3, <1>4
<1> HIDE DEF left1, right1
<1>7. left1 = right1
  BY <1>5, <1>6, SeqEqual
<1> QED BY <1>1, <1>7 DEF left1, right1

LEMMA SameStart ==
    ASSUME NEW S, NEW s \in Seq(S), NEW t \in Seq(S), NEW n \in 0..Len(s),
           Len(s) <= Len(t), \A i \in 1..n : t[i] = s[i]
    PROVE  SubSeq(t, 1, n) = SubSeq(s, 1, n)
<1>1. /\ SubSeq(s, 1, n) \in Seq(S) /\ Len(SubSeq(s, 1, n)) = n
      /\ \A i \in 1..n : SubSeq(s, 1, n)[i] = s[i]
  OBVIOUS
<1>2. /\ SubSeq(t, 1, n) \in Seq(S) /\ Len(SubSeq(t, 1, n)) = n
      /\ \A i \in 1..n : SubSeq(t, 1, n)[i] = t[i]
  OBVIOUS
<1> QED BY <1>1, <1>2, SeqEqual

LEMMA NthOfInterval == ASSUME NEW n \in Nat, NEW k \in 1..n PROVE Nth(1..n, k) = k
<1>1. \A i \in 1..n : Cardinality({j \in 1..n : j <= i}) = i
  <2> TAKE i \in 1..n
  <2> DEFINE upto == {j \in 1..n : j <= i}
  <2>1. upto = 1..i
    OBVIOUS
  <2> HIDE DEF upto
  <2>2. Cardinality(1..i) = IF 1 > i THEN 0 ELSE i - 1 + 1
    BY FS_Interval
  <2>3. Cardinality(upto) = i
    BY <2>1, <2>2
  <2> QED BY <2>3 DEF upto
<1> QED BY <1>1 DEF Nth

LEMMA EventsOfEvents == ASSUME NEW s \in Seq(Nat) PROVE Events(LinesOf("event", s)) = s
<1> DEFINE lines == LinesOf("event", s)
<1> DEFINE found == {i \in DOMAIN lines : lines[i].kind = "event"}
<1>1. /\ lines \in Seq(Line) /\ Len(lines) = Len(s) /\ Len(s) \in Nat
      /\ \A i \in 1..Len(s) : lines[i].kind = "event" /\ lines[i].n = s[i]
  <2>1. "event" \in Kinds /\ Len(s) \in Nat
    BY DEF Kinds
  <2>2. /\ lines \in Seq(Line) /\ Len(lines) = Len(s)
        /\ \A i \in 1..Len(s) : lines[i] = [kind |-> "event", n |-> s[i]]
    BY <2>1, LinesOfType
  <2> HIDE DEF lines
  <2>3. \A i \in 1..Len(s) : lines[i].kind = "event" /\ lines[i].n = s[i]
    <3> TAKE i \in 1..Len(s)
    <3>1. lines[i] = [kind |-> "event", n |-> s[i]]
      BY <2>2
    <3> QED BY <3>1
  <2> QED BY <2>1, <2>2, <2>3
<1>2. found = 1..Len(s)
  BY <1>1
<1>3. Cardinality(found) = Len(s)
  <2>1. Cardinality(1..Len(s)) = IF 1 > Len(s) THEN 0 ELSE Len(s) - 1 + 1
    <3>1. Len(s) \in Int /\ 1 \in Int
      BY <1>1
    <3> QED BY <3>1, FS_Interval
  <2> HIDE DEF found
  <2> QED BY <1>1, <1>2, <2>1
<1>4. Events(lines) = [k \in 1..Cardinality(found) |-> lines[Nth(found, k)].n]
  BY DEF Events
<1>5. \A k \in 1..Len(s) : lines[Nth(found, k)].n = s[k]
  BY <1>1, <1>2, NthOfInterval
<1>6. s = [k \in 1..Len(s) |-> s[k]]
  OBVIOUS
<1> HIDE DEF lines, found
<1>7. Events(lines) = [k \in 1..Len(s) |-> s[k]]
  BY <1>3, <1>4, <1>5
<1> QED BY <1>6, <1>7 DEF lines

LEMMA EventsOfNone == Events(<< >>) = << >> /\ Events(<<Unknow>>) = << >>
<1> DEFINE found(lines) == {i \in DOMAIN lines : lines[i].kind = "event"}
<1>1. found(<< >>) = {} /\ found(<<Unknow>>) = {}
  BY DEF Unknow
<1>2. \A lines : Events(lines) = [k \in 1..Cardinality(found(lines)) |-> lines[Nth(found(lines), k)].n]
  BY DEF Events
<1>3. ASSUME NEW lines, found(lines) = {} PROVE Events(lines) = << >>
  <2>1. Cardinality(found(lines)) = 0
    BY <1>3, FS_EmptySet
  <2> HIDE DEF found
  <2>2. Events(lines) = [k \in 1..0 |-> lines[Nth(found(lines), k)].n]
    BY <1>2, <2>1
  <2> QED BY <2>2
<1> QED BY <1>1, <1>3

LEMMA SmallestOfTwo == ASSUME NEW a \in Nat, NEW b \in Nat PROVE Min({a, b}) = IF a <= b THEN a ELSE b
BY DEF Min

LEMMA AnswersType == /\ LinesOf("disk", Disks) \in Seq(Line)
                     /\ LinesOf("part", Parts) \in Seq(Line) /\ LinesOf("part", Parts) # << >>
<1>1. Disks \in Seq(Nat) /\ Parts \in Seq(Nat) /\ Len(Parts) \in Nat \ {0} /\ "disk" \in Kinds /\ "part" \in Kinds
  BY AnswersAssumption DEF Kinds
<1>2. LinesOf("disk", Disks) \in Seq(Line)
  BY <1>1, LinesOfType
<1>3. LinesOf("part", Parts) \in Seq(Line) /\ Len(LinesOf("part", Parts)) = Len(Parts)
  BY <1>1, LinesOfType
<1>4. LinesOf("part", Parts) # << >>
  BY <1>1, <1>3
<1> QED BY <1>2, <1>3, <1>4
------------------------------------------------------------------------------
(* The invariant. *)

Late == {"counting", "printing", "removing"}

\* Which option leads where.
OptionOK(p) == /\ pc[p] \in {"reading", "emptying"} => option[p] = "--getudev"
               /\ pc[p] = "storing" => option[p] # "--getparts"
               /\ pc[p] = "appending" => option[p] = "--getparts" /\ todo[p] # << >>

\* What is to be printed of the log is the log as it was read, and all of it if nothing is missed.
OutputOK(p) ==
    /\ pc[p] = "emptying" => \E n \in 0..Len(log) : /\ output[p] = LinesOf("event", SubSeq(log, 1, n))
                                                    /\ ~missed => n = Len(log)
    /\ option[p] = "--getudev" /\ pc[p] \in {"storing"} \union Late =>
           output[p] = <<Unknow>> \/ \E s \in Seq(Nat) : output[p] = LinesOf("event", s)

\* What is in the temporary file, unless a killed script has left its lines there.
TmpOK(p) ==
    /\ pc[p] \in Late /\ option[p] # "--getparts" => ~left
    /\ ~left => /\ pc[p] \notin {"appending"} \union Late => tmp = << >>
                /\ pc[p] = "appending" => tmp \o todo[p] = output[p]
                /\ pc[p] \in Late => tmp = output[p]

\* What has been printed, and how much of it devices.c has taken.
Upto(n) == IF n <= Capacity THEN n ELSE Capacity

ReplyOK(p) ==
    /\ pc[p] \in Labels \ {"idle", "printing", "removing"} => sent[p] = 0 /\ reply[p] = << >>
    /\ pc[p] \in {"printing", "removing"} =>
           count[p] = Len(tmp) /\ reply[p] = SubSeq(tmp, 1, Upto(sent[p]))
    /\ pc[p] = "removing" => sent[p] = count[p]

Inv == TypeOK /\ \A p \in Procs : OptionOK(p) /\ OutputOK(p) /\ TmpOK(p) /\ ReplyOK(p)

LEMMA InitInv == Init => Inv
<1> SUFFICES ASSUME Init PROVE Inv
  OBVIOUS
<1> USE BoundAssumption, CapacityAssumption DEF Init
<1>1. TypeOK
  <2>1. << >> \in Seq(Nat) /\ << >> \in Seq(Line) /\ Len(<< >>) = 0 /\ 0 <= Capacity
    OBVIOUS
  <2>2. pc \in [Procs -> Labels] /\ option \in [Procs -> Options \union {"none"}]
    BY DEF Labels
  <2>3. /\ output \in [Procs -> Seq(Line)] /\ todo \in [Procs -> Seq(Line)] /\ reply \in [Procs -> Seq(Line)]
        /\ \A p \in Procs : reply[p] = << >>
    BY <2>1
  <2>4. count \in [Procs -> Nat] /\ sent \in [Procs -> Nat] /\ \A p \in Procs : sent[p] <= count[p]
    OBVIOUS
  <2>5. \A p \in Procs : Len(reply[p]) <= Capacity /\ sent[p] <= count[p]
    BY <2>1, <2>3, <2>4
  <2>6. appended \in 0..MaxEvents /\ requests \in 0..MaxRequests
    OBVIOUS
  <2>7. log \in Seq(Nat) /\ tmp \in Seq(Line) /\ delivered \in Seq(Nat) /\ missed \in BOOLEAN /\ left \in BOOLEAN
    BY <2>1
  <2> HIDE DEF Init
  <2> QED BY <2>2, <2>3, <2>4, <2>5, <2>6, <2>7 DEF TypeOK, Lines
<1>2. \A p \in Procs : OptionOK(p) /\ OutputOK(p) /\ TmpOK(p) /\ ReplyOK(p)
  BY DEF OptionOK, OutputOK, TmpOK, ReplyOK, Late, Labels
<1> QED BY <1>1, <1>2 DEF Inv

LEMMA AppendEventInv == ASSUME NEW p, Procs = {p}, Inv, AppendEvent PROVE Inv'
<1> USE DEF Inv, AppendEvent
<1>1. TypeOK'
  BY BoundAssumption DEF TypeOK, AppendTo
<1>2. OptionOK(p)' /\ TmpOK(p)' /\ ReplyOK(p)'
  BY DEF OptionOK, TmpOK, ReplyOK
<1>3. OutputOK(p)'
  <2>1. ASSUME pc[p] = "emptying" 
        PROVE \E n \in 0..Len(log') : output[p] = LinesOf("event", SubSeq(log', 1, n)) /\ missed'
    <3>1. PICK n \in 0..Len(log) : output[p] = LinesOf("event", SubSeq(log, 1, n))
      BY <2>1 DEF OutputOK
    <3>2. /\ log \in Seq(Nat) /\ log' = Append(log, appended') /\ appended' \in Nat /\ Len(log) \in Nat
          /\ Len(log') = Len(log) + 1 /\ \A i \in 1..Len(log) : log'[i] = log[i]
      BY DEF TypeOK, AppendTo
    <3>3. SubSeq(log', 1, n) = SubSeq(log, 1, n)
      <4> DEFINE longer == log'
      <4>1. longer = Append(log, appended') /\ log \in Seq(Nat) /\ appended' \in Nat /\ n \in 0..Len(log)
        BY <3>1, <3>2
      <4> HIDE DEF longer, Inv, AppendEvent
      <4>2. longer \in Seq(Nat) /\ Len(longer) = Len(log) + 1 /\ \A i \in 1..Len(log) : longer[i] = log[i]
        BY <4>1, AppendProperties
      <4>3. Len(log) <= Len(longer) /\ \A i \in 1..n : longer[i] = log[i]
        BY <4>1, <4>2
      <4>4. SubSeq(longer, 1, n) = SubSeq(log, 1, n)
        BY <4>1, <4>2, <4>3, SameStart
      <4> QED BY <4>4 DEF longer
    <3>4. n \in 0..Len(log')
      BY <3>2
    <3>5. missed'
      BY <2>1, Zenon
    <3> QED BY <3>1, <3>3, <3>4, <3>5
  <2> QED BY <2>1 DEF OutputOK
<1> QED BY <1>1, <1>2, <1>3

LEMMA RequestInv == ASSUME NEW p, Procs = {p}, Inv, NEW o \in Options, Request(p, o) PROVE Inv'
<1> USE DEF Inv, Request, Goto
<1>0. o \in {"--getudev", "--showlocaldisks", "--getparts"}
  BY OptionsAssumption
<1>1. /\ pc[p] = "idle" /\ pc' \in [Procs -> Labels] /\ pc'[p] = First[o]
      /\ First[o] = (IF o = "--getudev" THEN "reading" ELSE IF o = "--getparts" THEN "appending" ELSE "storing")
  BY <1>0 DEF TypeOK, Labels, First
<1>2. /\ output' \in [Procs -> Seq(Line)] /\ todo' \in [Procs -> Seq(Line)] /\ reply' \in [Procs -> Seq(Line)]
      /\ reply'[p] = << >> /\ sent'[p] = 0 /\ count'[p] = 0
      /\ o = "--getparts" => todo'[p] = LinesOf("part", Parts) /\ output'[p] = LinesOf("part", Parts)
  BY <1>0, AnswersType DEF TypeOK, Lines
<1>3. option' \in [Procs -> Options \union {"none"}] /\ option'[p] = o /\ requests' \in 0..MaxRequests
  BY BoundAssumption DEF TypeOK
<1>4. TypeOK'
  <2>1. \A q \in Procs : Len(reply'[q]) <= Capacity /\ sent'[q] <= count'[q]
    BY <1>2, CapacityAssumption
  <2>2. sent' \in [Procs -> Nat] /\ count' \in [Procs -> Nat]
    BY DEF TypeOK
  <2> QED BY <1>1, <1>2, <1>3, <2>1, <2>2 DEF TypeOK, Lines
<1>5. OptionOK(p)'
  BY <1>0, <1>1, <1>2, <1>3, AnswersType DEF OptionOK
<1>6. OutputOK(p)'
  BY <1>0, <1>1, <1>3 DEF OutputOK, Late
<1>7. TmpOK(p)'
  <2>1. ASSUME ~left PROVE tmp = << >>
    BY <1>1, <2>1 DEF TmpOK, Late
  <2>2. o = "--getparts" => << >> \o todo'[p] = output'[p]
    BY <1>2, AnswersType, ConcatEmptySeq
  <2> QED BY <1>0, <1>1, <2>1, <2>2 DEF TmpOK, Late
<1>8. ReplyOK(p)'
  BY <1>0, <1>1, <1>2 DEF ReplyOK
<1> QED BY <1>4, <1>5, <1>6, <1>7, <1>8

LEMMA ReadLogInv == ASSUME NEW p, Procs = {p}, Inv, ReadLog(p) PROVE Inv'
<1> USE DEF Inv, ReadLog, Goto
<1>0. log \in Seq(Nat) /\ "event" \in Kinds
  BY DEF TypeOK, Kinds
<1>1. LinesOf("event", log) \in Seq(Line) /\ Len(log) \in Nat /\ SubSeq(log, 1, Len(log)) = log
  BY <1>0, LinesOfType, SubSeqFull
<1>2. TypeOK'
  BY <1>1 DEF TypeOK, Labels, Lines
<1>3. pc[p] = "reading" /\ pc'[p] = "emptying" /\ output'[p] = LinesOf("event", log)
  BY DEF TypeOK
<1>4. OptionOK(p)' /\ TmpOK(p)' /\ ReplyOK(p)'
  BY <1>3 DEF OptionOK, TmpOK, ReplyOK, Late, Labels
<1>5. OutputOK(p)'
  <2> DEFINE all == SubSeq(log, 1, Len(log))
  <2>1. Len(log) \in 0..Len(log) /\ all = log
    BY <1>1
  <2> HIDE DEF all
  <2>2. output'[p] = LinesOf("event", all)
    BY <1>3, <2>1
  <2>3. log' = log /\ output'[p] = LinesOf("event", SubSeq(log', 1, Len(log))) /\ Len(log) = Len(log')
    BY <2>2 DEF all
  <2>4. \E n \in 0..Len(log') : /\ output'[p] = LinesOf("event", SubSeq(log', 1, n))
                                /\ ~missed' => n = Len(log')
    BY <2>1, <2>3, Zenon
  <2>5. ~(option'[p] = "--getudev" /\ pc'[p] \in {"storing"} \union Late)
    BY <1>3 DEF Late
  <2> HIDE DEF Inv, ReadLog, Goto
  <2> QED BY <2>4, <2>5 DEF OutputOK
<1> QED BY <1>2, <1>4, <1>5

LEMMA EmptyLogInv == ASSUME NEW p, Procs = {p}, Inv, EmptyLog(p) PROVE Inv'
<1> USE DEF Inv, EmptyLog, Goto
<1>1. TypeOK'
  BY DEF TypeOK, Labels
<1>2. pc[p] = "emptying" /\ pc'[p] = "storing"
  BY DEF TypeOK
<1>3. OptionOK(p)' /\ TmpOK(p)' /\ ReplyOK(p)'
  BY <1>2 DEF OptionOK, TmpOK, ReplyOK, Late, Labels
<1>4. OutputOK(p)'
  <2>1. PICK n \in 0..Len(log) : output[p] = LinesOf("event", SubSeq(log, 1, n))
    BY <1>2 DEF OutputOK
  <2>2. SubSeq(log, 1, n) \in Seq(Nat)
    BY FirstEvents DEF TypeOK
  <2> QED BY <1>2, <2>1, <2>2 DEF OutputOK
<1> QED BY <1>1, <1>3, <1>4

LEMMA StoreOutputInv == ASSUME NEW p, Procs = {p}, Inv, StoreOutput(p) PROVE Inv'
<1> USE DEF Inv, StoreOutput, Goto, Store
<1>0. Unknow \in Line /\ <<Unknow>> \in Seq(Line)
  BY DEF Unknow, Line
<1>1. /\ output' \in [Procs -> Seq(Line)] /\ tmp' = output'[p]
      /\ output'[p] = IF output[p] = << >> THEN <<Unknow>> ELSE output[p]
  BY <1>0 DEF TypeOK, Lines
<1>2. TypeOK'
  <2>1. tmp' \in Seq(Line)
    BY <1>1
  <2>2. pc' \in [Procs -> Labels]
    BY DEF TypeOK, Labels
  <2> QED BY <1>1, <2>1, <2>2 DEF TypeOK, Lines
<1>3. pc[p] = "storing" /\ pc'[p] = "counting" /\ ~left'
  BY DEF TypeOK
<1>4. OptionOK(p)' /\ TmpOK(p)' /\ ReplyOK(p)'
  BY <1>1, <1>3 DEF OptionOK, TmpOK, ReplyOK, Late, Labels
<1>5. OutputOK(p)'
  BY <1>1, <1>3 DEF OutputOK, Late
<1> QED BY <1>2, <1>4, <1>5

LEMMA AppendPartInv == ASSUME NEW p, Procs = {p}, Inv, AppendPart(p) PROVE Inv'
<1> USE DEF Inv, AppendPart, Goto
<1> DEFINE t == todo[p]
<1>0. /\ pc[p] = "appending" /\ option[p] = "--getparts" /\ t \in Seq(Line) /\ t # << >> /\ tmp \in Seq(Line)
      /\ pc'[p] = (IF Len(t) = 1 THEN "counting" ELSE "appending") /\ todo'[p] = Tail(t)
      /\ tmp' = Append(tmp, Head(t)) /\ option'[p] = "--getparts" /\ output'[p] = output[p] /\ left' = left
  BY DEF TypeOK, Lines, OptionOK
<1> HIDE DEF t
<1>1. /\ Head(t) \in Line /\ Tail(t) \in Seq(Line) /\ Len(t) \in Nat \ {0} /\ Len(Tail(t)) = Len(t) - 1
      /\ Append(tmp, Head(t)) \in Seq(Line)
  BY <1>0
<1>2. TypeOK'
  <2>1. pc' \in [Procs -> Labels] /\ todo' \in [Procs -> Seq(Line)]
    BY <1>0, <1>1 DEF TypeOK, Labels, Lines
  <2> QED BY <1>0, <1>1, <2>1 DEF TypeOK, Lines
<1>3. Append(tmp, Head(t)) \o Tail(t) = tmp \o t
  <2>1. t = <<Head(t)>> \o Tail(t) /\ <<Head(t)>> \in Seq(Line)
    BY <1>0, <1>1
  <2>2. Append(tmp, Head(t)) = tmp \o <<Head(t)>>
    BY <1>0, <1>1, AppendIsConcat
  <2> QED BY <1>0, <1>1, <2>1, <2>2, ConcatAssociative
<1>4. Len(t) = 1 <=> Tail(t) = << >>
  <2> DEFINE r == Tail(t)
  <2>1. r \in Seq(Line) /\ Len(r) = Len(t) - 1 /\ Len(t) \in Nat
    BY <1>1
  <2> HIDE DEF r
  <2>2. r = << >> <=> Len(r) = 0
    BY <2>1, EmptySeq
  <2> QED BY <2>1, <2>2 DEF r
<1>5. OptionOK(p)'
  BY <1>0, <1>4 DEF OptionOK
<1>6. OutputOK(p)' /\ ReplyOK(p)'
  BY <1>0 DEF OutputOK, ReplyOK, Labels, Late
<1>7. TmpOK(p)'
  <2>1. ASSUME ~left PROVE tmp \o t = output[p]
    BY <1>0, <2>1 DEF TmpOK, t
  <2>2. Len(t) = 1 => Append(tmp, Head(t)) = tmp \o t
    BY <1>1, <1>3, <1>4, ConcatEmptySeq
  <2> HIDE DEF Inv, AppendPart, Goto
  <2>3. ~left' => /\ Len(t) = 1 => tmp' = output'[p]
                  /\ Len(t) # 1 => tmp' \o todo'[p] = output'[p]
    BY <1>0, <1>3, <2>1, <2>2
  <2>4. CASE Len(t) = 1
    <3>1. pc'[p] = "counting"
      BY <1>0, <2>4
    <3>2. /\ pc'[p] \in Late /\ pc'[p] # "appending" /\ option'[p] = "--getparts"
          /\ ~left' => tmp' = output'[p]
      BY <1>0, <2>3, <2>4, <3>1 DEF Late
    <3> QED BY <3>2, Zenon DEF TmpOK, Late
  <2>5. CASE Len(t) # 1
    <3>1. pc'[p] = "appending"
      BY <1>0, <2>5
    <3>2. /\ pc'[p] = "appending" /\ pc'[p] \notin Late
      BY <1>0, <2>3, <2>5, <3>1 DEF Late
    <3> QED BY <2>3, <2>5, <3>2, Zenon DEF TmpOK, Late
  <2> QED BY <2>4, <2>5
<1> QED BY <1>2, <1>5, <1>6, <1>7

LEMMA CountLinesInv == ASSUME NEW p, Procs = {p}, Inv, CountLines(p) PROVE Inv'
<1> USE DEF Inv, CountLines, Goto
<1>0. /\ tmp \in Seq(Line) /\ Len(tmp) \in Nat
      /\ pc[p] = "counting" /\ pc'[p] = "printing" /\ count'[p] = Len(tmp)
      /\ sent[p] = 0 /\ reply[p] = << >> /\ SubSeq(tmp, 1, 0) = << >>
  BY DEF TypeOK, Lines, ReplyOK, Labels
<1>1. TypeOK'
  BY <1>0 DEF TypeOK, Labels, Lines
<1>2. OptionOK(p)' /\ OutputOK(p)' /\ TmpOK(p)'
  BY <1>0 DEF OptionOK, OutputOK, TmpOK, Late
<1>3. ReplyOK(p)'
  <2>1. Upto(0) = 0
    BY CapacityAssumption DEF Upto
  <2>2. reply'[p] = SubSeq(tmp', 1, Upto(sent'[p])) /\ count'[p] = Len(tmp')
    BY <1>0, <2>1
  <2> QED BY <1>0, <2>2 DEF ReplyOK
<1> QED BY <1>1, <1>2, <1>3

LEMMA PrintLineInv == ASSUME NEW p, Procs = {p}, Inv, PrintLine(p) PROVE Inv'
<1> USE CapacityAssumption DEF Inv, PrintLine, Goto
<1> DEFINE k == sent[p]
           r == reply[p]
<1>0. /\ pc[p] = "printing" /\ pc'[p] = "printing" /\ tmp \in Seq(Line) /\ k \in Nat /\ r \in Seq(Line)
      /\ count[p] = Len(tmp) /\ Len(tmp) \in Nat /\ r = SubSeq(tmp, 1, Upto(k)) /\ k < count[p]
      /\ sent'[p] = k + 1 /\ reply'[p] = Take(r, ReadLine(k + 1))
  BY DEF TypeOK, Lines, ReplyOK
<1> HIDE DEF k, r
<1>1. /\ k + 1 \in 1..Len(tmp) /\ tmp # << >> /\ Capacity \in Nat \ {0}
      /\ Upto(k) \in 0..k /\ Upto(k) <= Capacity
  BY <1>0 DEF Upto
<1>2. ReadLine(k + 1) = tmp[k + 1] /\ tmp[k + 1] \in Line
  BY <1>0, <1>1 DEF ReadLine
<1>3. Len(r) = Upto(k)
  BY <1>0, <1>1, <1>2
<1>4. reply'[p] = SubSeq(tmp, 1, Upto(k + 1))
  <2>1. CASE k < Capacity
    <3>1. Upto(k) = k /\ Upto(k + 1) = k + 1
      BY <1>0, <1>1, <2>1 DEF Upto
    <3>2. reply'[p] = Append(SubSeq(tmp, 1, k), tmp[k + 1])
      BY <1>0, <1>2, <1>3, <2>1, <3>1 DEF Take
    <3>3. SubSeq(tmp, 1, k + 1) = SubSeq(tmp, 1, k) \o <<tmp[k + 1]>>
      <4>1. SubSeq(tmp, 1, k + 1) = SubSeq(tmp, 1, (k + 1) - 1) \o <<tmp[k + 1]>>
        BY <1>0, <1>1, SubSeqRecursiveSecond
      <4> QED BY <1>0, <4>1
    <3>4. SubSeq(tmp, 1, k) \in Seq(Line)
      BY <1>0, <3>1
    <3> QED BY <1>2, <3>1, <3>2, <3>3, <3>4, AppendIsConcat
  <2>2. CASE ~(k < Capacity)
    <3>1. Upto(k) = Capacity /\ Upto(k + 1) = Capacity
      BY <1>0, <1>1, <2>2 DEF Upto
    <3>2. Take(r, ReadLine(k + 1)) = r
      BY <1>1, <1>3, <3>1 DEF Take
    <3> QED BY <1>0, <3>1, <3>2
  <2> QED BY <2>1, <2>2
<1>5. TypeOK'
  <2>1. Upto(k + 1) \in 0..Len(tmp) /\ Upto(k + 1) <= Capacity
    BY <1>0, <1>1 DEF Upto
  <2>2. SubSeq(tmp, 1, Upto(k + 1)) \in Seq(Line) /\ Len(SubSeq(tmp, 1, Upto(k + 1))) = Upto(k + 1)
    BY <1>0, <2>1
  <2>3. reply' \in [Procs -> Seq(Line)] /\ Len(reply'[p]) <= Capacity
    <3>1. reply'[p] \in Seq(Line) /\ Len(reply'[p]) <= Capacity
      BY <1>4, <2>1, <2>2
    <3>2. reply' = [reply EXCEPT ![p] = reply'[p]]
      BY DEF TypeOK
    <3> QED BY <3>1, <3>2 DEF TypeOK, Lines
  <2>4. sent' \in [Procs -> Nat] /\ sent'[p] <= count'[p]
    BY <1>0 DEF TypeOK
  <2>5. pc' \in [Procs -> Labels]
    BY DEF TypeOK, Labels
  <2> QED BY <2>3, <2>4, <2>5 DEF TypeOK, Lines
<1>6. OptionOK(p)' /\ OutputOK(p)' /\ TmpOK(p)'
  BY <1>0 DEF OptionOK, OutputOK, TmpOK, Late
<1>7. ReplyOK(p)'
  <2>1. reply'[p] = SubSeq(tmp', 1, Upto(sent'[p])) /\ count'[p] = Len(tmp')
    BY <1>0, <1>4
  <2> QED BY <1>0, <2>1 DEF ReplyOK
<1> QED BY <1>5, <1>6, <1>7

LEMMA AllPrintedInv == ASSUME NEW p, Procs = {p}, Inv, AllPrinted(p) PROVE Inv'
<1> USE DEF Inv, AllPrinted, Goto
<1>0. pc[p] = "printing" /\ pc'[p] = "removing"
  BY DEF TypeOK
<1>1. TypeOK'
  BY DEF TypeOK, Labels
<1>2. OptionOK(p)' /\ OutputOK(p)' /\ TmpOK(p)' /\ ReplyOK(p)'
  BY <1>0 DEF OptionOK, OutputOK, TmpOK, ReplyOK, Late
<1> QED BY <1>1, <1>2

\* The events in an answer to --getudev are the first of those that were taken from the log.
LEMMA EventsAnswered ==
    ASSUME NEW p, Procs = {p}, Inv, pc[p] \in {"printing", "removing"}, option[p] = "--getudev"
    PROVE  /\ Events(output[p]) \in Seq(Nat)
           /\ \E k \in 0..Len(Events(output[p])) : Events(reply[p]) = SubSeq(Events(output[p]), 1, k)
<1> DEFINE k == Upto(sent[p])
<1>1. /\ tmp = output[p] /\ tmp \in Seq(Line) /\ sent[p] \in Nat /\ sent[p] <= Len(tmp)
      /\ reply[p] = SubSeq(output[p], 1, k)
  BY DEF Inv, TypeOK, Lines, TmpOK, ReplyOK, Late
<1>2. k \in 0..Len(output[p])
  BY <1>1, CapacityAssumption DEF Upto
<1> HIDE DEF k
<1>3. output[p] = <<Unknow>> \/ \E s \in Seq(Nat) : output[p] = LinesOf("event", s)
  BY DEF Inv, OutputOK, Late
<1>4. CASE output[p] = <<Unknow>>
  <2>1. k = 0 \/ k = 1
    BY <1>2, <1>4
  <2>2. SubSeq(<<Unknow>>, 1, 0) = << >> /\ SubSeq(<<Unknow>>, 1, 1) = <<Unknow>>
    <3>1. <<Unknow>> \in Seq({Unknow}) /\ Len(<<Unknow>>) = 1
      OBVIOUS
    <3>2. SubSeq(<<Unknow>>, 1, Len(<<Unknow>>)) = <<Unknow>>
      BY <3>1, SubSeqFull
    <3> QED BY <3>1, <3>2
  <2>3. Events(output[p]) = << >> /\ Events(reply[p]) = << >>
    BY <1>1, <1>4, <2>1, <2>2, EventsOfNone
  <2>4. << >> \in Seq(Nat) /\ 0 \in 0..Len(<< >>) /\ SubSeq(<< >>, 1, 0) = << >>
    OBVIOUS
  <2> QED BY <2>3, <2>4
<1>5. ASSUME NEW s \in Seq(Nat), output[p] = LinesOf("event", s)
      PROVE  Events(output[p]) = s /\ k \in 0..Len(s) /\ Events(reply[p]) = SubSeq(s, 1, k)
  <2>1. Len(LinesOf("event", s)) = Len(s)
    BY LinesOfType DEF Kinds
  <2>2. k \in 0..Len(s)
    BY <1>2, <1>5, <2>1
  <2>3. reply[p] = LinesOf("event", SubSeq(s, 1, k)) /\ SubSeq(s, 1, k) \in Seq(Nat)
    BY <1>1, <1>5, <2>2, FirstEvents
  <2> QED BY <1>5, <2>2, <2>3, EventsOfEvents
<1> QED BY <1>3, <1>4, <1>5

LEMMA AnswerType ==
    ASSUME NEW p, Procs = {p}, Inv, pc[p] \in {"printing", "removing"}, Answer(p)
    PROVE  delivered' \in Seq(Nat) /\ missed' \in BOOLEAN
<1>0. delivered \in Seq(Nat) /\ missed \in BOOLEAN
  BY DEF Inv, TypeOK
<1>1. CASE option[p] = "--getudev"
  <2>1. delivered' = delivered \o Events(reply[p])
    BY <1>1 DEF Answer
  <2>2. missed' \in BOOLEAN
    BY <1>1, Zenon DEF Answer
  <2>3. PICK k \in 0..Len(Events(output[p])) : Events(reply[p]) = SubSeq(Events(output[p]), 1, k)
    BY <1>1, EventsAnswered
  <2>4. Events(output[p]) \in Seq(Nat)
    BY <1>1, EventsAnswered
  <2>5. SubSeq(Events(output[p]), 1, k) \in Seq(Nat)
    BY <2>4
  <2> QED BY <1>0, <2>1, <2>2, <2>3, <2>5
<1>2. CASE option[p] # "--getudev"
  BY <1>0, <1>2 DEF Answer
<1> QED BY <1>1, <1>2

LEMMA KilledInv == ASSUME NEW p, Procs = {p}, Inv, Killed(p) PROVE Inv'
<1> USE DEF Inv, Killed, Goto
<1>0. /\ pc[p] = "printing" /\ pc'[p] = "idle" /\ left' = TRUE
      /\ delivered' \in Seq(Nat) /\ missed' \in BOOLEAN
  BY AnswerType DEF TypeOK
<1>1. TypeOK'
  BY <1>0 DEF TypeOK, Labels
<1>2. OptionOK(p)' /\ OutputOK(p)' /\ TmpOK(p)' /\ ReplyOK(p)'
  BY <1>0 DEF OptionOK, OutputOK, TmpOK, ReplyOK, Late
<1> QED BY <1>1, <1>2

LEMMA RemoveTmpInv == ASSUME NEW p, Procs = {p}, Inv, RemoveTmp(p) PROVE Inv'
<1> USE DEF Inv, RemoveTmp, Goto
<1>0. /\ pc[p] = "removing" /\ pc'[p] = "idle" /\ tmp' = << >>
      /\ delivered' \in Seq(Nat) /\ missed' \in BOOLEAN
  BY AnswerType DEF TypeOK
<1>1. TypeOK'
  <2>1. << >> \in Seq(Line)
    OBVIOUS
  <2> QED BY <1>0, <2>1 DEF TypeOK, Labels, Lines
<1>2. OptionOK(p)' /\ OutputOK(p)' /\ TmpOK(p)' /\ ReplyOK(p)'
  BY <1>0 DEF OptionOK, OutputOK, TmpOK, ReplyOK, Late
<1> QED BY <1>1, <1>2

LEMMA StepInv == ASSUME NEW p, Procs = {p} PROVE Inv /\ [Next]_vars => Inv'
<1> SUFFICES ASSUME Inv, [Next]_vars PROVE Inv'
  OBVIOUS
<1>1. CASE UNCHANGED vars
  BY <1>1 DEF Inv, TypeOK, OptionOK, OutputOK, TmpOK, ReplyOK, vars
<1>2. CASE AppendEvent
  BY <1>2, AppendEventInv
<1>3. ASSUME NEW o \in Options, Request(p, o) PROVE Inv'
  BY <1>3, RequestInv
<1>4. CASE Script(p)
  BY <1>4, ReadLogInv, EmptyLogInv, StoreOutputInv, AppendPartInv, CountLinesInv, PrintLineInv,
     AllPrintedInv, KilledInv, RemoveTmpInv DEF Script
<1> QED BY <1>1, <1>2, <1>3, <1>4 DEF Next

LEMMA InvAlways == ASSUME NEW p, Procs = {p} PROVE Spec => []Inv
<1>1. Inv /\ [Next]_vars => Inv'
  BY StepInv
<1> QED BY <1>1, InitInv, PTL DEF Spec

\* One request at a time: the files and what is read of them are well typed, and an
\* answer fits the buffer of devices.c.
THEOREM TypeCorrect == ASSUME NEW p, Procs = {p} PROVE Spec => []TypeOK
<1>1. Spec => []Inv
  BY InvAlways
<1> QED BY <1>1, PTL DEF Inv

\* One request at a time: an answer is the beginning of the request's own output, unless a
\* killed script has left lines in the temporary file (devicesctl.sh:288).
THEOREM AnswersAreOwnAlways == ASSUME NEW p, Procs = {p} PROVE Spec => []AnswersAreOwn
<1>1. Inv => AnswersAreOwn
  <2> SUFFICES ASSUME Inv, pc[p] = "removing", ~left
               PROVE  reply[p] = SubSeq(output[p], 1, Min({Len(output[p]), Capacity}))
    BY DEF AnswersAreOwn
  <2>1. /\ tmp = output[p] /\ output[p] \in Seq(Line) /\ sent[p] = Len(tmp)
        /\ reply[p] = SubSeq(tmp, 1, Upto(sent[p]))
    BY DEF Inv, TypeOK, Lines, TmpOK, ReplyOK, Late
  <2>2. Len(output[p]) \in Nat /\ Capacity \in Nat
    BY <2>1, CapacityAssumption
  <2>3. Min({Len(output[p]), Capacity}) = Upto(Len(output[p]))
    BY <2>2, SmallestOfTwo DEF Upto
  <2> QED BY <2>1, <2>3
<1>2. Spec => []Inv
  BY InvAlways
<1> QED BY <1>1, <1>2, PTL
------------------------------------------------------------------------------
(* DeviceLog implements EventFeed. *)

\* The request has taken its lines from the log, and has not been answered.
Holds(p) == option[p] = "--getudev" /\ pc[p] \notin {"idle", "reading", "emptying"}

LEMMA TakenIs == ASSUME NEW p, Procs = {p}
                 PROVE  /\ Taken = IF Holds(p) THEN Events(output[p]) ELSE << >>
                        /\ Taken' = IF Holds(p)' THEN Events(output'[p]) ELSE << >>
<1>1. CASE Holds(p)
  BY <1>1 DEF Taken, Holds
<1>2. CASE ~Holds(p)
  BY <1>2 DEF Taken, Holds
<1>3. CASE Holds(p)'
  BY <1>3 DEF Taken, Holds
<1>4. CASE ~Holds(p)'
  BY <1>4 DEF Taken, Holds
<1>5. Taken = IF Holds(p) THEN Events(output[p]) ELSE << >>
  BY <1>1, <1>2 DEF Taken, Holds
<1>6. Taken' = IF Holds(p)' THEN Events(output'[p]) ELSE << >>
  BY <1>3, <1>4 DEF Taken, Holds
<1> QED BY <1>5, <1>6

LEMMA TakenType == ASSUME NEW p, Procs = {p}, Inv PROVE Taken \in Seq(Nat) /\ log \in Seq(Nat)
<1>1. << >> \in Seq(Nat) /\ log \in Seq(Nat)
  BY DEF Inv, TypeOK
<1>2. ASSUME Holds(p) PROVE Events(output[p]) \in Seq(Nat)
  <2>1. pc[p] \in {"storing"} \union Late
    BY <1>2 DEF Inv, TypeOK, Labels, Holds, Late, OptionOK
  <2>2. output[p] = <<Unknow>> \/ \E s \in Seq(Nat) : output[p] = LinesOf("event", s)
    BY <1>2, <2>1 DEF Inv, OutputOK, Holds
  <2> QED BY <1>1, <2>2, EventsOfNone, EventsOfEvents
<1> QED BY <1>1, <1>2, TakenIs

\* An event is posted.
LEMMA PostStep == ASSUME NEW p, Procs = {p}, Inv, AppendEvent PROVE Feed!Post
<1>1. /\ Taken \in Seq(Nat) /\ log \in Seq(Nat) /\ appended' = appended + 1 /\ appended' \in Nat
      /\ log' = Append(log, appended')
  <2>1. Taken \in Seq(Nat) /\ log \in Seq(Nat)
    BY TakenType
  <2>2. appended' = appended + 1 /\ appended' \in Nat /\ log' = Append(log, appended')
    BY BoundAssumption DEF AppendEvent, AppendTo, Inv, TypeOK
  <2> QED BY <2>1, <2>2
<1>2. Taken' = Taken
  BY TakenIs DEF AppendEvent, Holds
<1>3. Taken \o Append(log, appended') = Append(Taken \o log, appended')
  <2>1. /\ Append(log, appended') = log \o <<appended'>> /\ <<appended'>> \in Seq(Nat)
        /\ Append(Taken \o log, appended') = (Taken \o log) \o <<appended'>>
    BY <1>1, ConcatProperties, AppendIsConcat
  <2> DEFINE e == <<appended'>>
  <2>2. e \in Seq(Nat)
    BY <1>1
  <2> HIDE DEF e
  <2>3. (Taken \o log) \o e = Taken \o (log \o e)
    <3>1. \A s, t, u \in Seq(Nat) : (s \o t) \o u = s \o (t \o u)
      BY ConcatAssociative
    <3>2. Taken \in Seq(Nat) /\ log \in Seq(Nat)
      BY <1>1
    <3> QED BY <2>2, <3>1, <3>2, Zenon
  <2> QED BY <2>1, <2>3 DEF e
<1>4. missed' \in {missed, TRUE}
  <2>1. CASE pc[p] = "emptying"
    BY <2>1, Zenon DEF AppendEvent
  <2>2. CASE pc[p] # "emptying"
    <3>1. ~\E q \in Procs : pc[q] = "emptying"
      BY <2>2
    <3> QED BY <3>1 DEF AppendEvent, Inv, TypeOK
  <2> QED BY <2>1, <2>2
<1> QED BY <1>1, <1>2, <1>3, <1>4 DEF Feed!Post, AppendEvent

\* The log is emptied: what came after it was read is lost.
LEMMA EmptyStep == ASSUME NEW p, Procs = {p}, Inv, EmptyLog(p)
                   PROVE  Feed!Lose \/ UNCHANGED <<appended, Taken \o log, delivered, missed>>
<1>0. /\ pc[p] = "emptying" /\ pc'[p] = "storing" /\ option[p] = "--getudev" /\ log \in Seq(Nat)
      /\ option' = option /\ output' = output /\ log' = << >>
      /\ UNCHANGED <<appended, delivered, missed>>
  BY DEF Inv, TypeOK, EmptyLog, Goto, OptionOK
<1>1. PICK n \in 0..Len(log) : /\ output[p] = LinesOf("event", SubSeq(log, 1, n))
                               /\ ~missed => n = Len(log)
  BY <1>0 DEF Inv, OutputOK
<1>2. SubSeq(log, 1, n) \in Seq(Nat)
  BY <1>0, FirstEvents
<1>3. Taken = << >> /\ Taken' = SubSeq(log, 1, n)
  BY <1>0, <1>1, <1>2, TakenIs, EventsOfEvents DEF Holds
<1>4. Taken \o log = log /\ (Taken \o log)' = SubSeq(log, 1, n)
  BY <1>0, <1>2, <1>3, ConcatEmptySeq
<1>5. CASE missed
  <2>1. n \in 0..Len(Taken \o log) /\ (Taken \o log)' = SubSeq(Taken \o log, 1, n)
    BY <1>4
  <2> QED BY <1>0, <1>5, <2>1 DEF Feed!Lose, Feed!First
<1>6. CASE ~missed
  <2>1. SubSeq(log, 1, n) = log
    BY <1>0, <1>1, <1>6, SubSeqFull
  <2> QED BY <1>0, <1>4, <2>1
<1> QED BY <1>5, <1>6

\* A request is answered.
LEMMA AnswerStep ==
    ASSUME NEW p, Procs = {p}, Inv, Killed(p) \/ RemoveTmp(p)
    PROVE  Feed!Collect \/ UNCHANGED <<appended, Taken \o log, delivered, missed>>
<1>0. /\ pc[p] \in {"printing", "removing"} /\ pc'[p] = "idle" /\ Answer(p)
      /\ option' = option /\ output' = output /\ UNCHANGED <<appended, log>>
      /\ log \in Seq(Nat) /\ delivered \in Seq(Nat) /\ missed \in BOOLEAN
  BY DEF Inv, TypeOK, Killed, RemoveTmp, Goto
<1>1. Taken' = << >> /\ (Taken \o log)' = log
  BY <1>0, TakenIs, ConcatEmptySeq DEF Holds
<1>2. CASE option[p] # "--getudev"
  <2>1. Taken = << >>
    BY <1>2, TakenIs DEF Holds
  <2>2. Taken \o log = log
    BY <1>0, <2>1, ConcatEmptySeq
  <2> QED BY <1>0, <1>1, <1>2, <2>2 DEF Answer
<1>3. CASE option[p] = "--getudev"
  <2> DEFINE all == Events(output[p])
             got == Events(reply[p])
  <2>1. /\ all \in Seq(Nat) /\ Taken = all
        /\ delivered' = delivered \o got /\ missed' = (missed \/ got # all)
    BY <1>0, <1>3, TakenIs, EventsAnswered DEF Answer, Holds
  <2>2. PICK k \in 0..Len(all) : got = SubSeq(all, 1, k)
    BY <1>0, <1>3, EventsAnswered
  <2> HIDE DEF all, got
  <2>3. Len(all) \in Nat /\ k \in Nat /\ k <= Len(all) /\ Len(got) = k
    BY <2>1, <2>2
  <2>4. CASE all = << >>
    <3>1. got = << >>
      BY <2>1, <2>2, <2>4
    <3>2. delivered' = delivered /\ missed' = missed
      BY <1>0, <2>1, <2>4, <3>1, ConcatEmptySeq
    <3>3. Taken \o log = log
      BY <1>0, <2>1, <2>4, ConcatEmptySeq
    <3> QED BY <1>0, <1>1, <3>2, <3>3
  <2>5. CASE all # << >>
    <3> DEFINE pending == Taken \o log
               m == Len(all)
    <3>1. /\ pending = all \o log /\ pending \in Seq(Nat) /\ Len(pending) = m + Len(log)
          /\ Len(log) \in Nat /\ m \in Nat \ {0}
      BY <1>0, <2>1, <2>3, <2>5, EmptySeq, ConcatProperties
    <3>2. got = SubSeq(pending, 1, k)
      <4>1. \A i \in 1..k : (all \o log)[i] = all[i]
        BY <1>0, <2>1, <2>3
      <4> QED BY <2>1, <2>2, <2>3, <3>1, <4>1, SameStart
    <3>3. log = SubSeq(pending, m + 1, Len(pending))
      <4> DEFINE rest == SubSeq(pending, m + 1, Len(pending))
      <4>1. /\ rest \in Seq(Nat) /\ Len(rest) = Len(log)
            /\ \A i \in 1..Len(log) : rest[i] = pending[m + i]
        <5> DEFINE n == Len(pending)
        <5>1. m + 1 \in Int /\ n \in Int /\ n = m + Len(log) /\ \A i \in (m + 1)..n : pending[i] \in Nat
          BY <3>1
        <5> HIDE DEF n, m, pending
        <5>2. /\ SubSeq(pending, m + 1, n) \in Seq(Nat)
              /\ Len(SubSeq(pending, m + 1, n)) = IF m + 1 <= n THEN n - (m + 1) + 1 ELSE 0
              /\ \A i \in 1..(n - (m + 1) + 1) : SubSeq(pending, m + 1, n)[i] = pending[(m + 1) + i - 1]
          BY <5>1, SubSeqProperties
        <5>3. n - (m + 1) + 1 = Len(log) /\ \A i \in 1..Len(log) : (m + 1) + i - 1 = m + i
          BY <3>1, <5>1
        <5>4. rest = SubSeq(pending, m + 1, n)
          BY DEF n
        <5>5. Len(log) = 0 => ~(m + 1 <= n)
          BY <3>1, <5>1 DEF m
        <5>6. Len(SubSeq(pending, m + 1, n)) = Len(log)
          BY <3>1, <5>1, <5>2, <5>3, <5>5
        <5> HIDE DEF rest
        <5> QED BY <5>2, <5>3, <5>4, <5>6
      <4>2. \A i \in 1..Len(log) : pending[m + i] = log[i]
        BY <1>0, <2>1, <3>1
      <4> HIDE DEF rest, pending
      <4>3. rest = log
        BY <1>0, <4>1, <4>2, SeqEqual
      <4> QED BY <4>3 DEF rest
    <3>4. missed' = (missed \/ k < m)
      <4>1. k = m => got = all
        BY <2>1, <2>2, SubSeqFull
      <4>2. k < m => got # all
        BY <2>3
      <4>3. k = m \/ k < m
        BY <2>3
      <4> HIDE DEF m
      <4> QED BY <2>1, <4>1, <4>2, <4>3, Zenon
    <3>5. m \in 1..Len(pending) /\ k \in 0..m
      BY <2>3, <3>1
    <3> HIDE DEF m
    <3> QED BY <1>0, <1>1, <2>1, <3>2, <3>3, <3>4, <3>5 DEF Feed!Collect, Feed!First, Feed!From
  <2> QED BY <2>4, <2>5
<1> QED BY <1>2, <1>3

\* Steps that neither take from the log nor answer.
LEMMA QuietStep ==
    ASSUME NEW p, Procs = {p}, Inv,
           \/ \E o \in Options : Request(p, o)
           \/ ReadLog(p) \/ StoreOutput(p) \/ AppendPart(p) \/ CountLines(p) \/ PrintLine(p) \/ AllPrinted(p)
    PROVE  UNCHANGED <<appended, Taken \o log, delivered, missed>>
<1>1. UNCHANGED <<appended, log, delivered, missed>>
  BY DEF Request, ReadLog, StoreOutput, AppendPart, CountLines, PrintLine, AllPrinted
<1>2. ASSUME NEW o \in Options, Request(p, o) PROVE Taken' = Taken
  <2>1. pc[p] = "idle" /\ pc'[p] = First[o] /\ option'[p] = o
    BY <1>2 DEF Request, Goto, Inv, TypeOK
  <2>2. o = "--getudev" => First[o] = "reading"
    BY OptionsAssumption DEF First
  <2> QED BY <2>1, <2>2, TakenIs DEF Holds
<1>3. CASE ReadLog(p)
  <2>1. pc[p] = "reading" /\ pc'[p] = "emptying"
    BY <1>3 DEF ReadLog, Goto, Inv, TypeOK
  <2> QED BY <1>1, <2>1, TakenIs DEF Holds
<1>4. CASE StoreOutput(p)
  <2>1. /\ pc[p] = "storing" /\ pc'[p] = "counting" /\ option' = option
        /\ output'[p] = IF output[p] = << >> THEN <<Unknow>> ELSE output[p]
    BY <1>4 DEF StoreOutput, Goto, Inv, TypeOK
  <2>2. Events(output'[p]) = Events(output[p])
    BY <2>1, EventsOfNone
  <2> QED BY <1>1, <2>1, <2>2, TakenIs DEF Holds
<1>5. CASE AppendPart(p)
  <2>1. option[p] = "--getparts" /\ option' = option
    BY <1>5 DEF AppendPart, Goto, Inv, OptionOK
  <2> QED BY <1>1, <2>1, TakenIs DEF Holds
<1>6. CASE CountLines(p) \/ PrintLine(p) \/ AllPrinted(p)
  <2>1. /\ pc[p] \in Late /\ pc'[p] \in Late /\ option' = option /\ output' = output
    BY <1>6 DEF CountLines, PrintLine, AllPrinted, Goto, Inv, TypeOK, Late
  <2> QED BY <1>1, <2>1, TakenIs DEF Holds, Late
<1> QED BY <1>1, <1>2, <1>3, <1>4, <1>5, <1>6

LEMMA FeedStep == ASSUME NEW p, Procs = {p} PROVE Inv /\ [Next]_vars => [Feed!Next]_(Feed!vars)
<1> SUFFICES ASSUME Inv, [Next]_vars
             PROVE  Feed!Next \/ UNCHANGED <<appended, Taken \o log, delivered, missed>>
  BY DEF Feed!vars
<1>1. CASE UNCHANGED vars
  <2>1. Taken' = Taken
    <3>1. option' = option /\ pc' = pc /\ output' = output
      BY <1>1 DEF vars
    <3> QED BY <3>1, TakenIs DEF Holds
  <2> QED BY <1>1, <2>1 DEF vars
<1>2. CASE AppendEvent
  BY <1>2, PostStep DEF Feed!Next
<1>3. ASSUME NEW o \in Options, Request(p, o) PROVE UNCHANGED <<appended, Taken \o log, delivered, missed>>
  BY <1>3, QuietStep
<1>4. CASE Script(p)
  BY <1>4, QuietStep, EmptyStep, AnswerStep DEF Script, Feed!Next
<1> QED BY <1>1, <1>2, <1>3, <1>4 DEF Next

LEMMA FeedInit == ASSUME NEW p, Procs = {p} PROVE Init => Feed!Init
<1> SUFFICES ASSUME Init PROVE Feed!Init
  OBVIOUS
<1>1. Taken = << >> /\ log = << >>
  BY TakenIs DEF Init, Holds
<1>2. Taken \o log = << >>
  BY <1>1
<1> QED BY <1>2 DEF Init, Feed!Init

\* One request at a time: whatever is killed or cut off, an event is delivered at most once,
\* in order, and lost only if it came between the two commands of --getudev
\* (devicesctl.sh:110) or did not fit the buffer of devices.c.
THEOREM FeedImplemented == ASSUME NEW p, Procs = {p} PROVE Spec => ImplementsFeed
<1>1. Spec => []Inv
  BY InvAlways
<1>2. Init => Feed!Init
  BY FeedInit
<1>3. Inv /\ [Next]_vars => [Feed!Next]_(Feed!vars)
  BY FeedStep
<1> QED BY <1>1, <1>2, <1>3, PTL DEF Spec, ImplementsFeed, Feed!Spec

------------------------------------------------------------------------------
(***************************************************************************)
(* The promise of EventFeed, for the two sequences one after the other     *)
(* instead of their concatenation: what a step appends or drops is at an   *)
(* end of one of them.  num, wait, gone and lost stand for the variables   *)
(* posted, pending, delivered and missed of EventFeed.                     *)
(***************************************************************************)
FeedTypes(num, wait, gone, lost) == /\ num  \in Nat
                                    /\ wait \in Seq(Nat)
                                    /\ gone \in Seq(Nat)
                                    /\ lost \in BOOLEAN

Ordered(s) == \A i, j \in 1..Len(s) : i < j => s[i] < s[j]

AllThere(num, wait, gone) == /\ Len(gone) + Len(wait) = num
                             /\ \A i \in 1..Len(gone) : gone[i] = i
                             /\ \A j \in 1..Len(wait) : wait[j] = Len(gone) + j

InOrder(num, wait, gone) == /\ Ordered(gone)
                            /\ Ordered(wait)
                            /\ \A i \in 1..Len(gone), j \in 1..Len(wait) : gone[i] < wait[j]
                            /\ \A i \in 1..Len(gone) : gone[i] <= num
                            /\ \A j \in 1..Len(wait) : wait[j] <= num

FeedInv(num, wait, gone, lost) == /\ FeedTypes(num, wait, gone, lost)
                                  /\ InOrder(num, wait, gone)
                                  /\ ~lost => AllThere(num, wait, gone)

\* The three steps of EventFeed, from one state to the next.
Posts(num, wait, gone, lost, num2, wait2, gone2, lost2) ==
    /\ num2  = num + 1
    /\ wait2 = Append(wait, num2)
    /\ lost2 \in {lost, TRUE}
    /\ gone2 = gone

Collects(num, wait, gone, lost, num2, wait2, gone2, lost2) ==
    \E m \in 1..Len(wait) : \E n \in 0..m :
        /\ gone2 = gone \o SubSeq(wait, 1, n)
        /\ wait2 = SubSeq(wait, m + 1, Len(wait))
        /\ lost2 = (lost \/ n < m)
        /\ num2  = num

Loses(num, wait, gone, lost, num2, wait2, gone2, lost2) ==
    /\ lost
    /\ \E n \in 0..Len(wait) : wait2 = SubSeq(wait, 1, n)
    /\ num2 = num /\ gone2 = gone /\ lost2 = lost

\* A subsequence is a shift of its sequence.
LEMMA SubSeqShift ==
    ASSUME NEW s \in Seq(Nat), NEW a \in Nat \ {0}, NEW b \in 0..Len(s), a <= b + 1
    PROVE  /\ SubSeq(s, a, b) \in Seq(Nat)
           /\ Len(SubSeq(s, a, b)) = b + 1 - a
           /\ \A i \in 1..(b + 1 - a) : /\ SubSeq(s, a, b)[i] = s[a + i - 1]
                                        /\ a + i - 1 \in 1..Len(s)
OBVIOUS

\* A concatenation is the one sequence and, after it, the other.
LEMMA ConcatFacts ==
    ASSUME NEW s \in Seq(Nat), NEW t \in Seq(Nat)
    PROVE  /\ s \o t \in Seq(Nat)
           /\ Len(s \o t) = Len(s) + Len(t)
           /\ \A i \in 1..Len(s) : (s \o t)[i] = s[i]
           /\ \A i \in (Len(s) + 1)..(Len(s) + Len(t)) :
                  /\ (s \o t)[i] = t[i - Len(s)]
                  /\ i - Len(s) \in 1..Len(t)
OBVIOUS

\* Two ordered sequences, one below the other, are ordered one after the other.
LEMMA OrderedConcat ==
    ASSUME NEW s \in Seq(Nat), NEW t \in Seq(Nat), Ordered(s), Ordered(t),
           \A i \in 1..Len(s), j \in 1..Len(t) : s[i] < t[j]
    PROVE  Ordered(s \o t)
<1> DEFINE c == s \o t
<1> SUFFICES ASSUME NEW i \in 1..Len(c), NEW j \in 1..Len(c), i < j
             PROVE  c[i] < c[j]
  BY DEF Ordered
<1>1. /\ Len(s) \in Nat /\ Len(t) \in Nat /\ Len(c) = Len(s) + Len(t)
      /\ \A k \in 1..Len(s) : c[k] = s[k]
      /\ \A k \in (Len(s) + 1)..(Len(s) + Len(t)) :
             c[k] = t[k - Len(s)] /\ k - Len(s) \in 1..Len(t)
  BY ConcatFacts
<1> HIDE DEF c
<1>2. i \in Nat /\ j \in Nat
  BY <1>1
<1>3. CASE j <= Len(s)
  <2>1. i \in 1..Len(s) /\ j \in 1..Len(s)
    BY <1>1, <1>2, <1>3
  <2> QED BY <1>1, <2>1 DEF Ordered
<1>4. CASE i <= Len(s) /\ j > Len(s)
  <2>1. i \in 1..Len(s) /\ j \in (Len(s) + 1)..(Len(s) + Len(t))
    BY <1>1, <1>2, <1>4
  <2> QED BY <1>1, <2>1
<1>5. CASE i > Len(s)
  <2>1. /\ i \in (Len(s) + 1)..(Len(s) + Len(t)) /\ j \in (Len(s) + 1)..(Len(s) + Len(t))
        /\ i - Len(s) < j - Len(s)
    BY <1>1, <1>2, <1>5
  <2> QED BY <1>1, <2>1 DEF Ordered
<1> QED BY <1>1, <1>2, <1>3, <1>4, <1>5

\* Posting keeps the invariant: a new number is larger than all others.
LEMMA PostKeeps ==
    ASSUME NEW num, NEW wait, NEW gone, NEW lost, NEW num2, NEW wait2, NEW gone2, NEW lost2,
           FeedInv(num, wait, gone, lost),
           Posts(num, wait, gone, lost, num2, wait2, gone2, lost2)
    PROVE  FeedInv(num2, wait2, gone2, lost2)
<1>1. /\ num \in Nat /\ wait \in Seq(Nat) /\ gone \in Seq(Nat)
      /\ num2 = num + 1 /\ wait2 = Append(wait, num + 1)
      /\ gone2 = gone
  BY DEF Posts, FeedInv, FeedTypes
<1>2. /\ wait2 \in Seq(Nat) /\ Len(wait2) = Len(wait) + 1
      /\ \A j \in 1..Len(wait) : wait2[j] = wait[j]
      /\ wait2[Len(wait) + 1] = num + 1
  BY <1>1
<1>3. lost2 \in BOOLEAN /\ (~lost2 => ~lost)
  BY DEF Posts, FeedInv, FeedTypes
<1>4. FeedTypes(num2, wait2, gone2, lost2)
  BY <1>1, <1>2, <1>3 DEF FeedTypes
<1>5. InOrder(num2, wait2, gone2)
  <2>1. InOrder(num, wait, gone)
    BY DEF FeedInv
  <2>2. \A i \in 1..Len(wait2) : \/ i \in 1..Len(wait) /\ wait2[i] = wait[i]
                                 \/ i = Len(wait) + 1 /\ wait2[i] = num + 1
    BY <1>1, <1>2
  <2>3. Ordered(wait2)
    <3> SUFFICES ASSUME NEW i \in 1..Len(wait2), NEW j \in 1..Len(wait2), i < j
                 PROVE  wait2[i] < wait2[j]
      BY DEF Ordered
    <3>1. i \in 1..Len(wait) /\ wait2[i] = wait[i] /\ wait[i] \in Nat
      BY <1>1, <1>2, <2>2
    <3> QED BY <1>1, <2>1, <2>2, <3>1 DEF InOrder, Ordered
  <2>4. Ordered(gone2)
    BY <1>1, <2>1 DEF InOrder, Ordered
  <2>5. \A i \in 1..Len(gone2) : gone2[i] <= num2 /\ gone2[i] < num + 1
    BY <1>1, <2>1 DEF InOrder
  <2>6. \A i \in 1..Len(gone2), j \in 1..Len(wait2) : gone2[i] < wait2[j]
    BY <1>1, <2>1, <2>2, <2>5 DEF InOrder
  <2>7. \A j \in 1..Len(wait2) : wait2[j] <= num2
    BY <1>1, <2>1, <2>2 DEF InOrder
  <2> QED BY <2>3, <2>4, <2>5, <2>6, <2>7 DEF InOrder
<1>6. ASSUME AllThere(num, wait, gone) PROVE AllThere(num2, wait2, gone2)
  <2>1. Len(wait) \in Nat /\ Len(gone) \in Nat /\ Len(gone) + Len(wait) = num
    BY <1>1, <1>6 DEF AllThere
  <2>2. \A i \in 1..Len(gone2) : gone2[i] = i
    BY <1>1, <1>6 DEF AllThere
  <2>3. ASSUME NEW j \in 1..Len(wait2) PROVE wait2[j] = Len(gone2) + j
    <3>1. j \in 1..Len(wait) \/ j = Len(wait) + 1
      BY <1>2, <2>1
    <3>2. CASE j \in 1..Len(wait)
      BY <1>1, <1>2, <1>6, <3>2 DEF AllThere
    <3>3. CASE j = Len(wait) + 1
      <4>1. wait2[j] = num + 1
        BY <1>2, <3>3
      <4>2. num + 1 = Len(gone2) + (Len(wait) + 1)
        <5>1. Len(gone2) = Len(gone)
          BY <1>1
        <5> QED BY <2>1, <5>1
      <4> QED BY <3>3, <4>1, <4>2
    <3> QED BY <3>1, <3>2, <3>3
  <2>4. Len(gone2) + Len(wait2) = num2
    <3>1. Len(gone2) = Len(gone) /\ Len(wait2) = Len(wait) + 1 /\ num2 = num + 1
      BY <1>1, <1>2
    <3> QED BY <2>1, <3>1
  <2> QED BY <2>2, <2>3, <2>4 DEF AllThere
<1> QED BY <1>3, <1>4, <1>5, <1>6 DEF FeedInv

\* Losing keeps the invariant.
LEMMA LoseKeeps ==
    ASSUME NEW num, NEW wait, NEW gone, NEW lost, NEW num2, NEW wait2, NEW gone2, NEW lost2,
           FeedInv(num, wait, gone, lost),
           Loses(num, wait, gone, lost, num2, wait2, gone2, lost2)
    PROVE  FeedInv(num2, wait2, gone2, lost2)
<1>1. PICK n \in 0..Len(wait) : wait2 = SubSeq(wait, 1, n)
  BY DEF Loses
<1>2. /\ num \in Nat /\ wait \in Seq(Nat) /\ gone \in Seq(Nat)
      /\ num2 = num /\ gone2 = gone
  BY DEF Loses, FeedInv, FeedTypes
<1>3. /\ wait2 \in Seq(Nat) /\ Len(wait2) = n
      /\ \A j \in 1..n : wait2[j] = wait[j] /\ j \in 1..Len(wait)
  BY <1>1, <1>2
<1>4. lost2 /\ lost2 \in BOOLEAN
  BY DEF Loses, FeedInv, FeedTypes
<1>5. InOrder(num2, wait2, gone2)
  <2>1. InOrder(num, wait, gone)
    BY DEF FeedInv
  <2> QED BY <1>1, <1>2, <1>3, <2>1 DEF InOrder, Ordered
<1>6. FeedTypes(num2, wait2, gone2, lost2)
  BY <1>2, <1>3, <1>4 DEF FeedTypes
<1> QED BY <1>4, <1>5, <1>6 DEF FeedInv

\* Collecting keeps the invariant: what is delivered comes before what is left.
LEMMA CollectKeeps ==
    ASSUME NEW num, NEW wait, NEW gone, NEW lost, NEW num2, NEW wait2, NEW gone2, NEW lost2,
           FeedInv(num, wait, gone, lost),
           Collects(num, wait, gone, lost, num2, wait2, gone2, lost2)
    PROVE  FeedInv(num2, wait2, gone2, lost2)
<1>1. PICK m \in 1..Len(wait) : \E n \in 0..m :
          /\ gone2 = gone \o SubSeq(wait, 1, n)
          /\ wait2 = SubSeq(wait, m + 1, Len(wait))
          /\ lost2 = (lost \/ n < m)
          /\ num2 = num
  BY DEF Collects
<1>2. PICK n \in 0..m : /\ gone2 = gone \o SubSeq(wait, 1, n)
                        /\ wait2 = SubSeq(wait, m + 1, Len(wait))
                        /\ lost2 = (lost \/ n < m)
                        /\ num2 = num
  BY <1>1
<1> DEFINE out == SubSeq(wait, 1, n)
<1>3. /\ num \in Nat /\ wait \in Seq(Nat) /\ gone \in Seq(Nat)
      /\ num2 = num /\ gone2 = gone \o out
      /\ wait2 = SubSeq(wait, m + 1, Len(wait))
  BY <1>2 DEF FeedInv, FeedTypes
<1>4. /\ out \in Seq(Nat) /\ Len(out) = n
      /\ \A j \in 1..n : out[j] = wait[j] /\ j \in 1..Len(wait)
  <2>1. Len(wait) \in Nat /\ n \in 0..Len(wait) /\ 1 \in Nat \ {0} /\ 1 <= n + 1 /\ n + 1 - 1 = n
    BY <1>3
  <2>2. /\ out \in Seq(Nat) /\ Len(out) = n + 1 - 1
        /\ \A j \in 1..(n + 1 - 1) : out[j] = wait[1 + j - 1] /\ 1 + j - 1 \in 1..Len(wait)
    BY <1>3, <2>1, SubSeqShift
  <2>3. \A j \in 1..n : 1 + j - 1 = j
    BY <2>1
  <2> HIDE DEF out
  <2> QED BY <2>1, <2>2, <2>3
<1>5. /\ wait2 \in Seq(Nat) /\ Len(wait2) = Len(wait) - m
      /\ \A j \in 1..(Len(wait) - m) :
             wait2[j] = wait[m + j] /\ m + j \in 1..Len(wait)
  <2>1. /\ Len(wait) \in Nat /\ m + 1 \in Nat \ {0}
        /\ Len(wait) \in 0..Len(wait) /\ m + 1 <= Len(wait) + 1
    BY <1>3
  <2> DEFINE rest == SubSeq(wait, m + 1, Len(wait))
  <2>2. /\ rest \in Seq(Nat) /\ Len(rest) = Len(wait) + 1 - (m + 1)
        /\ \A j \in 1..(Len(wait) + 1 - (m + 1)) :
               rest[j] = wait[(m + 1) + j - 1] /\ (m + 1) + j - 1 \in 1..Len(wait)
    BY <1>3, <2>1, SubSeqShift
  <2> HIDE DEF rest
  <2>3. Len(wait) + 1 - (m + 1) = Len(wait) - m
    BY <2>1
  <2>4. \A j \in 1..(Len(wait) - m) : (m + 1) + j - 1 = m + j
    BY <2>1
  <2>5. wait2 = rest
    BY <1>3 DEF rest
  <2> QED BY <2>2, <2>3, <2>4, <2>5
<1>6. /\ gone2 \in Seq(Nat) /\ Len(gone2) = Len(gone) + n
      /\ \A i \in 1..Len(gone) : gone2[i] = gone[i]
      /\ \A i \in (Len(gone) + 1)..(Len(gone) + n) :
             /\ gone2[i] = wait[i - Len(gone)]
             /\ i - Len(gone) \in 1..n /\ i - Len(gone) \in 1..Len(wait)
  <2> HIDE DEF out
  <2> QED BY <1>3, <1>4, ConcatFacts
<1>7. lost2 \in BOOLEAN /\ (~lost2 => ~lost /\ ~(n < m))
  BY <1>2 DEF FeedInv, FeedTypes
<1>8. FeedTypes(num2, wait2, gone2, lost2)
  BY <1>3, <1>5, <1>6, <1>7 DEF FeedTypes
<1>9. InOrder(num2, wait2, gone2)
  <2>1. InOrder(num, wait, gone)
    BY DEF FeedInv
  <2>2. Ordered(gone2)
    <3>1. Ordered(gone) /\ Ordered(out)
      BY <1>3, <1>4, <2>1 DEF InOrder, Ordered
    <3>2. \A i \in 1..Len(gone), j \in 1..Len(out) : gone[i] < out[j]
      BY <1>4, <2>1 DEF InOrder
    <3>3. Ordered(gone \o out)
      BY <1>3, <1>4, <3>1, <3>2, OrderedConcat
    <3> QED BY <1>3, <3>3 DEF Ordered
  <2>3. Ordered(wait2)
    BY <1>3, <1>5, <2>1 DEF InOrder, Ordered
  <2>4. \A i \in 1..Len(gone2), j \in 1..Len(wait2) : gone2[i] < wait2[j]
    <3> SUFFICES ASSUME NEW i \in 1..Len(gone2), NEW j \in 1..Len(wait2)
                 PROVE  gone2[i] < wait2[j]
      OBVIOUS
    <3>1. /\ wait2[j] = wait[m + j] /\ m + j \in 1..Len(wait)
          /\ j \in Nat \ {0} /\ i \in 1..(Len(gone) + n)
      <4>1. Len(wait) \in Nat /\ Len(gone) \in Nat
        BY <1>3
      <4>2. j \in 1..(Len(wait) - m)
        BY <1>5
      <4>3. i \in 1..(Len(gone) + n)
        BY <1>6
      <4> QED BY <4>1, <4>2, <4>3, <1>5
    <3>2. CASE i <= Len(gone)
      <4>1. i \in 1..Len(gone) /\ gone2[i] = gone[i]
        BY <1>3, <1>6, <3>1, <3>2
      <4> QED BY <3>1, <4>1, <2>1 DEF InOrder
    <3>3. CASE i > Len(gone)
      <4>1. /\ gone2[i] = wait[i - Len(gone)]
            /\ i - Len(gone) \in 1..n /\ i - Len(gone) \in 1..Len(wait)
        <5>1. i \in (Len(gone) + 1)..(Len(gone) + n)
          BY <3>1, <3>3, <1>3
        <5> QED BY <5>1, <1>6
      <4>2. i - Len(gone) < m + j
        BY <4>1, <3>1, <1>3
      <4> QED BY <3>1, <4>1, <4>2, <2>1 DEF InOrder, Ordered
    <3>4. Len(gone) \in Nat /\ i \in Nat
      <4>1. Len(gone) \in Nat /\ n \in Nat
        BY <1>3
      <4> QED BY <3>1, <4>1
    <3> QED BY <3>2, <3>3, <3>4
  <2>5. \A i \in 1..Len(gone2) : gone2[i] <= num2
    <3> SUFFICES ASSUME NEW i \in 1..Len(gone2) PROVE gone2[i] <= num2
      OBVIOUS
    <3>1. Len(gone) \in Nat /\ n \in Nat /\ i \in 1..(Len(gone) + n)
      BY <1>3, <1>6
    <3>2. CASE i <= Len(gone)
      <4>1. i \in 1..Len(gone)
        BY <3>1, <3>2
      <4> QED BY <4>1, <1>3, <1>6, <2>1 DEF InOrder
    <3>3. CASE i > Len(gone)
      <4>1. i \in (Len(gone) + 1)..(Len(gone) + n)
        BY <3>1, <3>3
      <4> QED BY <4>1, <1>3, <1>6, <2>1 DEF InOrder
    <3> QED BY <3>1, <3>2, <3>3
  <2>6. \A j \in 1..Len(wait2) : wait2[j] <= num2
    BY <1>3, <1>5, <2>1 DEF InOrder
  <2> QED BY <2>2, <2>3, <2>4, <2>5, <2>6 DEF InOrder
<1>10. AllThere(num, wait, gone) /\ ~(n < m) => AllThere(num2, wait2, gone2)
  <2> SUFFICES ASSUME AllThere(num, wait, gone), ~(n < m) PROVE AllThere(num2, wait2, gone2)
    OBVIOUS
  <2>1. n = m /\ n \in Nat /\ Len(gone) \in Nat /\ Len(wait) \in Nat
    BY <1>3
  <2>2. Len(gone2) + Len(wait2) = num2
    <3>1. Len(gone) + Len(wait) = num
      BY DEF AllThere
    <3>2. /\ Len(gone2) = Len(gone) + n
          /\ Len(wait2) = Len(wait) - m
      BY <1>5, <1>6
    <3>3. Len(gone2) + Len(wait2) = num
      BY <3>1, <3>2, <2>1
    <3> QED BY <3>3, <1>3
  <2>3. ASSUME NEW i \in 1..Len(gone2) PROVE gone2[i] = i
    <3>1. CASE i <= Len(gone)
      <4>1. i \in 1..Len(gone)
        BY <2>1, <3>1, <1>6
      <4> QED BY <4>1, <1>6 DEF AllThere
    <3>2. CASE i > Len(gone)
      <4>1. /\ gone2[i] = wait[i - Len(gone)]
            /\ i - Len(gone) \in 1..Len(wait)
        BY <1>6, <2>1, <3>2
      <4>2. gone2[i] = Len(gone) + (i - Len(gone))
        BY <4>1 DEF AllThere
      <4> QED BY <4>2, <2>1, <1>6
    <3> QED BY <3>1, <3>2, <2>1, <1>6
  <2>4. ASSUME NEW j \in 1..Len(wait2) PROVE wait2[j] = Len(gone2) + j
    <3>1. wait2[j] = wait[m + j] /\ m + j \in 1..Len(wait)
      BY <1>5
    <3>2. wait2[j] = Len(gone) + (m + j)
      BY <3>1 DEF AllThere
    <3> QED BY <3>2, <2>1, <1>5, <1>6
  <2> QED BY <2>2, <2>3, <2>4 DEF AllThere
<1> QED BY <1>7, <1>8, <1>9, <1>10 DEF FeedInv

\* The invariant is the promise.
LEMMA PromiseFromInv ==
    ASSUME NEW num, NEW wait, NEW gone, NEW lost, FeedInv(num, wait, gone, lost)
    PROVE  /\ Ordered(gone \o wait)
           /\ ~lost => /\ Len(gone \o wait) = num
                       /\ \A i \in 1..num : (gone \o wait)[i] = i
<1> DEFINE all == gone \o wait
<1>1. wait \in Seq(Nat) /\ gone \in Seq(Nat) /\ num \in Nat
  BY DEF FeedInv, FeedTypes
<1>2. Ordered(all)
  BY <1>1, OrderedConcat DEF FeedInv, InOrder
<1>3. ASSUME AllThere(num, wait, gone) PROVE Len(all) = num /\ \A i \in 1..num : all[i] = i
  <2>1. /\ Len(gone) \in Nat /\ Len(wait) \in Nat
        /\ Len(gone) + Len(wait) = num
        /\ Len(all) = Len(gone) + Len(wait)
        /\ \A i \in 1..Len(gone) : all[i] = gone[i]
        /\ \A i \in (Len(gone) + 1)..(Len(gone) + Len(wait)) :
               /\ all[i] = wait[i - Len(gone)]
               /\ i - Len(gone) \in 1..Len(wait)
    BY <1>1, <1>3, ConcatFacts DEF AllThere
  <2> HIDE DEF all
  <2>2. ASSUME NEW i \in 1..num PROVE all[i] = i
    <3>1. CASE i <= Len(gone)
      <4>1. i \in 1..Len(gone)
        BY <2>1, <3>1
      <4> QED BY <2>1, <4>1, <1>3 DEF AllThere
    <3>2. CASE i > Len(gone)
      <4>1. /\ all[i] = wait[i - Len(gone)]
            /\ i - Len(gone) \in 1..Len(wait)
        BY <2>1, <3>2
      <4>2. all[i] = Len(gone) + (i - Len(gone))
        BY <4>1, <1>3 DEF AllThere
      <4> QED BY <4>2, <2>1
    <3> QED BY <3>1, <3>2, <2>1
  <2> QED BY <2>1, <2>2
<1> QED BY <1>2, <1>3 DEF FeedInv

FeedKept == FeedInv(appended, Taken \o log, delivered, missed)

LEMMA FeedInitKept == Feed!Init => FeedKept
<1> SUFFICES ASSUME Feed!Init PROVE FeedKept
  OBVIOUS
<1> DEFINE wait == Taken \o log
<1>1. appended = 0 /\ wait = << >> /\ delivered = << >> /\ missed = FALSE
  BY DEF Feed!Init
<1> HIDE DEF wait
<1>2. /\ Len(wait) = 0 /\ Len(delivered) = 0
      /\ wait \in Seq(Nat) /\ delivered \in Seq(Nat)
  BY <1>1
<1>3. FeedTypes(appended, wait, delivered, missed)
  BY <1>1, <1>2 DEF FeedTypes
<1>4. InOrder(appended, wait, delivered)
  BY <1>1, <1>2 DEF InOrder, Ordered
<1>5. AllThere(appended, wait, delivered)
  BY <1>1, <1>2 DEF AllThere
<1>6. FeedInv(appended, wait, delivered, missed)
  BY <1>3, <1>4, <1>5 DEF FeedInv
<1> QED BY <1>6 DEF FeedKept, wait

LEMMA FeedNextKept == FeedKept /\ [Feed!Next]_(Feed!vars) => FeedKept'
<1> DEFINE wait == Taken \o log
<1> SUFFICES ASSUME FeedInv(appended, wait, delivered, missed), [Feed!Next]_(Feed!vars)
             PROVE  FeedInv(appended', wait', delivered', missed')
  BY DEF FeedKept
<1>1. CASE Feed!Post
  <2>1. Posts(appended, wait, delivered, missed, appended', wait', delivered', missed')
    BY <1>1 DEF Feed!Post, Posts
  <2> HIDE DEF wait
  <2> QED BY <2>1, PostKeeps
<1>2. CASE Feed!Lose
  <2>1. Loses(appended, wait, delivered, missed, appended', wait', delivered', missed')
    BY <1>2 DEF Feed!Lose, Feed!First, Loses
  <2> HIDE DEF wait
  <2> QED BY <2>1, LoseKeeps
<1>3. CASE Feed!Collect
  <2>1. Collects(appended, wait, delivered, missed, appended', wait', delivered', missed')
    BY <1>3 DEF Feed!Collect, Feed!First, Feed!From, Collects
  <2> HIDE DEF wait
  <2> QED BY <2>1, CollectKeeps
<1>4. CASE UNCHANGED Feed!vars
  <2>1. appended' = appended /\ wait' = wait /\ delivered' = delivered /\ missed' = missed
    BY <1>4 DEF Feed!vars
  <2> HIDE DEF wait
  <2> QED BY <2>1
<1> QED BY <1>1, <1>2, <1>3, <1>4 DEF Feed!Next

\* One request at a time, from the log to the consoles: the events delivered and those still
\* to be delivered are in order, none twice, and all of them while nothing is missed.
THEOREM LogKeepsPromise == ASSUME NEW p, Procs = {p} PROVE Spec => []Feed!Promise
<1>1. Spec => Feed!Spec
  BY FeedImplemented DEF ImplementsFeed
<1>2. Feed!Init => FeedKept
  BY FeedInitKept
<1>3. FeedKept /\ [Feed!Next]_(Feed!vars) => FeedKept'
  BY FeedNextKept
<1>4. FeedKept => Feed!Promise
  <2> SUFFICES ASSUME FeedKept PROVE Feed!Promise
    OBVIOUS
  <2> DEFINE wait == Taken \o log
  <2>0. FeedInv(appended, wait, delivered, missed)
    BY DEF FeedKept
  <2>1. /\ Ordered(Feed!Accounted)
        /\ ~missed => /\ Len(Feed!Accounted) = appended
                      /\ \A i \in 1..appended : Feed!Accounted[i] = i
    <3> HIDE DEF wait
    <3>1. /\ Ordered(delivered \o wait)
          /\ ~missed => /\ Len(delivered \o wait) = appended
                        /\ \A i \in 1..appended : (delivered \o wait)[i] = i
      BY <2>0, PromiseFromInv
    <3>2. Feed!Accounted = delivered \o wait
      BY DEF Feed!Accounted, wait
    <3> QED BY <3>1, <3>2
  <2> QED BY <2>1 DEF Feed!Promise, Ordered
<1> QED BY <1>1, <1>2, <1>3, <1>4, PTL DEF Feed!Spec
==============================================================================
