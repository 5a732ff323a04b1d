--------------------------- MODULE ScreenLockProofs ---------------------------
(***************************************************************************)
(* Proofs about ScreenLock, for any number of calls, served in any number  *)
(* of slots, any number of tries and any grabs of other clients.           *)
(***************************************************************************)
EXTENDS ScreenLock, TLAPS

\* What a call starts.
LEMMA JobsType == ASSUME NEW c \in Calls, NEW js \in JobsOf(c) PROVE js \in Seq(Job)
<1>1. c \in {"lockscreen", "unlockscreen", "lockvlc", "unlockvlc", "lockvnc", "unlockvnc",
             "startclient", "stopclient", "startserver", "stopserver"}
  BY CallsAssumption
<1>2. \A g \in Programs : StartJob(g) \in Job /\ KillJob(g) \in Job
  BY DEF Job, StartJob, KillJob
<1>3. {"lockscreen", "lockvlc", "lockvnc", "xtightvncviewer", "x11vnc"} \subseteq Programs
  BY DEF Programs, Lockers
<1>4. \A a, b \in Job : <<a>> \in Seq(Job) /\ <<a, b>> \in Seq(Job)
  OBVIOUS
<1>5. CASE c \in {"lockscreen", "unlockscreen"}
  BY <1>2, <1>3, <1>4, <1>5 DEF JobsOf, LockscreenJobs
<1>6. CASE c \in {"lockvlc", "unlockvlc", "lockvnc", "unlockvnc"}
  BY <1>2, <1>3, <1>4, <1>6 DEF JobsOf, ControllerJobs
<1>7. CASE c \in {"startclient", "stopclient", "startserver", "stopserver"}
  <2>1. js \in VncJobs(c)
    BY <1>7 DEF JobsOf
  <2>2. CASE c = "startclient"
    BY <1>2, <1>3, <1>4, <2>1, <2>2 DEF VncJobs
  <2>3. CASE c = "stopclient"
    BY <1>2, <1>3, <1>4, <2>1, <2>3 DEF VncJobs
  <2>4. CASE c = "startserver"
    BY <1>2, <1>3, <1>4, <2>1, <2>4 DEF VncJobs
  <2>5. CASE c = "stopserver"
    BY <1>2, <1>3, <1>4, <2>1, <2>5 DEF VncJobs
  <2> QED BY <1>7, <2>2, <2>3, <2>4, <2>5
<1> QED BY <1>1, <1>5, <1>6, <1>7

\* The rest of a call starts nothing that the call does not start.
LEMMA RestStarts ==
    ASSUME NEW js \in Seq(Job), js # << >>
    PROVE  /\ Head(js) \in Job /\ Tail(js) \in Seq(Job)
           /\ Starts(Tail(js)) \subseteq Starts(js)
           /\ Head(js).do = "start" => Head(js).prog \in Starts(js)
<1>1. /\ Head(js) \in Job /\ Tail(js) \in Seq(Job) /\ Len(Tail(js)) = Len(js) - 1
      /\ Len(js) \in Nat \ {0} /\ Head(js) = js[1]
      /\ \A n \in 1..Len(Tail(js)) : Tail(js)[n] = js[n + 1]
  OBVIOUS
<1>2. 1 \in DOMAIN js /\ \A n \in DOMAIN Tail(js) : n + 1 \in DOMAIN js /\ Tail(js)[n] = js[n + 1]
  BY <1>1
<1> QED BY <1>1, <1>2 DEF Starts
------------------------------------------------------------------------------
\* A locker that is still trying has tries left.
Trying   == {"forked", "keyboard", "pointer", "asleep"}
TriesOK  == \A i \in Ids : at[i] \in Trying => tries[i] < MaxTries

\* A locker goes on to the pointer with the keyboard in its hands.
PointerOK == \A i \in Ids : at[i] = "pointer" => grab["keyboard"] = i

Inv == TypeOK /\ TriesOK /\ PointerAfterKeyboard /\ PointerOK

\* A try to take a device counts at most one that was held up.
LEMMA HeldUpType ==
    ASSUME TypeOK, NEW i \in Ids, NEW d \in Devices, Take(i, d) \/ Refused(i, d)
    PROVE  heldUp' \in [Ids -> Nat]
<1>1. heldUp \in [Ids -> Nat]
  BY DEF TypeOK
<1>2. heldUp' = heldUp \/ \E n \in {heldUp[i], heldUp[i] + 1} : heldUp' = [heldUp EXCEPT ![i] = n]
  BY DEF Take, Refused
<1> QED BY <1>1, <1>2

LEMMA InitInv == Init => Inv
BY BoundAssumption DEF Init, Inv, TypeOK, TriesOK, PointerAfterKeyboard, PointerOK, Trying,
                       Ids, Devices, Nobody, Other, States

LEMMA StepInv == Inv /\ [Next]_vars => Inv'
<1> SUFFICES ASSUME Inv, [Next]_vars PROVE Inv'
  OBVIOUS
<1> USE DEF Inv
<1>0. MaxCalls \in Nat /\ MaxTries \in Nat \ {0}
  BY BoundAssumption
<1>1. ASSUME NEW p \in Slots, NEW c \in Calls, Call(p, c) PROVE Inv'
  <2>1. PICK js \in JobsOf(c) : jobs' = [jobs EXCEPT ![p] = js] /\ over' = over \ Starts(js)
    BY <1>1 DEF Call
  <2>2. js \in Seq(Job)
    BY JobsType
  <2>3. TypeOK'
    BY <1>0, <1>1, <2>1, <2>2 DEF TypeOK, Call, processVars
  <2> QED BY <1>1, <2>3 DEF Call, processVars, TriesOK, PointerAfterKeyboard, PointerOK
<1>2. ASSUME NEW p \in Slots, Look(p) PROVE Inv'
  <2>1. Tail(jobs[p]) \in Seq(Job)
    BY <1>2, RestStarts DEF Look, Serves, TypeOK
  <2>2. TypeOK'
    BY <1>2, <2>1 DEF TypeOK, Look, JobDone, processVars
  <2> QED BY <1>2, <2>2 DEF Look, processVars, TriesOK, PointerAfterKeyboard, PointerOK
<1>3. ASSUME NEW p \in Slots, Fork(p) PROVE Inv'
  <2>1. Tail(jobs[p]) \in Seq(Job) /\ Head(jobs[p]).prog \in Programs
    BY <1>3, RestStarts DEF Fork, Serves, TypeOK, Job
  <2>2. PICK i \in Ids : /\ IsNew(i)
                         /\ at'    = [at EXCEPT ![i] = "forked"]
                         /\ prog'  = [prog EXCEPT ![i] = Head(jobs[p]).prog]
                         /\ tries' = [tries EXCEPT ![i] = 0]
                         /\ alone' = AloneAfter(i, Head(jobs[p]).prog)
                         /\ heldUp' = [heldUp EXCEPT ![i] = 0]
    BY <1>3 DEF Fork
  <2>3. alone' \in [Ids -> BOOLEAN]
    BY <2>2 DEF AloneAfter, TypeOK
  <2>4. TypeOK'
    BY <1>0, <1>3, <2>1, <2>2, <2>3 DEF TypeOK, Fork, JobDone, States
  <2> QED BY <1>0, <1>3, <2>2, <2>4
          DEF Fork, TypeOK, TriesOK, Trying, PointerAfterKeyboard, PointerOK
<1>4. ASSUME NEW p \in Slots, Killall(p) PROVE Inv'
  <2>1. Tail(jobs[p]) \in Seq(Job) /\ Head(jobs[p]).prog \in Programs
    BY <1>4, RestStarts DEF Killall, Serves, TypeOK, Job
  <2>2. TypeOK'
    BY <1>4, <2>1 DEF TypeOK, Killall, JobDone, States
  <2> QED BY <1>4, <2>2 DEF Killall, TypeOK, TriesOK, Trying, PointerAfterKeyboard, PointerOK
<1>5. ASSUME NEW i \in Ids, Exec(i) PROVE Inv'
  BY <1>5 DEF Exec, Goto, slotVars, TypeOK, States, TriesOK, Trying,
              PointerAfterKeyboard, PointerOK
<1>6. ASSUME NEW i \in Ids, TryKeyboard(i) PROVE Inv'
  <2>1. UNCHANGED <<prog, tries, alone, jobs, found, calls, over>> /\ heldUp' \in [Ids -> Nat]
    BY <1>6, HeldUpType DEF TryKeyboard, slotVars, Devices
  <2>2. at[i] = "keyboard" /\ tries[i] < MaxTries
    BY <1>6 DEF TryKeyboard, Goto, TriesOK, Trying
  <2>3. CASE Take(i, "keyboard")
             /\ Goto(i, "keyboard", IF prog[i] = "lockvnc" THEN "settled" ELSE "pointer")
    <3>1. /\ grab["keyboard"] \in {Nobody, i}
          /\ grab' = [grab EXCEPT !["keyboard"] = i]
          /\ at' = [at EXCEPT ![i] = IF prog[i] = "lockvnc" THEN "settled" ELSE "pointer"]
      BY <2>3 DEF Take, Goto
    <3>2. TypeOK'
      BY <2>1, <3>1 DEF TypeOK, States, Devices
    <3>3. TriesOK'
      BY <2>1, <2>2, <3>1 DEF TypeOK, TriesOK
    <3>4. PointerAfterKeyboard'
      BY <3>1 DEF TypeOK, Devices, PointerAfterKeyboard, Ids, Nobody, Other
    <3>5. PointerOK'
      BY <2>2, <3>1 DEF TypeOK, Devices, PointerOK, Ids, Nobody, Other
    <3> QED BY <3>2, <3>3, <3>4, <3>5
  <2>4. CASE Refused(i, "keyboard") /\ Goto(i, "keyboard", "asleep")
    BY <2>1, <2>2, <2>4
       DEF Refused, Goto, TypeOK, States, TriesOK, Trying, PointerAfterKeyboard, PointerOK
  <2> QED BY <1>6, <2>3, <2>4 DEF TryKeyboard
<1>7. ASSUME NEW i \in Ids, TryPointer(i) PROVE Inv'
  <2>1. PICK to \in {"settled", "asleep"} : at[i] = "pointer" /\ at' = [at EXCEPT ![i] = to]
    BY <1>7 DEF TryPointer, Goto
  <2>2. /\ (grab' = [grab EXCEPT !["pointer"] = i] \/ UNCHANGED grab)
        /\ UNCHANGED <<prog, tries, alone, slotVars>> /\ heldUp' \in [Ids -> Nat]
    <3>1. heldUp' \in [Ids -> Nat]
      BY <1>7, HeldUpType DEF TryPointer, Devices
    <3> QED BY <1>7, <3>1 DEF TryPointer, Take, Refused
  <2>3. TypeOK'
    BY <2>1, <2>2 DEF slotVars, TypeOK, States, Devices
  <2>4. TriesOK'
    BY <2>1, <2>2 DEF TypeOK, TriesOK, Trying
  <2>5. PointerAfterKeyboard'
    BY <2>1, <2>2 DEF TypeOK, Devices, PointerAfterKeyboard, PointerOK
  <2>6. PointerOK'
    BY <2>1, <2>2 DEF TypeOK, Devices, PointerOK
  <2> QED BY <2>3, <2>4, <2>5, <2>6
<1>8. ASSUME NEW i \in Ids, Wake(i) PROVE Inv'
  <2>1. /\ at[i] = "asleep" /\ tries' = [tries EXCEPT ![i] = tries[i] + 1]
        /\ UNCHANGED <<prog, alone, heldUp, slotVars, grab>>
    BY <1>8 DEF Wake, Goto, Count
  <2>2. at' = [at EXCEPT ![i] = IF tries[i] + 1 < MaxTries THEN "keyboard" ELSE "settled"]
    BY <1>8 DEF Wake, Goto, Count
  <2>3. tries[i] \in Nat /\ tries[i] < MaxTries
    BY <1>0, <2>1 DEF TypeOK, TriesOK, Trying
  <2>4. TypeOK'
    BY <1>0, <2>1, <2>2, <2>3 DEF slotVars, TypeOK, States
  <2>5. TriesOK'
    BY <1>0, <2>1, <2>2, <2>3 DEF TypeOK, TriesOK, Trying
  <2>6. PointerAfterKeyboard' /\ PointerOK'
    BY <2>1, <2>2 DEF TypeOK, PointerAfterKeyboard, PointerOK
  <2> QED BY <2>4, <2>5, <2>6
<1>9. ASSUME NEW i \in Ids, Exit(i) PROVE Inv'
  BY <1>9 DEF Exit, Goto, slotVars, TypeOK, States, TriesOK, Trying,
              PointerAfterKeyboard, PointerOK
<1>10. ASSUME NEW i \in Ids, Closed(i) PROVE Inv'
  BY <1>0, <1>10 DEF Closed, Goto, slotVars, TypeOK, States, Devices, TriesOK, Trying,
              PointerAfterKeyboard, PointerOK, Ids, Nobody, Other
<1>11. CASE OtherGrabs
  BY <1>0, <1>11 DEF OtherGrabs, slotVars, processVars, TypeOK, Devices, TriesOK, Trying,
              PointerAfterKeyboard, PointerOK, Ids, Nobody, Other
<1>12. CASE OtherReleases
  BY <1>12 DEF OtherReleases, slotVars, processVars, TypeOK, Devices, TriesOK, Trying,
               PointerAfterKeyboard, PointerOK, Ids, Nobody, Other
<1>13. CASE UNCHANGED vars
  BY <1>13 DEF vars, TypeOK, TriesOK, PointerAfterKeyboard, PointerOK
<1> QED BY <1>1, <1>2, <1>3, <1>4, <1>5, <1>6, <1>7, <1>8, <1>9, <1>10, <1>11, <1>12, <1>13
        DEF Next, Serve, Process

LEMMA InvAlways == Spec => []Inv
BY InitInv, StepInv, PTL DEF Spec

\* Every variable of ScreenLock keeps its type, and no locker tries too often.
THEOREM TypeCorrect == Spec => []TypeOK
BY InvAlways, PTL DEF Inv

\* Lockers never hold one device each, whichever of them run and are killed.
THEOREM PointerAfterKeyboardAlways == Spec => []PointerAfterKeyboard
BY InvAlways, PTL DEF Inv
------------------------------------------------------------------------------
\* Every step of Next that moves a locker that is trying shortens its way.
LEMMA StepDistance ==
    ASSUME Inv, [Next]_vars, NEW i \in Ids, Distance(i) > 0, at'[i] # at[i]
    PROVE  Distance(i)' < Distance(i)
<1>0. MaxTries \in Nat \ {0} /\ MaxCalls \in Nat
  BY BoundAssumption
<1>1. at[i] \in Trying
  BY DEF Distance, Trying
<1>2. tries[i] \in Nat /\ tries[i] < MaxTries /\ at \in [Ids -> States] /\ tries \in [Ids -> 0..MaxTries]
  BY <1>0, <1>1 DEF Inv, TypeOK, TriesOK
<1>3. CASE \E p \in Slots : Serve(p) \/ \E c \in Calls : Call(p, c)
  <2>1. PICK p \in Slots : Serve(p) \/ \E c \in Calls : Call(p, c)
    BY <1>3
  <2>2. CASE Fork(p)
    BY <1>1, <1>2, <2>2 DEF Fork, IsNew, Trying
  <2>3. CASE Killall(p)
    <3>1. at'[i] = "dying"
      BY <2>3 DEF Killall
    <3> QED BY <3>1 DEF Distance
  <2>4. CASE Look(p) \/ \E c \in Calls : Call(p, c)
    BY <2>4 DEF Look, Call, processVars
  <2> QED BY <2>1, <2>2, <2>3, <2>4 DEF Serve
<1>4. CASE \E k \in Ids : Process(k)
  <2>1. PICK k \in Ids : Process(k)
    BY <1>4
  <2>2. k = i /\ ~Exit(i) /\ ~Closed(i)
    BY <1>1, <1>2, <2>1
       DEF Process, Exec, TryKeyboard, TryPointer, Wake, Exit, Closed, Goto, Trying
  <2>3. CASE Exec(i)
    BY <1>0, <1>2, <2>3 DEF Exec, Goto, Distance
  <2>4. CASE TryKeyboard(i)
    BY <1>0, <1>2, <2>4 DEF TryKeyboard, Goto, Distance
  <2>5. CASE TryPointer(i)
    BY <1>0, <1>2, <2>5 DEF TryPointer, Goto, Distance
  <2>6. CASE Wake(i)
    <3>1. at[i] = "asleep" /\ tries'[i] = tries[i] + 1 /\ at'[i] \in {"keyboard", "settled"}
      BY <1>2, <2>6 DEF Wake, Goto, Count
    <3> QED BY <1>0, <1>2, <3>1 DEF Distance
  <2> QED BY <2>1, <2>2, <2>3, <2>4, <2>5, <2>6 DEF Process
<1>5. CASE OtherGrabs \/ OtherReleases \/ UNCHANGED vars
  BY <1>5 DEF OtherGrabs, OtherReleases, processVars, vars
<1> QED BY <1>3, <1>4, <1>5 DEF Next

\* The tries of every locker end, however often other clients grab the devices.
THEOREM TriesRunOutAlways == Spec => TriesRunOut
<1>1. Inv /\ [Next]_vars => [\A i \in Ids : Distance(i) > 0 /\ at'[i] # at[i] =>
                                 Distance(i)' < Distance(i)]_vars
  BY StepDistance
<1> QED BY <1>1, InvAlways, PTL DEF Spec, TriesRunOut
------------------------------------------------------------------------------
\* A program that is over does not run, and no call is going to start it.
OverOK == \A g \in over : /\ \A i \in Ids : prog[i] = g => at[i] \in {"free", "dying", "closed"}
                          /\ \A p \in Slots : g \notin Starts(jobs[p])

\* A call that has done a job starts nothing more than before.
LEMMA FewerStarts ==
    ASSUME TypeOK, NEW p \in Slots, jobs[p] # << >>, JobDone(p)
    PROVE  \A q \in Slots : Starts(jobs'[q]) \subseteq Starts(jobs[q])
<1>1. jobs[p] \in Seq(Job) /\ \A q \in Slots : jobs'[q] = IF q = p THEN Tail(jobs[p]) ELSE jobs[q]
  BY DEF TypeOK, JobDone
<1>2. Starts(Tail(jobs[p])) \subseteq Starts(jobs[p])
  BY <1>1, RestStarts
<1> QED BY <1>1, <1>2

LEMMA StepOver == Inv /\ OverOK /\ [Next]_vars => OverOK'
<1> SUFFICES ASSUME Inv, OverOK, [Next]_vars PROVE OverOK'
  OBVIOUS
<1>0. TypeOK
  BY DEF Inv
<1>1. ASSUME NEW p \in Slots, NEW c \in Calls, Call(p, c) PROVE OverOK'
  <2>1. PICK js \in JobsOf(c) : jobs' = [jobs EXCEPT ![p] = js] /\ over' = over \ Starts(js)
    BY <1>1 DEF Call
  <2>2. \A q \in Slots : jobs'[q] = IF q = p THEN js ELSE jobs[q]
    BY <1>0, <2>1 DEF TypeOK
  <2>3. UNCHANGED <<prog, at>>
    BY <1>1 DEF Call, processVars
  <2> QED BY <2>1, <2>2, <2>3 DEF OverOK
<1>2. ASSUME NEW p \in Slots, jobs' = jobs \/ (jobs[p] # << >> /\ JobDone(p)),
             over' = over, UNCHANGED <<prog, at>>
      PROVE  OverOK'
  <2>1. \A q \in Slots : Starts(jobs'[q]) \subseteq Starts(jobs[q])
    BY <1>0, <1>2, FewerStarts
  <2> QED BY <1>2, <2>1 DEF OverOK
<1>3. ASSUME NEW p \in Slots, Fork(p) PROVE OverOK'
  <2>1. /\ \A q \in Slots : Starts(jobs'[q]) \subseteq Starts(jobs[q])
        /\ Head(jobs[p]).prog \in Starts(jobs[p])
    <3>1. jobs[p] \in Seq(Job) /\ jobs[p] # << >> /\ Head(jobs[p]).do = "start" /\ JobDone(p)
      BY <1>0, <1>3 DEF TypeOK, Fork, Serves
    <3> QED BY <1>0, <3>1, RestStarts, FewerStarts
  <2>2. Head(jobs[p]).prog \notin over /\ over' = over
    BY <1>3, <2>1 DEF OverOK, Fork
  <2>3. PICK i \in Ids : /\ at'   = [at EXCEPT ![i] = "forked"]
                         /\ prog' = [prog EXCEPT ![i] = Head(jobs[p]).prog]
    BY <1>3 DEF Fork
  <2>4. ASSUME NEW g \in over, NEW k \in Ids, prog'[k] = g
        PROVE  at'[k] \in {"free", "dying", "closed"}
    <3>1. k # i
      BY <1>0, <2>2, <2>3, <2>4 DEF TypeOK
    <3> QED BY <1>0, <2>3, <2>4, <3>1 DEF TypeOK, OverOK
  <2> QED BY <2>1, <2>2, <2>4 DEF OverOK
<1>4. ASSUME NEW p \in Slots, Killall(p) PROVE OverOK'
  <2> DEFINE h == Head(jobs[p]).prog
  <2>1. \A q \in Slots : Starts(jobs'[q]) \subseteq Starts(jobs[q])
    BY <1>0, <1>4, FewerStarts DEF Killall, Serves
  <2>2. /\ at' = [i \in Ids |-> IF i \in Victims(h) THEN "dying" ELSE at[i]]
        /\ over' = IF NoneComing(h) THEN over \union {h} ELSE over
        /\ prog' = prog
    BY <1>4 DEF Killall
  <2>3. ASSUME NEW g \in over' PROVE \A q \in Slots : g \notin Starts(jobs'[q])
    BY <2>1, <2>2, <2>3 DEF OverOK, NoneComing
  <2>4. ASSUME NEW g \in over', NEW k \in Ids, prog'[k] = g
        PROVE  at'[k] \in {"free", "dying", "closed"}
    <3>1. CASE g \in over
      BY <2>2, <2>4, <3>1 DEF OverOK
    <3>2. CASE g = h /\ NoneComing(h)
      <4>1. at[k] \in States /\ at[k] # "forked"
        BY <1>0, <2>2, <2>4, <3>2 DEF TypeOK, NoneComing
      <4>2. at[k] \in Running => k \in Victims(h)
        BY <2>2, <2>4, <3>2 DEF Victims
      <4> QED BY <2>2, <4>1, <4>2 DEF States, Running
    <3> QED BY <2>2, <2>4, <3>1, <3>2
  <2> QED BY <2>3, <2>4 DEF OverOK
<1>5. ASSUME NEW i \in Ids, Process(i) PROVE OverOK'
  <2>1. UNCHANGED slotVars /\ at \in [Ids -> States]
    BY <1>0, <1>5 DEF Process, Exec, TryKeyboard, TryPointer, Wake, Exit, Closed, TypeOK
  <2>2. ASSUME NEW g \in over, NEW k \in Ids, prog'[k] = g
        PROVE  at'[k] \in {"free", "dying", "closed"}
    <3>1. g # "none"
      BY <1>0 DEF TypeOK, Programs, Lockers
    <3>2. CASE Closed(i)
      BY <1>0, <2>1, <2>2, <3>1, <3>2 DEF Closed, Goto, TypeOK, OverOK
    <3>3. CASE Exec(i) \/ TryKeyboard(i) \/ TryPointer(i) \/ Wake(i) \/ Exit(i)
      <4>1. prog' = prog
        BY <3>3 DEF Exec, TryKeyboard, TryPointer, Wake, Exit
      <4>2. at[k] \in {"free", "dying", "closed"}
        BY <2>2, <4>1 DEF OverOK
      <4> QED BY <2>1, <3>3, <4>2 DEF Exec, TryKeyboard, TryPointer, Wake, Exit, Goto
    <3> QED BY <1>5, <3>2, <3>3 DEF Process
  <2> QED BY <2>1, <2>2 DEF slotVars, OverOK
<1>6. CASE OtherGrabs \/ OtherReleases \/ UNCHANGED vars
  BY <1>6 DEF OtherGrabs, OtherReleases, slotVars, processVars, vars, OverOK
<1>7. ASSUME NEW p \in Slots, Look(p) PROVE OverOK'
  BY <1>2, <1>7 DEF Look, Serves, processVars
<1> QED BY <1>1, <1>3, <1>4, <1>5, <1>6, <1>7 DEF Next, Serve

\* A killed program is gone until it is asked for again, every copy of it.
THEOREM KilledIsOverAlways == Spec => []KilledIsOver
<1>1. Init => OverOK
  BY DEF Init, OverOK
<1>2. OverOK => KilledIsOver
  BY DEF OverOK, KilledIsOver
<1> QED BY <1>1, <1>2, StepOver, InvAlways, PTL DEF Spec
------------------------------------------------------------------------------
\* Only lockers grab devices, and drop them when they end.
Grabbing == {"keyboard", "pointer", "asleep", "settled"}
GrabOK   == /\ \A i \in Ids : at[i] \in Grabbing => prog[i] \in Lockers
            /\ \A d \in Devices, i \in Ids : grab[d] = i => prog[i] \in Lockers /\ at[i] # "free"
AloneOK  == \A i, k \in Ids : alone[i] /\ k # i => prog[k] \notin Lockers

\* Each try a locker loses while it is alone has met a grab of another client: the
\* tries it has lost, with the one it is losing, are those that were held up.
Paid(i) == /\ at[i] \in {"forked", "keyboard", "pointer"} => heldUp[i] = tries[i]
           /\ at[i] = "asleep"  => heldUp[i] = tries[i] + 1
           /\ at[i] = "settled" => MaxTries <= heldUp[i] \/ \A d \in Wanted(i) : grab[d] = i
TriesPaid == \A i \in Ids : alone[i] => Paid(i)

HoldOK == GrabOK /\ AloneOK /\ TriesPaid

\* Steps that touch neither processes nor devices.
LEMMA StepSlots == ASSUME HoldOK, UNCHANGED <<processVars, grab>> PROVE HoldOK'
BY DEF HoldOK, GrabOK, AloneOK, TriesPaid, Paid, Wanted, processVars

\* A device that a locker that is alone cannot take is in another client's hands.
LEMMA AloneLosesToOthers ==
    ASSUME TypeOK, GrabOK, AloneOK, NEW i \in Ids, alone[i],
           NEW d \in Devices, grab[d] \notin {Nobody, i}
    PROVE  grab[d] = Other
<1>1. grab[d] \in Ids => FALSE
  BY DEF GrabOK, AloneOK
<1> QED BY <1>1 DEF TypeOK

LEMMA StepFork ==
    ASSUME Inv, HoldOK, NEW p \in Slots, Fork(p) PROVE HoldOK'
<1>0. TypeOK
  BY DEF Inv
<1> DEFINE g == Head(jobs[p]).prog
<1>1. PICK i \in Ids : /\ at[i] = "free"
                       /\ at'     = [at EXCEPT ![i] = "forked"]
                       /\ prog'   = [prog EXCEPT ![i] = g]
                       /\ tries'  = [tries EXCEPT ![i] = 0]
                       /\ heldUp' = [heldUp EXCEPT ![i] = 0]
                       /\ alone'  = AloneAfter(i, g)
  BY DEF Fork, IsNew
<1>2. UNCHANGED grab
  BY DEF Fork
<1>3. \A k \in Ids : k # i => /\ at'[k] = at[k] /\ prog'[k] = prog[k]
                              /\ tries'[k] = tries[k] /\ heldUp'[k] = heldUp[k]
  BY <1>0, <1>1 DEF TypeOK
<1>4. at'[i] = "forked" /\ prog'[i] = g /\ tries'[i] = 0 /\ heldUp'[i] = 0
  BY <1>0, <1>1 DEF TypeOK
<1>5. GrabOK'
  BY <1>1, <1>2, <1>3, <1>4 DEF HoldOK, GrabOK, Grabbing
<1>6. AloneOK'
  BY <1>0, <1>1, <1>3, <1>4 DEF HoldOK, AloneOK, AloneAfter, TypeOK
<1>7. ASSUME NEW k \in Ids, alone'[k] PROVE Paid(k)'
  <2>1. CASE k = i
    BY <1>4, <2>1 DEF Paid
  <2>2. CASE k # i
    <3>1. alone[k]
      BY <1>1, <1>7, <2>2 DEF AloneAfter
    <3>2. Paid(k) /\ Wanted(k)' = Wanted(k)
      BY <1>3, <2>2, <3>1 DEF HoldOK, TriesPaid, Wanted
    <3> QED BY <1>2, <1>3, <2>2, <3>2 DEF Paid
  <2> QED BY <2>1, <2>2
<1> QED BY <1>5, <1>6, <1>7 DEF HoldOK, TriesPaid

\* Steps of a process that is grabbing: it is the only locker that may be alone.
LEMMA StepGrabbing ==
    ASSUME Inv, HoldOK, NEW i \in Ids, TryKeyboard(i) \/ TryPointer(i) \/ Wake(i)
    PROVE  HoldOK'
<1>0. TypeOK /\ MaxTries \in Nat \ {0}
  BY BoundAssumption DEF Inv
<1>1. at[i] \in Grabbing /\ prog[i] \in Lockers
  BY DEF TryKeyboard, TryPointer, Wake, Goto, HoldOK, GrabOK, Grabbing
<1>2. /\ UNCHANGED <<prog, alone>>
      /\ \E to \in Grabbing : at' = [at EXCEPT ![i] = to]
  BY DEF TryKeyboard, TryPointer, Wake, Goto, slotVars, Grabbing
<1>3. (\E d \in Devices : grab' = [grab EXCEPT ![d] = i]) \/ UNCHANGED grab
  BY DEF TryKeyboard, TryPointer, Wake, Take, Refused, Devices
<1>4. GrabOK'
  <2>1. at'[i] \in Grabbing /\ \A k \in Ids : k # i => at'[k] = at[k]
    BY <1>0, <1>2 DEF TypeOK
  <2>2. \A d \in Devices, k \in Ids : grab'[d] = k => grab[d] = k \/ k = i
    BY <1>0, <1>3 DEF TypeOK
  <2>3. \A k \in Ids : at'[k] \in Grabbing => prog'[k] \in Lockers
    BY <1>1, <1>2, <2>1 DEF HoldOK, GrabOK
  <2>4. ASSUME NEW d \in Devices, NEW k \in Ids, grab'[d] = k
        PROVE  prog'[k] \in Lockers /\ at'[k] # "free"
    <3>1. CASE k = i
      BY <1>1, <1>2, <2>1, <3>1 DEF Grabbing
    <3>2. CASE k # i
      BY <1>2, <2>1, <2>2, <2>4, <3>2 DEF HoldOK, GrabOK
    <3> QED BY <3>1, <3>2
  <2> QED BY <2>3, <2>4 DEF GrabOK
<1>5. AloneOK'
  BY <1>2 DEF HoldOK, AloneOK
<1>6. ASSUME alone[i] PROVE Paid(i)'
  <2>1. Paid(i) /\ tries[i] \in Nat /\ heldUp[i] \in Nat
    BY <1>0, <1>6 DEF HoldOK, TriesPaid, TypeOK
  <2>2. ASSUME NEW d \in Devices, Refused(i, d) PROVE heldUp'[i] = heldUp[i] + 1
    <3>1. grab[d] = Other
      BY <1>0, <1>6, <2>2, AloneLosesToOthers DEF HoldOK, Refused
    <3> QED BY <1>0, <2>2, <3>1 DEF Refused, TypeOK
  <2>3. CASE TryKeyboard(i)
    <3>1. at[i] = "keyboard" /\ tries' = tries
      BY <2>3 DEF TryKeyboard, Goto
    <3>2. CASE Take(i, "keyboard")
               /\ Goto(i, "keyboard", IF prog[i] = "lockvnc" THEN "settled" ELSE "pointer")
      <4>1. /\ grab'["keyboard"] = i /\ heldUp' = heldUp
            /\ at'[i] = IF prog[i] = "lockvnc" THEN "settled" ELSE "pointer"
        BY <1>0, <3>2 DEF Take, Goto, TypeOK, Devices
      <4> QED BY <1>2, <2>1, <3>1, <4>1 DEF Paid, Wanted
    <3>3. CASE Refused(i, "keyboard") /\ Goto(i, "keyboard", "asleep")
      <4>1. heldUp'[i] = heldUp[i] + 1 /\ at'[i] = "asleep"
        BY <1>0, <2>2, <3>3 DEF Goto, TypeOK, Devices
      <4> QED BY <2>1, <3>1, <4>1 DEF Paid
    <3> QED BY <2>3, <3>2, <3>3 DEF TryKeyboard
  <2>4. CASE TryPointer(i)
    <3>1. at[i] = "pointer" /\ tries' = tries /\ grab["keyboard"] = i
      BY <2>4 DEF TryPointer, Goto, Inv, PointerOK
    <3>2. CASE Take(i, "pointer") /\ Goto(i, "pointer", "settled")
      <4>1. (\A d \in Devices : grab'[d] = i) /\ at'[i] = "settled"
        BY <1>0, <3>1, <3>2 DEF Take, Goto, TypeOK, Devices
      <4> QED BY <4>1 DEF Paid, Wanted, Devices
    <3>3. CASE Refused(i, "pointer") /\ Goto(i, "pointer", "asleep")
      <4>1. heldUp'[i] = heldUp[i] + 1 /\ at'[i] = "asleep"
        BY <1>0, <2>2, <3>3 DEF Goto, TypeOK, Devices
      <4> QED BY <2>1, <3>1, <4>1 DEF Paid
    <3> QED BY <2>4, <3>2, <3>3 DEF TryPointer
  <2>5. CASE Wake(i)
    <3>1. at[i] = "asleep" /\ tries'[i] = tries[i] + 1 /\ heldUp' = heldUp
      BY <1>0, <2>5 DEF Wake, Goto, Count, TypeOK
    <3>2. \/ at'[i] = "keyboard"
          \/ at'[i] = "settled" /\ MaxTries <= tries[i] + 1
      <4>1. at' = [at EXCEPT ![i] = IF tries[i] + 1 < MaxTries THEN "keyboard" ELSE "settled"]
        BY <2>5 DEF Wake, Goto, Count
      <4>2. at \in [Ids -> States]
        BY <1>0 DEF TypeOK
      <4> QED BY <1>0, <2>1, <4>1, <4>2
    <3> QED BY <1>0, <2>1, <3>1, <3>2 DEF Paid
  <2> QED BY <2>3, <2>4, <2>5
<1>7. ASSUME NEW k \in Ids, alone[k] PROVE k = i
  BY <1>1, <1>7 DEF HoldOK, AloneOK
<1> QED BY <1>2, <1>4, <1>5, <1>6, <1>7 DEF HoldOK, TriesPaid

\* The other steps.
LEMMA StepHold == Inv /\ HoldOK /\ [Next]_vars => HoldOK'
<1> SUFFICES ASSUME Inv, HoldOK, [Next]_vars PROVE HoldOK'
  OBVIOUS
<1>0. TypeOK
  BY DEF Inv
<1>1. ASSUME NEW p \in Slots, Killall(p) PROVE HoldOK'
  <2>1. /\ UNCHANGED <<prog, tries, alone, heldUp, grab>>
        /\ \A i \in Ids : at'[i] = at[i] \/ (at'[i] = "dying" /\ at[i] \in Running)
    BY <1>1 DEF Killall, Victims
  <2>2. GrabOK' /\ AloneOK'
    BY <2>1 DEF HoldOK, GrabOK, Grabbing, AloneOK
  <2>3. TriesPaid'
    BY <2>1 DEF HoldOK, TriesPaid, Paid, Wanted
  <2> QED BY <2>2, <2>3 DEF HoldOK
<1>2. ASSUME NEW i \in Ids, Exec(i) \/ Exit(i) PROVE HoldOK'
  <2>1. /\ UNCHANGED <<prog, tries, alone, heldUp, grab>>
        /\ \A k \in Ids : k # i => at'[k] = at[k]
        /\ \/ at[i] = "forked" /\ prog[i] \in Lockers /\ at'[i] = "keyboard"
           \/ at[i] = "forked" /\ at'[i] = "on"
           \/ at[i] = "dying" /\ at'[i] = "closed"
    BY <1>0, <1>2 DEF Exec, Exit, Goto, TypeOK
  <2>2. GrabOK' /\ AloneOK'
    BY <2>1 DEF HoldOK, GrabOK, Grabbing, AloneOK
  <2>3. TriesPaid'
    BY <2>1 DEF HoldOK, TriesPaid, Paid, Wanted
  <2> QED BY <2>2, <2>3 DEF HoldOK
<1>3. ASSUME NEW i \in Ids, Closed(i) PROVE HoldOK'
  <2>1. /\ UNCHANGED alone
        /\ \A k \in Ids : k # i => /\ at'[k] = at[k] /\ prog'[k] = prog[k]
                                   /\ tries'[k] = tries[k] /\ heldUp'[k] = heldUp[k]
        /\ at'[i] = "free" /\ prog'[i] = "none"
        /\ grab' = [d \in Devices |-> IF grab[d] = i THEN Nobody ELSE grab[d]]
    BY <1>0, <1>3 DEF Closed, Goto, TypeOK
  <2>2. Nobody \notin Ids /\ "none" \notin Lockers
    BY DEF Ids, Nobody, Lockers
  <2>3. GrabOK' /\ AloneOK'
    BY <2>1, <2>2 DEF HoldOK, GrabOK, Grabbing, AloneOK
  <2>4. ASSUME NEW k \in Ids, alone[k], k # i PROVE Paid(k)'
    <3>1. Paid(k) /\ Wanted(k)' = Wanted(k) /\ Wanted(k) \subseteq Devices
      BY <2>1, <2>4 DEF HoldOK, TriesPaid, Wanted, Devices
    <3> QED BY <2>1, <2>4, <3>1 DEF Paid
  <2>5. Paid(i)'
    BY <2>1 DEF Paid
  <2> QED BY <2>1, <2>3, <2>4, <2>5 DEF HoldOK, TriesPaid
<1>4. CASE OtherGrabs \/ OtherReleases
  <2>1. UNCHANGED processVars /\ \A d \in Devices, i \in Ids : grab'[d] = i <=> grab[d] = i
    BY <1>0, <1>4 DEF OtherGrabs, OtherReleases, TypeOK, Ids, Other, Nobody
  <2>2. GrabOK' /\ AloneOK'
    BY <2>1 DEF HoldOK, GrabOK, AloneOK, processVars
  <2>3. ASSUME NEW i \in Ids, alone[i] PROVE Paid(i)'
    <3>1. Paid(i) /\ Wanted(i)' = Wanted(i) /\ Wanted(i) \subseteq Devices
      BY <2>1, <2>3 DEF HoldOK, TriesPaid, Wanted, Devices, processVars
    <3> QED BY <2>1, <3>1 DEF Paid, processVars
  <2> QED BY <2>1, <2>2, <2>3 DEF HoldOK, TriesPaid, processVars
<1>5. CASE UNCHANGED vars
  BY <1>5, StepSlots DEF vars, processVars
<1>6. ASSUME NEW p \in Slots, Serve(p) \/ \E c \in Calls : Call(p, c) PROVE HoldOK'
  BY <1>1, <1>6, StepFork, StepSlots DEF Serve, Look, Call, processVars
<1>7. ASSUME NEW i \in Ids, Process(i) PROVE HoldOK'
  BY <1>2, <1>3, <1>7, StepGrabbing DEF Process
<1> QED BY <1>4, <1>5, <1>6, <1>7 DEF Next

\* A locker that runs beside no other one takes hold of all it wants, for any number
\* of tries and whatever other clients do to the devices and for how long, unless a grab
\* of theirs was in its way at every one of its tries.
THEOREM AloneTakesHoldAlways == Spec => []AloneTakesHold
<1>1. Init => HoldOK
  BY DEF Init, HoldOK, GrabOK, Grabbing, AloneOK, TriesPaid, Ids, Nobody
<1>2. Inv /\ HoldOK => AloneTakesHold
  <2> SUFFICES ASSUME Inv, HoldOK, NEW i \in Ids, at[i] = "settled", alone[i],
                      heldUp[i] < MaxTries
               PROVE  \A d \in Wanted(i) : grab[d] = i
    BY DEF AloneTakesHold
  <2>1. Paid(i)
    BY DEF HoldOK, TriesPaid
  <2>2. heldUp[i] \in Nat /\ MaxTries \in Nat
    BY BoundAssumption DEF Inv, TypeOK
  <2> QED BY <2>1, <2>2 DEF Paid
<1> QED BY <1>1, <1>2, StepHold, InvAlways, PTL DEF Spec
==============================================================================
