------------------------------ MODULE ScreenLock ------------------------------
(***************************************************************************)
(* Locked screens and VNC sessions of a terminal.  The XML-RPC methods     *)
(* (xmlrpc/lockscreen.c, lockcontroller.c, vnc.c, vlc.c, exe.c) start and  *)
(* kill programs by name: daemonize.sh starts one unless it finds it       *)
(* running, killall kills whatever runs under the name.  The lockers       *)
(* (lockscreen/lockscreen2.c, lockvlc.c, lockvnc.c) block the user's input *)
(* by grabbing the keyboard and the pointer of the X server; they try a    *)
(* few times and then wait to be killed, whatever they hold.               *)
(***************************************************************************)
EXTENDS Integers, Sequences

CONSTANTS
    Slots,     \* slots for calls that may be served at the same time
    Calls,     \* the calls consoles make
    MaxTries,  \* how often a locker tries: 5 in the code
    Clients,   \* whether other X clients grab devices
    MaxCalls   \* bound on the number of calls

ASSUME CallsAssumption == Calls \subseteq
           {"lockscreen", "unlockscreen", "lockvlc", "unlockvlc", "lockvnc", "unlockvnc",
            "startclient", "stopclient", "startserver", "stopserver"}
ASSUME BoundAssumption == MaxTries \in Nat \ {0} /\ Clients \in BOOLEAN /\ MaxCalls \in Nat

Lockers  == {"lockscreen", "lockvlc", "lockvnc"}
Programs == Lockers \union {"xtightvncviewer", "x11vnc"}
Devices  == {"keyboard", "pointer"}

Ids    == 1..(2 * MaxCalls)   \* a call starts two programs at most
Nobody == 0                   \* a device that is not grabbed
Other  == -1                  \* a device another client has grabbed

VARIABLES
    jobs,    \* what is left of the call a slot serves
    found,   \* a slot has looked for the program it is to start, and not found it
    calls,   \* calls so far
    prog,    \* the program a process runs
    at,      \* where the process is
    tries,   \* how often a locker has tried in vain
    grab,    \* who has grabbed each device
    heldUp,  \* history: a locker's tries that met a grab of another client
    alone,   \* history: no other locker has existed beside this one
    over     \* history: programs killed since the last call that starts them

vars == <<jobs, found, calls, prog, at, tries, grab, heldUp, alone, over>>

\* free: no process; forked: has not executed its program; dying: was sent a signal;
\* closed: has ended, and X still has its connection.
States  == {"free", "forked", "keyboard", "pointer", "asleep", "settled", "on", "dying", "closed"}
Running == {"keyboard", "pointer", "asleep", "settled", "on"}

Job == [do : {"start", "kill"}, prog : Programs]
StartJob(g) == [do |-> "start", prog |-> g]
KillJob(g)  == [do |-> "kill", prog |-> g]

\* What a call does, in order: tcos.lockscreen and tcos.unlockscreen;
LockscreenJobs(c) == IF c = "lockscreen" THEN {<<StartJob("lockscreen")>>}
                                         ELSE {<<KillJob("lockscreen")>>}

\* tcos.lockcontroller, tcos.unlockcontroller and tcos.vlc when it is to lock, and
\* tcos.exe and tcos.kill of the same programs;
ControllerJobs(c) ==
    CASE c = "lockvlc"   -> {<<StartJob("lockvlc")>>}
      [] c = "unlockvlc" -> {<<KillJob("lockvlc")>>}
      [] c = "lockvnc"   -> {<<StartJob("lockvnc")>>}
      [] c = "unlockvnc" -> {<<KillJob("lockvnc")>>}

\* tcos.vnc.  startclient locks the keyboard, be the viewer started or not: the
\* script refuses to start it when there is no password file.
VncJobs(c) ==
    CASE c = "startclient" -> {<<StartJob("xtightvncviewer"), StartJob("lockvnc")>>,
                               <<StartJob("lockvnc")>>}
      [] c = "stopclient"  -> {<<KillJob("xtightvncviewer"), KillJob("lockvnc")>>}
      [] c = "startserver" -> {<<KillJob("x11vnc"), StartJob("x11vnc")>>}
      [] c = "stopserver"  -> {<<KillJob("x11vnc")>>}

JobsOf(c) ==
    CASE c \in {"lockscreen", "unlockscreen"}                   -> LockscreenJobs(c)
      [] c \in {"lockvlc", "unlockvlc", "lockvnc", "unlockvnc"} -> ControllerJobs(c)
      [] OTHER                                                  -> VncJobs(c)

Init == /\ jobs   = [p \in Slots |-> << >>]
        /\ found  = [p \in Slots |-> FALSE]
        /\ calls  = 0
        /\ prog   = [i \in Ids |-> "none"]
        /\ at     = [i \in Ids |-> "free"]
        /\ tries  = [i \in Ids |-> 0]
        /\ grab   = [d \in Devices |-> Nobody]
        /\ heldUp = [i \in Ids |-> 0]
        /\ alone  = [i \in Ids |-> FALSE]
        /\ over   = {}

slotVars    == <<jobs, found, calls, over>>
processVars == <<prog, at, tries, alone, heldUp>>

Goto(i, from, to) == at[i] = from /\ at' = [at EXCEPT ![i] = to]
------------------------------------------------------------------------------
(* The calls. *)

Starts(js) == {js[n].prog : n \in {m \in DOMAIN js : js[m].do = "start"}}

Call(p, c) == /\ jobs[p] = << >>
              /\ calls < MaxCalls
              /\ calls' = calls + 1
              /\ \E js \in JobsOf(c) : /\ jobs' = [jobs EXCEPT ![p] = js]
                                       /\ over' = over \ Starts(js)
              /\ UNCHANGED <<found, processVars, grab>>

Serves(p, what) == jobs[p] # << >> /\ Head(jobs[p]).do = what
JobDone(p) == jobs' = [jobs EXCEPT ![p] = Tail(@)]

\* start-stop-daemon --exec finds the processes that execute the program.
RunsAlready(g) == \E i \in Ids : prog[i] = g /\ at[i] \in Running \union {"dying"}

\* daemonize.sh: nothing is started when the program is found running.
Look(p) == /\ Serves(p, "start")
           /\ ~found[p]
           /\ IF RunsAlready(Head(jobs[p]).prog)
              THEN JobDone(p) /\ UNCHANGED found
              ELSE found' = [found EXCEPT ![p] = TRUE] /\ UNCHANGED jobs
           /\ UNCHANGED <<calls, over, processVars, grab>>

\* The process gets the first number that is free.
IsNew(i) == at[i] = "free" /\ \A k \in Ids : k < i => at[k] # "free"

\* A locker is alone if there is no other, neither one that is to start nor one that
\* is ending; it makes the others not alone.
AloneAfter(i, g) == IF g \in Lockers
                    THEN [k \in Ids |-> k = i /\ \A l \in Ids \ {i} : prog[l] \notin Lockers]
                    ELSE alone

\* daemonize.sh: start-stop-daemon --background returns once it has forked.
Fork(p) == /\ Serves(p, "start")
           /\ found[p]
           /\ found' = [found EXCEPT ![p] = FALSE]
           /\ JobDone(p)
           /\ \E i \in Ids :
                  /\ IsNew(i)
                  /\ at'    = [at EXCEPT ![i] = "forked"]
                  /\ prog'  = [prog EXCEPT ![i] = Head(jobs[p]).prog]
                  /\ tries' = [tries EXCEPT ![i] = 0]
                  /\ heldUp' = [heldUp EXCEPT ![i] = 0]
                  /\ alone' = AloneAfter(i, Head(jobs[p]).prog)
           /\ UNCHANGED <<calls, over, grab>>

\* No process of g is on its way, and no call is about to start one.
NoneComing(g) == /\ \A i \in Ids : ~(prog[i] = g /\ at[i] = "forked")
                 /\ \A p \in Slots : g \notin Starts(jobs[p])

\* Variant with a bug: the oldest process only is killed.
VictimsOldest(g) == {i \in Ids : /\ prog[i] = g /\ at[i] \in Running
                                 /\ \A k \in Ids : prog[k] = g /\ at[k] \in Running => i <= k}

\* killall finds processes by the name of their program.
Victims(g) == {i \in Ids : prog[i] = g /\ at[i] \in Running}

Killall(p) == /\ Serves(p, "kill")
              /\ JobDone(p)
              /\ LET g == Head(jobs[p]).prog
                 IN  /\ at' = [i \in Ids |-> IF i \in Victims(g) THEN "dying" ELSE at[i]]
                     /\ over' = IF NoneComing(g) THEN over \union {g} ELSE over
              /\ UNCHANGED <<found, calls, prog, tries, alone, heldUp, grab>>
------------------------------------------------------------------------------
(* The programs. *)

Exec(i) == /\ Goto(i, "forked", IF prog[i] \in Lockers THEN "keyboard" ELSE "on")
           /\ UNCHANGED <<prog, tries, alone, heldUp, slotVars, grab>>

\* XGrabKeyboard and XGrabPointer succeed unless another client has the device.
Take(i, d) == /\ grab[d] \in {Nobody, i}
              /\ grab' = [grab EXCEPT ![d] = i]
              /\ UNCHANGED heldUp

Refused(i, d) == /\ grab[d] \notin {Nobody, i}
                 /\ heldUp' = [heldUp EXCEPT ![i] = IF grab[d] = Other THEN @ + 1 ELSE @]
                 /\ UNCHANGED grab

\* Variant with a bug: | for ||.
TryKeyboardAnyway(i) ==
    /\ \/ Take(i, "keyboard") /\ Goto(i, "keyboard", IF prog[i] = "lockvnc" THEN "settled" ELSE "pointer")
       \/ /\ Refused(i, "keyboard")
          /\ Goto(i, "keyboard", IF prog[i] = "lockvnc" THEN "asleep" ELSE "pointer")
    /\ UNCHANGED <<prog, tries, alone, slotVars>>

\* XtGrabKeyboard: lockvnc grabs the keyboard only.
TryKeyboard(i) ==
    /\ \/ Take(i, "keyboard") /\ Goto(i, "keyboard", IF prog[i] = "lockvnc" THEN "settled" ELSE "pointer")
       \/ Refused(i, "keyboard") /\ Goto(i, "keyboard", "asleep")
    /\ UNCHANGED <<prog, tries, alone, slotVars>>

\* XtGrabPointer, when the keyboard was grabbed.
TryPointer(i) ==
    /\ \/ Take(i, "pointer") /\ Goto(i, "pointer", "settled")
       \/ Refused(i, "pointer") /\ Goto(i, "pointer", "asleep")
    /\ UNCHANGED <<prog, tries, alone, slotVars>>

\* Variants with a bug: the failure is not counted, one try too many, one too few.
CountNot(n)   == [tries |-> n, more |-> TRUE]
CountOver(n)  == [tries |-> n + 1, more |-> n < MaxTries]
CountShort(n) == [tries |-> n + 1, more |-> n + 2 < MaxTries]

\* count++ and the test of the loop.
Count(n) == [tries |-> n + 1, more |-> n + 1 < MaxTries]

\* sleep(1) returns, whoever holds the devices and whatever has become of the processes
\* that were killed.
Wake(i) == /\ Goto(i, "asleep", IF Count(tries[i]).more THEN "keyboard" ELSE "settled")
           /\ tries' = [tries EXCEPT ![i] = Count(@).tries]
           /\ UNCHANGED <<prog, alone, heldUp, slotVars, grab>>

\* A process that was killed ends.
Exit(i) == /\ Goto(i, "dying", "closed")
           /\ UNCHANGED <<prog, tries, alone, heldUp, slotVars, grab>>

\* The X server closes the connection of a client that ended, and drops its grabs.
Closed(i) == /\ Goto(i, "closed", "free")
             /\ prog'  = [prog EXCEPT ![i] = "none"]
             /\ tries' = [tries EXCEPT ![i] = 0]
             /\ heldUp' = [heldUp EXCEPT ![i] = 0]
             /\ grab'  = [d \in Devices |-> IF grab[d] = i THEN Nobody ELSE grab[d]]
             /\ UNCHANGED <<alone, slotVars>>

\* Another client, such as an open menu, grabs devices, as often and for as long as
\* its user likes.
OtherGrabs ==
    /\ Clients
    /\ \E ds \in SUBSET {d \in Devices : grab[d] = Nobody} \ {{}} :
           grab' = [d \in Devices |-> IF d \in ds THEN Other ELSE grab[d]]
    /\ UNCHANGED <<slotVars, processVars>>

OtherReleases ==
    /\ \E ds \in SUBSET {d \in Devices : grab[d] = Other} \ {{}} :
           grab' = [d \in Devices |-> IF d \in ds THEN Nobody ELSE grab[d]]
    /\ UNCHANGED <<slotVars, processVars>>

Serve(p)   == Look(p) \/ Fork(p) \/ Killall(p)
Process(i) == Exec(i) \/ TryKeyboard(i) \/ TryPointer(i) \/ Wake(i) \/ Exit(i) \/ Closed(i)

Next == \/ \E i \in Ids : Process(i)
        \/ \E p \in Slots : Serve(p) \/ \E c \in Calls : Call(p, c)
        \/ OtherGrabs \/ OtherReleases

Spec == Init /\ [][Next]_vars
------------------------------------------------------------------------------
(* Properties. *)

\* Every variable has its type; a locker tries MaxTries times at most.
TypeOK == /\ jobs   \in [Slots -> Seq(Job)]
          /\ found  \in [Slots -> BOOLEAN]
          /\ calls  \in 0..MaxCalls
          /\ prog   \in [Ids -> Programs \union {"none"}]
          /\ at     \in [Ids -> States]
          /\ tries  \in [Ids -> 0..MaxTries]
          /\ grab   \in [Devices -> Ids \union {Nobody, Other}]
          /\ heldUp \in [Ids -> Nat]
          /\ alone  \in [Ids -> BOOLEAN]
          /\ over   \in SUBSET Programs

\* Lockers never share the input between them: the one that holds the pointer holds
\* the keyboard too, because all of them grab the keyboard first and go on only when
\* they have it.
PointerAfterKeyboard == grab["pointer"] \in Ids => grab["keyboard"] = grab["pointer"]

\* A locker that has run beside no other one settles without what it wants only if
\* every one of its tries met a grab of another client: no try is lost to what it holds
\* itself, to a program that was killed before, or to the count.
Wanted(i) == IF prog[i] = "lockvnc" THEN {"keyboard"} ELSE Devices
AloneTakesHold == \A i \in Ids : at[i] = "settled" /\ alone[i] /\ heldUp[i] < MaxTries
                                     => \A d \in Wanted(i) : grab[d] = i

\* After a call that kills a program, and until one that starts it, none of its
\* processes runs, if none was on its way to be started at the time.
KilledIsOver == \A g \in over : \A i \in Ids : prog[i] = g => at[i] \in {"free", "dying", "closed"}

\* How far a locker is from giving up at the latest: a try has three steps.
Distance(i) == LET before == 3 * (MaxTries - tries[i])
               IN  CASE at[i] = "forked"   -> before + 3
                     [] at[i] = "keyboard" -> before + 2
                     [] at[i] = "pointer"  -> before + 1
                     [] at[i] = "asleep"   -> before
                     [] OTHER              -> 0

\* Every step of a locker that is trying brings it closer to the end of its tries,
\* whatever is done to the devices meanwhile: the loop around the grabs ends.
TriesRunOut == [][\A i \in Ids : Distance(i) > 0 /\ at'[i] # at[i] =>
                                     Distance(i)' < Distance(i)]_vars

\* While lockscreen runs and has settled the keyboard is blocked (tcosxmlrpc.c:174:
\* "exec lockscreen to block thin client").
LockscreenBlocks == \A i \in Ids : prog[i] = "lockscreen" /\ at[i] = "settled" =>
                                       grab["keyboard"] # Nobody
==============================================================================
