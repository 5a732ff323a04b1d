---------------------------- MODULE MountListener ----------------------------
(***************************************************************************)
(* mount-listener (udev/mount_listener.c), which turns changes of          *)
(* /proc/mounts into mount and umount events: it keeps a copy of the table *)
(* in a file, compares the two whenever poll returns, has save-udev.sh log *)
(* an event for each line that only one of them holds, and then copies the *)
(* table again.  listener-daemon.sh starts it again when it dies.          *)
(*                                                                         *)
(* The table changes at any time, also between two reads of it.  One scan  *)
(* of a file reads it as it was when it was opened (a table of a terminal  *)
(* fits in one stdio buffer), and no line occurs twice in it.  poll always *)
(* returns at once for /proc/mounts, so waiting is not modelled.           *)
(***************************************************************************)
EXTENDS Naturals, Sequences, FiniteSets, SequencesExt

CONSTANTS
    Lines,        \* lines /proc/mounts may hold
    Ignored,      \* those of a /dev/disk/ device
    InitialTable, \* the table when the listener is first started
    MaxUpsets     \* bound on the changes of the table, the deaths of the listener and
                  \* the writes that find /tmp full, taken together

ASSUME LinesAssumption ==
    Ignored \subseteq Lines /\ InitialTable \in Seq(Lines) /\ IsInjective(InitialTable)
ASSUME BoundAssumption == MaxUpsets \in Nat

VARIABLES
    mounts,     \* /proc/mounts
    snapshot,   \* the copy in /tmp/proc_mounts
    copied,     \* that file is there
    pc,         \* where the listener is
    action,     \* the kind of lines compare is looking for
    scan,       \* the lines compare has yet to look at
    helpers,    \* save-udev.sh processes that have not written yet
    log,        \* /tmp/tcos-udevd.log
    crashes,    \* deaths of the listener so far
    cuts,       \* writes that found /tmp full so far
    changes,    \* history: the changes since the first copy was taken
    calm        \* history: so far they waited for the listener, which did not die

copy == <<snapshot, copied, cuts>>
vars == <<mounts, copy, pc, action, scan, helpers, log, crashes, changes, calm>>

Mount  == "mount"
Umount == "umount"
Event  == [line : Lines, action : {Mount, Umount}]

\* A helper outlives the listener that started it: by names that listener.
Helper == [event : Event, by : 0..MaxUpsets]

MoreUpsets == Len(changes) + crashes + cuts < MaxUpsets

Init == /\ mounts   = InitialTable
        /\ snapshot = << >>
        /\ copied   = FALSE
        /\ pc       = "starting"
        /\ action   = Mount
        /\ scan     = << >>
        /\ helpers  = {}
        /\ log      = << >>
        /\ crashes  = 0
        /\ cuts     = 0
        /\ changes  = << >>
        /\ calm     = TRUE
------------------------------------------------------------------------------
(* The machine: file systems are mounted and unmounted. *)

\* A change that waits for the listener: it does not come from the time a file is
\* opened to the next copy, nor a mount before an umount is copied or the reverse.
Waited(kind) == /\ pc \in {"polling", "opening"}
                /\ IF kind = Mount THEN Len(mounts) >= Len(snapshot)
                                   ELSE Len(mounts) <= Len(snapshot)

Change(line, kind) ==
    /\ MoreUpsets
    /\ \/ kind = Mount  /\ line \notin Range(mounts) /\ mounts' = Append(mounts, line)
       \/ kind = Umount /\ \E n \in DOMAIN mounts : mounts[n] = line /\ mounts' = RemoveAt(mounts, n)
    /\ IF pc = "starting" /\ crashes = 0
       THEN UNCHANGED <<changes, calm>>
       ELSE /\ changes' = Append(changes, [line |-> line, action |-> kind])
            /\ calm' = (calm /\ Waited(kind))
    /\ UNCHANGED <<copy, pc, action, scan, helpers, log, crashes>>
------------------------------------------------------------------------------
(* The listener. *)

\* sync_files: the table as it is now, whatever compare has seen of it.  The copy is one
\* buffer, written at fclose: when /tmp is full it is empty, or not even made.
SyncFiles ==
    \/ /\ snapshot' = mounts /\ copied' = TRUE
       /\ UNCHANGED cuts
    \/ /\ MoreUpsets /\ cuts' = cuts + 1
       /\ snapshot' = << >> /\ copied' \in {copied, TRUE}

\* Variant with a bug: a copy that is already there is kept.
StartKeepingCopy == /\ pc = "starting"
                    /\ IF copied THEN UNCHANGED copy ELSE SyncFiles
                    /\ pc' = "polling"
                    /\ UNCHANGED <<mounts, action, scan, helpers, log, crashes, changes, calm>>

\* main: the first copy.
Start == /\ pc = "starting"
         /\ SyncFiles
         /\ pc' = "polling"
         /\ UNCHANGED <<mounts, action, scan, helpers, log, crashes, changes, calm>>

\* Variant with a bug: fewer lines leave action as it was initialised.
OnlyMounts(n1, n2) == IF n1 > n2 THEN Mount ELSE ""

\* compare: what is looked for when the table has n1 lines and the copy n2.
Direction(n1, n2) == IF n1 > n2 THEN Mount ELSE Umount

\* Variant with a bug: a table that got shorter is taken for an unchanged one.
CountGrowth == /\ pc = "polling" /\ copied
               /\ Len(mounts) > Len(snapshot)
               /\ action' = Mount
               /\ pc' = "opening"
               /\ UNCHANGED <<mounts, copy, scan, helpers, log, crashes, changes, calm>>

\* compare: the numbers of lines decide what is looked for.
Count == /\ pc = "polling" /\ copied
         /\ Len(mounts) # Len(snapshot)
         /\ action' = Direction(Len(mounts), Len(snapshot))
         /\ pc' = "opening"
         /\ UNCHANGED <<mounts, copy, scan, helpers, log, crashes, changes, calm>>

\* compare: equal numbers of lines are taken for equal files; without a copy there is
\* nothing to compare.
Unchanged == /\ pc = "polling"
             /\ ~copied \/ Len(mounts) = Len(snapshot)
             /\ UNCHANGED vars

\* compare: open the file that has the extra lines.
Open == /\ pc = "opening"
        /\ scan' = IF action = Mount THEN mounts ELSE snapshot
        /\ pc' = "scanning"
        /\ UNCHANGED <<mounts, copy, action, helpers, log, crashes, changes, calm>>

\* The file compare opens again for every line.
Other == IF action = Mount THEN snapshot ELSE mounts

\* print_dev starts save-udev.sh, except for /dev/disk/ devices.
PrintDev(line) ==
    IF line \in Ignored
    THEN UNCHANGED <<pc, helpers>>
    ELSE /\ helpers' = helpers \union
              {[event |-> [line |-> line, action |-> action], by |-> crashes]}
         /\ pc' = "waiting"

\* Variant with a bug: the last line is not looked at.
ExamineButLast == /\ pc = "scanning"
                  /\ scan # << >>
                  /\ scan' = Tail(scan)
                  /\ IF Len(scan) = 1 \/ Head(scan) \in Range(Other)
                     THEN UNCHANGED <<pc, helpers>>
                     ELSE PrintDev(Head(scan))
                  /\ UNCHANGED <<mounts, copy, action, log, crashes, changes, calm>>

\* compare: a line the other file does not have is an event.
Examine == /\ pc = "scanning"
           /\ scan # << >>
           /\ scan' = Tail(scan)
           /\ IF Head(scan) \in Range(Other)
              THEN UNCHANGED <<pc, helpers>>
              ELSE PrintDev(Head(scan))
           /\ UNCHANGED <<mounts, copy, action, log, crashes, changes, calm>>

\* pclose returns when the helper has written its line.
HelperDone == /\ pc = "waiting"
              /\ \A h \in helpers : h.by # crashes
              /\ pc' = "scanning"
              /\ UNCHANGED <<mounts, copy, action, scan, helpers, log, crashes, changes, calm>>

\* compare: after the scan the table is read once more, for the copy.
EndScan == /\ pc = "scanning"
           /\ scan = << >>
           /\ SyncFiles
           /\ pc' = "polling"
           /\ UNCHANGED <<mounts, action, scan, helpers, log, crashes, changes, calm>>

Listener == Start \/ Count \/ Unchanged \/ Open \/ Examine \/ HelperDone \/ EndScan

\* save-udev.sh: one line at the end of the log, unless /tmp is full.
SaveUdev(h) == /\ h \in helpers
               /\ \/ log' = Append(log, h.event) /\ UNCHANGED cuts
                  \/ MoreUpsets /\ cuts' = cuts + 1 /\ UNCHANGED log
               /\ helpers' = helpers \ {h}
               /\ UNCHANGED <<mounts, snapshot, copied, pc, action, scan, crashes, changes, calm>>

\* The listener dies; listener-daemon.sh starts the next one.
Crash == /\ MoreUpsets
         /\ crashes' = crashes + 1
         /\ pc' = "starting"
         /\ scan' = << >>
         /\ calm' = FALSE
         /\ UNCHANGED <<mounts, copy, action, helpers, log, changes>>

Next == \/ \E line \in Lines, kind \in {Mount, Umount} : Change(line, kind)
        \/ Listener
        \/ \E h \in helpers : SaveUdev(h)
        \/ Crash

Spec == Init /\ [][Next]_vars

\* The listener and its helpers keep running; nobody has to mount anything.
FairSpec == Spec /\ WF_vars(Listener) /\ WF_vars(\E h \in helpers : SaveUdev(h))
------------------------------------------------------------------------------
(* Properties. *)

TypeOK == /\ mounts   \in Seq(Lines)
          /\ snapshot \in Seq(Lines) /\ copied \in BOOLEAN /\ cuts \in 0..MaxUpsets
          /\ pc       \in {"starting", "polling", "opening", "scanning", "waiting"}
          /\ action   \in {Mount, Umount}
          /\ scan     \in Seq(Lines)
          /\ helpers  \subseteq Helper
          /\ log      \in Seq(Event)
          /\ crashes  \in 0..MaxUpsets
          /\ changes  \in Seq(Event)
          /\ calm     \in BOOLEAN

Times(e, events) == Cardinality({i \in DOMAIN events : events[i] = e})

\* Events in the log or on their way there.
Reported(e) == Times(e, log) + Cardinality({h \in helpers : h.event = e})

\* No change is reported twice and nothing is reported that did not happen: the
\* copy taken after a scan, and again by a restarted listener, covers every line
\* already reported, in whatever order the table changed meanwhile.  A copy that failed
\* makes a file system that is mounted look new once, and never one look gone.
ReportsAreReal == \A e \in Event :
    Reported(e) <= Times(e, changes) + (IF e.action = Mount THEN cuts ELSE 0)

\* The listener has nothing left to do.
AtRest == pc = "polling" /\ helpers = {} /\ snapshot = mounts

\* When changes wait for the listener and no write fails, each of them is in the log exactly
\* once when it is at rest ("listen in changes of /proc/mounts and exec SAVE_UDEV script",
\* head of mount_listener.c).
AllReported == AtRest /\ calm /\ cuts = 0 =>
                   \A e \in Event : e.line \notin Ignored => Times(e, log) = Times(e, changes)

\* A difference between the table and the copy is noticed when changes wait for the
\* listener: compare copies the table again, or the difference goes away by itself.  An
\* empty copy is put right when /tmp has room again; only without a file does the
\* listener wait for its end.
Differs == Range(snapshot) # Range(mounts)
NoticedWhenCalm == Differs ~> (~Differs \/ ~calm \/ ~copied)
==============================================================================
