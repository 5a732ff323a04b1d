------------------------------ MODULE DeviceLog ------------------------------
(***************************************************************************)
(* The log of device events, /tmp/tcos-udevd.log, and the requests that    *)
(* devicesctl.sh serves for the XML-RPC method tcos.devices.  The udev     *)
(* scripts append a line per event; --getudev prints the log and empties   *)
(* it.  Answers of several lines go through one temporary file, the same   *)
(* for every devicesctl.sh process, and devices.c reads the first          *)
(* BSIZE - 1 bytes of what is printed.                                     *)
(*                                                                         *)
(* One step is one command of the shell; events are numbered as they are   *)
(* appended.  A file that does not exist and an empty one print the same,  *)
(* so they are not told apart.                                             *)
(***************************************************************************)
EXTENDS Naturals, Sequences, FiniteSets, SequencesExt

CONSTANTS
    Procs,       \* slots for devicesctl.sh processes that may run together
    Options,     \* the options that are asked for
    Disks,       \* numbers of the disks of the terminal, in order
    Parts,       \* numbers of the partitions of the disk asked for, in order
    Capacity,    \* lines devices.c has room for
    MaxEvents,   \* bound on the events appended
    MaxRequests  \* bound on the requests

ASSUME OptionsAssumption  == Options \subseteq {"--getudev", "--showlocaldisks", "--getparts"}
ASSUME AnswersAssumption  == Disks \in Seq(Nat) /\ Parts \in Seq(Nat) \ {<< >>}
ASSUME CapacityAssumption == Capacity \in Nat \ {0}
ASSUME BoundAssumption    == MaxEvents \in Nat /\ MaxRequests \in Nat

VARIABLES
    log,        \* the numbers of the events in /tmp/tcos-udevd.log
    appended,   \* events appended so far
    tmp,        \* the lines of /tmp/devicesctl
    pc,         \* where each process is
    option,     \* the option it serves
    output,     \* the lines it has to print
    todo,       \* the lines it has yet to append to tmp
    count,      \* the lines it found in tmp
    sent,       \* the lines it has printed
    reply,      \* those devices.c has taken
    requests,   \* requests so far
    delivered,  \* history: the events in answers to --getudev, in order
    missed,     \* history: an event came while the log was emptied, or was cut off
    left        \* history: tmp holds the lines of a script that was killed

vars == <<log, appended, tmp, pc, option, output, todo, count, sent, reply,
          requests, delivered, missed, left>>

Line   == [kind : {"event", "disk", "part", "blank"}, n : Nat]
Unknow == [kind |-> "blank", n |-> 1]   \* "unknow", when there is no output
Blank  == [kind |-> "blank", n |-> 0]   \* what read_line prints without a file

LinesOf(kind, numbers) == [i \in DOMAIN numbers |-> [kind |-> kind, n |-> numbers[i]]]

Labels == {"idle", "reading", "emptying", "storing", "appending", "counting",
           "printing", "removing"}

Init == /\ log       = << >>
        /\ appended  = 0
        /\ tmp       = << >>
        /\ pc        = [p \in Procs |-> "idle"]
        /\ option    = [p \in Procs |-> "none"]
        /\ output    = [p \in Procs |-> << >>]
        /\ todo      = [p \in Procs |-> << >>]
        /\ count     = [p \in Procs |-> 0]
        /\ sent      = [p \in Procs |-> 0]
        /\ reply     = [p \in Procs |-> << >>]
        /\ requests  = 0
        /\ delivered = << >>
        /\ missed    = FALSE
        /\ left      = FALSE

Goto(p, from, to) == pc[p] = from /\ pc' = [pc EXCEPT ![p] = to]
------------------------------------------------------------------------------
(* The udev scripts: tcos-udevd.sh, save-udev.sh and cdrom-mount. *)

\* Variant with a bug: > for >>.
AppendOnly(n) == <<n>>

AppendTo(n) == Append(log, n)

AppendEvent == /\ appended < MaxEvents
               /\ appended' = appended + 1
               /\ log' = AppendTo(appended')
               /\ missed' = (missed \/ \E p \in Procs : pc[p] = "emptying")
               /\ UNCHANGED <<tmp, pc, option, output, todo, count, sent, reply,
                              requests, delivered, left>>
------------------------------------------------------------------------------
(* devicesctl.sh. *)

First == [o \in {"--getudev", "--showlocaldisks", "--getparts"} |->
             CASE o = "--getudev"        -> "reading"
               [] o = "--showlocaldisks" -> "storing"
               [] o = "--getparts"       -> "appending"]

Request(p, o) ==
    /\ requests < MaxRequests
    /\ Goto(p, "idle", First[o])
    /\ option'   = [option EXCEPT ![p] = o]
    /\ output'   = [output EXCEPT ![p] = CASE o = "--getudev"        -> << >>
                                           [] o = "--showlocaldisks" -> LinesOf("disk", Disks)
                                           [] o = "--getparts"       -> LinesOf("part", Parts)]
    /\ todo'     = [todo EXCEPT ![p] = IF o = "--getparts" THEN LinesOf("part", Parts) ELSE << >>]
    /\ count'    = [count EXCEPT ![p] = 0]
    /\ sent'     = [sent EXCEPT ![p] = 0]
    /\ reply'    = [reply EXCEPT ![p] = << >>]
    /\ requests' = requests + 1
    /\ UNCHANGED <<log, appended, tmp, delivered, missed, left>>

\* --getudev: output=$(cat log)
ReadLog(p) == /\ Goto(p, "reading", "emptying")
              /\ output' = [output EXCEPT ![p] = LinesOf("event", log)]
              /\ UNCHANGED <<log, appended, tmp, option, todo, count, sent, reply,
                             requests, delivered, missed, left>>

\* Variant with a bug: the log is left as it is.
EmptyLogNot(p) == /\ Goto(p, "emptying", "storing")
                  /\ UNCHANGED <<log, appended, tmp, option, output, todo, count, sent,
                                 reply, requests, delivered, missed, left>>

\* --getudev: cat /dev/null > log
EmptyLog(p) == /\ Goto(p, "emptying", "storing")
               /\ log' = << >>
               /\ UNCHANGED <<appended, tmp, option, output, todo, count, sent, reply,
                              requests, delivered, missed, left>>

\* Variant with a bug: >> for >.
StoreAfter(lines) == tmp \o lines

Store(lines) == lines

\* echo "$output" > tmp, which is "unknow" when there is no output
StoreOutput(p) ==
    /\ Goto(p, "storing", "counting")
    /\ output' = [output EXCEPT ![p] = IF @ = << >> THEN <<Unknow>> ELSE @]
    /\ tmp' = Store(output'[p])
    /\ left' = FALSE
    /\ UNCHANGED <<log, appended, option, todo, count, sent, reply, requests,
                   delivered, missed>>

\* --getparts: each partition is appended to tmp
AppendPart(p) ==
    /\ Goto(p, "appending", IF Len(todo[p]) = 1 THEN "counting" ELSE "appending")
    /\ tmp' = Append(tmp, Head(todo[p]))
    /\ todo' = [todo EXCEPT ![p] = Tail(@)]
    /\ UNCHANGED <<log, appended, option, output, count, sent, reply, requests,
                   delivered, missed, left>>

\* num_lines=$(cat tmp | wc -l)
CountLines(p) == /\ Goto(p, "counting", "printing")
                 /\ count' = [count EXCEPT ![p] = Len(tmp)]
                 /\ UNCHANGED <<log, appended, tmp, option, output, todo, sent, reply,
                                requests, delivered, missed, left>>

\* head -i tmp | tail -1
ReadLine(i) == IF tmp = << >> THEN Blank
               ELSE IF i \in DOMAIN tmp THEN tmp[i] ELSE Last(tmp)

\* Variant with a bug: the size of the buffer is not respected.
TakeAll(lines, line) == Append(lines, line)

\* devices.c, fgets: what does not fit is not read.
Take(lines, line) == IF Len(lines) < Capacity THEN Append(lines, line) ELSE lines

PrintLine(p) == /\ sent[p] < count[p]
                /\ Goto(p, "printing", "printing")
                /\ sent'  = [sent EXCEPT ![p] = @ + 1]
                /\ reply' = [reply EXCEPT ![p] = Take(@, ReadLine(sent'[p]))]
                /\ UNCHANGED <<log, appended, tmp, option, output, todo, count,
                               requests, delivered, missed, left>>

AllPrinted(p) == /\ sent[p] = count[p]
                 /\ Goto(p, "printing", "removing")
                 /\ UNCHANGED <<log, appended, tmp, option, output, todo, count, sent,
                                reply, requests, delivered, missed, left>>

Nth(S, k) == CHOOSE i \in S : Cardinality({j \in S : j <= i}) = k

\* The numbers of the lines that are events.
Events(lines) == LET found == {i \in DOMAIN lines : lines[i].kind = "event"}
                 IN  [k \in 1..Cardinality(found) |-> lines[Nth(found, k)].n]

\* The answer reaches the console when the script has ended.
Answer(p) == IF option[p] = "--getudev"
             THEN /\ delivered' = delivered \o Events(reply[p])
                  /\ missed' = (missed \/ Events(reply[p]) # Events(output[p]))
             ELSE UNCHANGED <<delivered, missed>>

\* pclose closed the pipe before the script was done: unless the web server that
\* started the script had it ignore SIGPIPE, its next line kills it.
Killed(p) == /\ Len(reply[p]) = Capacity
             /\ sent[p] < count[p]
             /\ Goto(p, "printing", "idle")
             /\ Answer(p)
             /\ left' = TRUE
             /\ UNCHANGED <<log, appended, tmp, option, output, todo, count, sent, reply,
                            requests>>

\* Variant with a bug: tmp is left behind.
RemoveTmpNot(p) == /\ Goto(p, "removing", "idle")
                   /\ Answer(p)
                   /\ UNCHANGED <<log, appended, tmp, option, output, todo, count, sent,
                                  reply, requests, left>>

\* rm tmp
RemoveTmp(p) == /\ Goto(p, "removing", "idle")
                /\ tmp' = << >>
                /\ left' = FALSE
                /\ Answer(p)
                /\ UNCHANGED <<log, appended, option, output, todo, count, sent, reply,
                               requests>>

Script(p) == \/ ReadLog(p) \/ EmptyLog(p) \/ StoreOutput(p) \/ AppendPart(p)
             \/ CountLines(p) \/ PrintLine(p) \/ AllPrinted(p) \/ Killed(p) \/ RemoveTmp(p)

Next == \/ AppendEvent
        \/ \E p \in Procs : Script(p) \/ \E o \in Options : Request(p, o)

Spec == Init /\ [][Next]_vars
------------------------------------------------------------------------------
(* Properties. *)

Lines  == Seq(Line)

\* Every variable has its type; an answer fits the buffer of devices.c.
TypeOK ==
    /\ log       \in Seq(Nat)
    /\ appended  \in 0..MaxEvents
    /\ tmp       \in Lines
    /\ pc        \in [Procs -> Labels]
    /\ option    \in [Procs -> Options \union {"none"}]
    /\ output    \in [Procs -> Lines]
    /\ todo      \in [Procs -> Lines]
    /\ count     \in [Procs -> Nat]
    /\ sent      \in [Procs -> Nat]
    /\ reply     \in [Procs -> Lines]
    /\ \A p \in Procs : Len(reply[p]) <= Capacity /\ sent[p] <= count[p]
    /\ requests  \in 0..MaxRequests
    /\ delivered \in Seq(Nat)
    /\ missed    \in BOOLEAN
    /\ left      \in BOOLEAN

\* What an answer holds are the first lines of the output of its own request: the
\* temporary file holds no line of another request, except those --getparts finds
\* in the file of a script that was killed.
AnswersAreOwn == \A p \in Procs : pc[p] = "removing" /\ ~left =>
                     reply[p] = SubSeq(output[p], 1, Min({Len(output[p]), Capacity}))
------------------------------------------------------------------------------
(* Refinement, when requests are served one at a time. *)

\* Events that were taken from the log and have not been answered.
Taken == LET takers == {p \in Procs : /\ option[p] = "--getudev"
                                      /\ pc[p] \notin {"idle", "reading", "emptying"}}
         IN  IF takers = {} THEN << >> ELSE Events(output[CHOOSE p \in takers : TRUE])

Feed == INSTANCE EventFeed WITH posted <- appended, pending <- Taken \o log

\* DeviceLog implements EventFeed: requests served one at a time lose an event only
\* if it comes between the two commands of --getudev or does not fit the buffer.
ImplementsFeed == Feed!Spec
==============================================================================
