---------------------------- MODULE NetController ----------------------------
(***************************************************************************)
(* The tcos-net-controller program (tnc/tcos-net-controller.c), which      *)
(* blocks and unblocks a user's network traffic by editing the OUTPUT      *)
(* chain of iptables.  The XML-RPC method tcos.tnc starts one process of   *)
(* it per call; every iptables command such a process runs is one step,    *)
(* so the steps of processes that overlap interleave.                      *)
(*                                                                         *)
(* The chain is one sequence, shared with every other rule of the machine. *)
(* A rule is deleted by its line number, and the numbers are read once     *)
(* before the first deletion.                                              *)
(***************************************************************************)
EXTENDS NetRules, FiniteSets, SequencesExt

CONSTANTS
    Procs,        \* slots for tnc processes that may run at the same time
    Chains,       \* OUTPUT chains the machine may start with
    Forks,        \* outcomes of popen: {TRUE}, or BOOLEAN when fork may fail
    ForeignRules, \* rules other programs append to OUTPUT
    MaxForeign,   \* bound on the number of these in the chain
    MaxCommands   \* bound on the number of commands of a behaviour

\* No rule is tagged before the first command.
ASSUME ChainsAssumption == \A ch \in Chains : /\ ch \in Seq(Rule)
                                             /\ \A n \in DOMAIN ch : ~ch[n].tagged
ASSUME ForksAssumption  == Forks \subseteq BOOLEAN
ASSUME ForeignAssumption == \A rule \in ForeignRules : rule \in Rule /\ ~rule.tagged
ASSUME BoundAssumption  == MaxCommands \in Nat /\ MaxForeign \in Nat

VARIABLES
    chain,    \* the rules of OUTPUT, in order: iptables numbers them from 1
    pc,       \* where each process is in the program
    cmd,      \* its command line
    ret,      \* the caller flush_iptables_user returns to
    todo,     \* the line numbers it has yet to delete
    ports,    \* the ports it has yet to block
    reply,    \* what its last command printed
    issued,   \* commands started so far
    foreign,  \* history: the rules other programs have put in the chain, in order
    began,    \* history: the chain when each running command began
    stale     \* history: another process deleted a rule since the listing

vars == <<chain, pc, cmd, ret, todo, ports, reply, issued, foreign, began, stale>>

Idle == "idle"
Labels == {Idle, "counting", "listing", "deleting", "routing", "blocking",
           "accepting", "dropping"}
------------------------------------------------------------------------------
StatusIptablesUser(user) == \E n \in DOMAIN chain : Own(chain[n], user)

\* Variant with a bug: --only-ports=yes flushes the whole list.
ListingAll(c) == {n \in DOMAIN chain : Own(chain[n], c.user)}

\* The line numbers iptables, grep and awk print.  A listing that fits split's array (255
\* numbers) and fgets' buffer (1023 characters) is taken whole; longer ones are not modelled.
Listing(c) == {n \in DOMAIN chain : Flushed(chain[n], c)}

\* Variant with a bug: without tac.
IsNextFirst(n, lines) == n \in lines /\ \A m \in lines : m >= n

\* tac: the line that goes first is the last one of those left.
IsNext(n, lines) == n \in lines /\ \A m \in lines : m <= n

\* iptables -D OUTPUT n, which refuses a number beyond the chain.
DeleteLine(n) == IF n \in DOMAIN chain THEN RemoveAt(chain, n) ELSE chain

\* Variant with a bug: iptables -I OUTPUT.
InsertFor(c, rule) == IF c.user \in Known THEN <<rule>> \o chain ELSE chain

\* iptables -A OUTPUT, which refuses a user name it cannot resolve.
AppendFor(c, rule) == IF c.user \in Known THEN Append(chain, rule) ELSE chain
------------------------------------------------------------------------------
NoCommand == [op |-> "none"]

Init == /\ chain \in Chains
        /\ pc     = [p \in Procs |-> Idle]
        /\ cmd    = [p \in Procs |-> NoCommand]
        /\ ret    = [p \in Procs |-> "none"]
        /\ todo   = [p \in Procs |-> {}]
        /\ ports  = [p \in Procs |-> << >>]
        /\ reply  = [p \in Procs |-> ""]
        /\ issued = 0
        /\ foreign = chain
        /\ began  = [p \in Procs |-> << >>]
        /\ stale  = [p \in Procs |-> FALSE]

Goto(p, label) == pc' = [pc EXCEPT ![p] = label]

\* main prints its answer and exits.
Exit(p, answer) == /\ Goto(p, Idle)
                   /\ reply'  = [reply EXCEPT ![p] = answer]
                   /\ cmd'    = [cmd EXCEPT ![p] = NoCommand]
                   /\ began'  = [began EXCEPT ![p] = << >>]

\* flush_iptables_user is called by add_iptables_user ("add"), by main after
\* add_iptables_user failed ("failed"), and by main for enable-internet.
CallFlush(p, caller) == /\ Goto(p, "counting")
                        /\ ret' = [ret EXCEPT ![p] = caller]

FlushReturns(p, ok) ==
    \/ /\ ret[p] = "add"
       /\ Goto(p, "routing")
       /\ UNCHANGED <<reply, cmd, began>>
    \/ /\ ret[p] = "failed"
       /\ Exit(p, "disable-error")
    \/ /\ ret[p] = "enable"
       /\ Exit(p, IF ok THEN "enabled" ELSE "enable-error")

\* add_iptables_user returned i.
AddReturns(p, ok) ==
    \/ ok  /\ Exit(p, "disabled") /\ UNCHANGED ret
    \/ ~ok /\ CallFlush(p, "failed") /\ UNCHANGED <<reply, cmd, began>>

\* add_iptables_user after the port rules.
AfterPorts(p) == IF cmd[p].only
                 THEN AddReturns(p, cmd[p].portsArg = "list")
                 ELSE Goto(p, "accepting") /\ UNCHANGED <<reply, cmd, ret, began>>
------------------------------------------------------------------------------
\* main: a command that changes nothing.
Refuse(p, c) == /\ pc[p] = Idle
                /\ issued < MaxCommands
                /\ issued' = issued + 1
                /\ \/ ~CheckUser(c.caller) /\ Exit(p, "denied")
                   \/ CheckUser(c.caller) /\ ~WellFormed(c) /\ Exit(p, "usage")
                /\ UNCHANGED <<chain, ret, todo, ports, foreign, stale>>

\* main: status; status_iptables_user answers 0 when popen fails.
Status(p, c) == /\ pc[p] = Idle
                /\ issued < MaxCommands
                /\ issued' = issued + 1
                /\ CheckUser(c.caller) /\ WellFormed(c) /\ c.op = "status"
                /\ \E forked \in Forks :
                      Exit(p, IF forked /\ StatusIptablesUser(c.user)
                              THEN "disabled" ELSE "enabled")
                /\ UNCHANGED <<chain, ret, todo, ports, foreign, stale>>

\* main: disable-internet and enable-internet both begin with a flush.
Start(p, c) == /\ pc[p] = Idle
               /\ issued < MaxCommands
               /\ issued' = issued + 1
               /\ CheckUser(c.caller) /\ WellFormed(c) /\ c.op # "status"
               /\ CallFlush(p, IF c.op = "enable-internet" THEN "enable" ELSE "add")
               /\ cmd'    = [cmd EXCEPT ![p] = c]
               /\ ports'  = [ports EXCEPT ![p] = IF c.portsArg = "list" THEN c.ports ELSE << >>]
               /\ began'  = [began EXCEPT ![p] = chain]
               /\ UNCHANGED <<chain, todo, reply, foreign, stale>>

\* flush_iptables_user: return at once when the user has no rule.
Count(p) == /\ pc[p] = "counting"
            /\ \E forked \in Forks :
                  IF forked /\ StatusIptablesUser(cmd[p].user)
                  THEN Goto(p, "listing") /\ UNCHANGED <<reply, cmd, began>>
                  ELSE FlushReturns(p, TRUE)
            /\ UNCHANGED <<chain, ret, todo, ports, issued, foreign, stale>>

\* flush_iptables_user: read the line numbers.  When awk prints none, fgets
\* leaves line[] uninitialised: what it holds is no line number iptables
\* accepts, or reading it ends the process.
List(p) == /\ pc[p] = "listing"
           /\ \E forked \in Forks, survives \in BOOLEAN :
                 \/ /\ forked /\ Listing(cmd[p]) # {}
                    /\ todo' = [todo EXCEPT ![p] = Listing(cmd[p])]
                    /\ Goto(p, "deleting")
                    /\ UNCHANGED <<reply, cmd, began>>
                 \/ /\ forked /\ Listing(cmd[p]) = {}
                    /\ IF survives THEN FlushReturns(p, TRUE) ELSE Exit(p, "died")
                    /\ UNCHANGED todo
                 \/ /\ ~forked
                    /\ FlushReturns(p, FALSE)
                    /\ UNCHANGED todo
           /\ stale' = [stale EXCEPT ![p] = FALSE]
           /\ UNCHANGED <<chain, ret, ports, issued, foreign>>

\* flush_iptables_user: one iptables -D per number.
Delete(p) ==
    /\ pc[p] = "deleting"
    /\ \E n \in todo[p], forked \in Forks :
          /\ IsNext(n, todo[p])
          /\ todo' = [todo EXCEPT ![p] = @ \ {n}]
          /\ chain' = IF forked THEN DeleteLine(n) ELSE chain
          /\ stale' = [q \in Procs |-> stale[q] \/ (q # p /\ pc[q] = "deleting" /\ chain' # chain)]
          /\ IF todo[p] = {n}
             THEN FlushReturns(p, TRUE)
             ELSE UNCHANGED <<pc, reply, cmd, began>>
    /\ UNCHANGED <<ret, ports, issued, foreign>>

\* add_iptables_user: ip route, for the network behind ethX.  Without one,
\* dirred[] is uninitialised as well.
Route(p) == /\ pc[p] = "routing"
            /\ \E forked \in Forks :
                  \/ ~forked /\ AddReturns(p, FALSE)
                  \/ /\ forked /\ cmd[p].portsArg = "list"
                     /\ Goto(p, "blocking")
                     /\ UNCHANGED <<reply, cmd, ret, began>>
                  \/ forked /\ cmd[p].portsArg # "list" /\ AfterPorts(p)
                  \/ forked /\ ~cmd[p].net /\ Exit(p, "died") /\ UNCHANGED ret
            /\ UNCHANGED <<chain, todo, ports, issued, foreign, stale>>

\* add_iptables_user: one DROP per port that check_port accepts.
Block(p) == /\ pc[p] = "blocking"
            /\ ports[p] # << >>
            /\ ports' = [ports EXCEPT ![p] = Tail(@)]
            /\ \E forked \in Forks :
                  chain' = IF forked /\ CheckPort(Head(ports[p]))
                           THEN AppendFor(cmd[p], TncRule(cmd[p], "tcp", Head(ports[p]), "any", "DROP"))
                           ELSE chain
            /\ UNCHANGED <<pc, cmd, ret, todo, reply, issued, foreign, began, stale>>

PortsBlocked(p) == /\ pc[p] = "blocking"
                   /\ ports[p] = << >>
                   /\ AfterPorts(p)
                   /\ UNCHANGED <<chain, todo, ports, issued, foreign, stale>>

\* add_iptables_user: let the user's traffic to 127.0.0.0/8 through.
Accept(p) == /\ pc[p] = "accepting"
             /\ \E forked \in Forks :
                   \/ /\ forked
                      /\ chain' = AppendFor(cmd[p], TncRule(cmd[p], "all", 0, "loopback", "ACCEPT"))
                      /\ Goto(p, "dropping")
                      /\ UNCHANGED <<reply, cmd, ret, began>>
                   \/ ~forked /\ AddReturns(p, FALSE) /\ UNCHANGED chain
             /\ UNCHANGED <<todo, ports, issued, foreign, stale>>

\* add_iptables_user: drop what leaves the network of ethX; iptables refuses
\* the rule when no network was found.
Drop(p) == /\ pc[p] = "dropping"
           /\ \E forked \in Forks :
                 /\ chain' = IF forked /\ cmd[p].net
                             THEN AppendFor(cmd[p], TncRule(cmd[p], "all", 0, "outside", "DROP"))
                             ELSE chain
                 /\ AddReturns(p, forked)
           /\ UNCHANGED <<todo, ports, issued, foreign, stale>>

Step(p) == Count(p) \/ List(p) \/ Delete(p) \/ Route(p) \/ Block(p)
           \/ PortsBlocked(p) \/ Accept(p) \/ Drop(p)

\* Another program appends a rule to OUTPUT.
AppendForeign(rule) ==
    /\ Len(foreign) < MaxForeign
    /\ chain' = Append(chain, rule)
    /\ foreign' = Append(foreign, rule)
    /\ UNCHANGED <<pc, cmd, ret, todo, ports, reply, issued, stale>>
    /\ began' = [p \in Procs |-> IF pc[p] = Idle THEN began[p] ELSE Append(began[p], rule)]

Next == \/ \E p \in Procs :
               \/ \E c \in Commands : Refuse(p, c) \/ Status(p, c) \/ Start(p, c)
               \/ Step(p)
        \/ \E rule \in ForeignRules : AppendForeign(rule)

Spec == Init /\ [][Next]_vars
------------------------------------------------------------------------------
(* Properties. *)

TypeOK == /\ chain \in Seq(Rule)
          /\ pc     \in [Procs -> Labels]
          /\ cmd    \in [Procs -> Commands \union {NoCommand}]
          /\ ret    \in [Procs -> {"none", "add", "failed", "enable"}]
          /\ todo   \in [Procs -> SUBSET (Nat \ {0})]
          /\ ports  \in [Procs -> Seq(Int)]
          /\ reply  \in [Procs -> Replies]
          /\ issued \in 0..MaxCommands
          /\ foreign \in Seq(Rule)
          /\ began  \in [Procs -> Seq(Rule)]
          /\ stale  \in [Procs -> BOOLEAN]

\* As long as no other process has deleted a rule since a process listed its
\* lines, every line number it still holds names a rule it was asked to flush:
\* deleting from the last line up, skipping a deletion whose fork failed, and
\* appends of other processes leave the remaining numbers right.
FreshLinesAreOwn ==
    \A p \in Procs : pc[p] = "deleting" /\ ~stale[p] => todo[p] \subseteq Listing(cmd[p])

\* A process whose numbers are not stale never deletes a rule without the
\* TCOS_TNC comment, or of a uid its command does not name.
OnlyOwnRulesDeleted ==
    [][\A p \in Procs : \A n \in todo[p] \ todo'[p] :
          ~stale[p] /\ chain' # chain => /\ Own(chain[n], cmd[p].user)
                                        /\ chain' = RemoveAt(chain, n)]_vars

\* The rules of the machine that tnc did not add are all there, in order
\* (comment in status_iptables_user: "allow not remove other rules").
OtherRulesKept == Only(chain, Untagged) = foreign

\* At no moment, in the middle of a command either, does a user have the rule
\* that drops what leaves the network without the rule before it that lets
\* loopback traffic through: add_iptables_user appends them in that order and
\* flush_iptables_user deletes them in the opposite one.
LoopbackNeverCut ==
    \A n \in DOMAIN chain :
        chain[n].tagged /\ chain[n].dest = "outside" =>
            \E m \in 1..(n - 1) : /\ chain[m].tagged /\ chain[m].owner = chain[n].owner
                                  /\ chain[m].dest = "loopback"
==============================================================================
