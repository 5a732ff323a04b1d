------------------------------- MODULE MC_Net -------------------------------
(* Instances of NetController for TLC. *)
EXTENDS NetRefinement

CONSTANTS OneSlot, TwoSlots   \* sets of process slots

MCUsers == {"ana", "bob", "ghost"}
MCKnown == {"ana", "bob"}
MCUids  == {"uid0", "uid1000", "uid1001"}
MCUidOf == [u \in MCKnown |-> IF u = "ana" THEN "uid1000" ELSE "uid1001"]
MCRoot  == "uid0"

Member   == [uid0 |-> FALSE, euid0 |-> TRUE, tcos |-> TRUE]
Stranger == [uid0 |-> FALSE, euid0 |-> TRUE, tcos |-> FALSE]

FirewallRule == [tagged |-> FALSE, owner |-> MCRoot, prot |-> "tcp", port |-> 22,
                 dest |-> "any", target |-> "ACCEPT"]
MCChains == {<<FirewallRule>>}
MCForeignRules == {FirewallRule}

Base == [op |-> "status", user |-> "ana", only |-> FALSE, portsArg |-> "none",
         ports |-> << >>, net |-> TRUE, caller |-> Member]

Disable(user, only, list) == [Base EXCEPT !.op = "disable-internet", !.user = user,
                                          !.only = only, !.portsArg = "list", !.ports = list]

\* disable-internet: the network, ports (one of them refused) or both; without a
\* route for ethX; for a name that is not in the passwd file.
Disables == {Disable("ana", FALSE, << >>), Disable("ana", TRUE, <<80, 8999>>),
             Disable("ana", FALSE, <<8998, 80>>), Disable("bob", FALSE, << >>),
             Disable("ghost", FALSE, <<80>>),
             [Disable("ana", FALSE, << >>) EXCEPT !.net = FALSE]}

\* A third argument that lists no port.
Nothing == [Base EXCEPT !.op = "disable-internet", !.only = TRUE, !.portsArg = "other"]

Enables(users) == {[Base EXCEPT !.op = "enable-internet", !.user = u, !.only = only] :
                      u \in users, only \in BOOLEAN}

Refused == {[Base EXCEPT !.caller = Stranger],
            [Base EXCEPT !.op = "enable-internet", !.portsArg = "list", !.ports = <<80>>]}

Queries == {Base, [Base EXCEPT !.user = "ghost"]}

SerialCommands == Disables \union Enables({"ana", "ghost"}) \union Queries
                  \union Refused \union {Nothing}

\* Two users, whole blocks and port blocks: enough for numbers to go stale.
OverlapCommands == {Disable("ana", FALSE, << >>), Disable("ana", TRUE, <<80>>),
                    Disable("bob", FALSE, << >>)}
                   \union {c \in Enables({"ana", "bob"}) : ~c.only}
==============================================================================
