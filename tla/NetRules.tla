------------------------------- MODULE NetRules -------------------------------
(***************************************************************************)
(* What a command of tcos-net-controller is, what an iptables rule is, and *)
(* the parts of tnc/tcos-net-controller.c that compute without touching    *)
(* the chain.                                                              *)
(***************************************************************************)
EXTENDS Integers, Sequences

CONSTANTS
    Users,        \* the user names a command may carry
    Known,        \* those that are in the passwd file
    Uids,         \* user ids
    UidOf,        \* user id of each known user
    Root,         \* uid 0, what get_uid answers for an unknown name
    Commands      \* the command lines that are tried

(* An argv of tnc, and who runs it: uid0 and euid0 are getuid() = 0 and    *)
(* geteuid() = 0, tcos is membership of the group tcos.  only is FALSE for *)
(* --only-ports=no.  portsArg is what argv[3] of disable-internet holds:   *)
(* nothing ("none", the call is one argument short), a word without        *)
(* --ports= ("other"), or a list.  net: the kernel has a route for ethX.   *)
Caller  == [uid0 : BOOLEAN, euid0 : BOOLEAN, tcos : BOOLEAN]
Command == [op : {"disable-internet", "enable-internet", "status"},
            user : Users, only : BOOLEAN, portsArg : {"none", "other", "list"},
            ports : Seq(Int), net : BOOLEAN, caller : Caller]

(* A rule of the OUTPUT chain.  tagged: it carries the comment TCOS_TNC.   *)
Rule == [tagged : BOOLEAN, owner : Uids, prot : {"tcp", "all"}, port : Int,
         dest : {"any", "loopback", "outside"}, target : {"ACCEPT", "DROP"}]

\* The rules of other programs, and those tnc added for a uid.
Untagged == {rule \in Rule : ~rule.tagged}
OfUid(u) == {rule \in Rule : rule.tagged /\ rule.owner = u}

ASSUME UsersAssumption    == Known \subseteq Users /\ UidOf \in [Known -> Uids] /\ Root \in Uids
ASSUME CommandsAssumption == Commands \subseteq Command

Replies == {"", "denied", "usage", "enabled", "disabled", "enable-error",
            "disable-error", "died"}
------------------------------------------------------------------------------
\* The elements of the sequence s that are in the set K, in order: SelectSeq,
\* in a form the provers can expand.
Only(s, K) ==
    LET f[n \in 0..Len(s)] == IF n = 0 THEN << >>
                              ELSE IF s[n] \in K THEN Append(f[n - 1], s[n]) ELSE f[n - 1]
    IN  f[Len(s)]

\* check_port: 1..65535 and not one of BLACKLIST_PORTS.
GoodPorts == (1..65535) \ {8998, 8999}
CheckPort(port) == port \in GoodPorts

\* Variant with a bug: the name instead of the uid.
GetUidName(user) == IF user \in Known THEN user ELSE Root

\* get_uid: an unknown name has the uid of root.
GetUid(user) == IF user \in Known THEN UidOf[user] ELSE Root

\* check_user: root, or a member of group tcos through the setuid bit.
CheckUser(caller) == \/ caller.uid0 /\ caller.euid0
                     \/ caller.tcos /\ caller.euid0

\* The argc each sub-command insists on.
WellFormed(c) == (c.op = "disable-internet") = (c.portsArg # "none")

\* Variant with a bug: any rule of the user, without grep TCOS_TNC.
OwnUntagged(rule, user) == rule.owner = GetUid(user)

\* The awk script of status_iptables_user: a tagged rule of the user.
Own(rule, user) == rule.tagged /\ rule.owner = GetUid(user)

\* The awk script of flush_iptables_user: the tagged rules of the user, or the
\* port rules among them for --only-ports=yes.
Flushed(rule, c) == Own(rule, c.user) /\ (c.only => rule.prot = "tcp")

\* A rule add_iptables_user appends.
TncRule(c, prot, port, dest, target) ==
    [tagged |-> TRUE, owner |-> GetUid(c.user), prot |-> prot, port |-> port,
     dest |-> dest, target |-> target]
==============================================================================
