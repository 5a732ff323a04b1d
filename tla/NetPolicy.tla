------------------------------ MODULE NetPolicy ------------------------------
(***************************************************************************)
(* What tcos-net-controller promises when its commands do not overlap: each *)
(* uid has its own list of rules, a command changes the list of the uid it *)
(* names in one step and no other, and the answer tells what was done.     *)
(* No line number occurs here.                                             *)
(***************************************************************************)
EXTENDS NetRules

CONSTANTS Procs, Chains, ForeignRules

VARIABLES
    rules,    \* the TCOS_TNC rules of each uid, in order
    others,   \* every other rule of the chain, in order
    answer    \* the last answer of each process

policyVars == <<rules, others, answer>>

Init == /\ rules = [u \in Uids |-> << >>]
        /\ others \in Chains
        /\ answer = [p \in Procs |-> ""]

Answers(p, a) == answer' = [answer EXCEPT ![p] = a]

Refused(p) == /\ \E a \in {"denied", "usage"} : Answers(p, a)
              /\ UNCHANGED <<rules, others>>

\* status tells whether the user has any rule.
Queried(p, user) == /\ Answers(p, IF rules[GetUid(user)] = << >> THEN "enabled" ELSE "disabled")
                    /\ UNCHANGED <<rules, others>>

\* What a flush leaves of the list of the uid.
Kept(c) == Only(rules[GetUid(c.user)], {rule \in Rule : ~Flushed(rule, c)})

\* What a disable adds to it: nothing when the name is unknown.
PortRules(c) == LET Good == Only(c.ports, GoodPorts)
                IN [i \in DOMAIN Good |-> TncRule(c, "tcp", Good[i], "any", "DROP")]

NetworkRules(c) ==
    IF c.only THEN << >>
    ELSE <<TncRule(c, "all", 0, "loopback", "ACCEPT")>>
         \o (IF c.net THEN <<TncRule(c, "all", 0, "outside", "DROP")>> ELSE << >>)

Added(c) == IF c.user \notin Known THEN << >>
            ELSE (IF c.portsArg = "list" THEN PortRules(c) ELSE << >>) \o NetworkRules(c)

Becomes(c, list) == /\ rules' = [rules EXCEPT ![GetUid(c.user)] = list]
                    /\ UNCHANGED others

Enabled(p, c) == Becomes(c, Kept(c)) /\ Answers(p, "enabled")

\* A disable that asks for nothing, neither ports nor the network, only flushes.
AsksNothing(c) == c.op = "disable-internet" /\ c.only /\ c.portsArg # "list"

Disabled(p, c) == IF AsksNothing(c)
                  THEN Becomes(c, Kept(c)) /\ Answers(p, "disable-error")
                  ELSE Becomes(c, Kept(c) \o Added(c)) /\ Answers(p, "disabled")

\* The process may die after its flush: when it is asked to flush port rules of
\* a user whose rules are none of these (a disable that asks for nothing flushes
\* twice), and when a disable finds no network.
Died(p, c) == /\ \/ c.op = "disable-internet" /\ ~c.net
                 \/ /\ c.only /\ Kept(c) # << >>
                    /\ AsksNothing(c) \/ Kept(c) = rules[GetUid(c.user)]
              /\ Becomes(c, Kept(c))
              /\ Answers(p, "died")

\* Another program appends a rule.
Appended(rule) == /\ others' = Append(others, rule)
                  /\ UNCHANGED <<rules, answer>>

Next == \/ \E rule \in ForeignRules : Appended(rule)
        \/ \E p \in Procs :
               \/ Refused(p)
               \/ \E u \in Users : Queried(p, u)
               \/ \E c \in Commands :
                      /\ CheckUser(c.caller) /\ WellFormed(c)
                      /\ \/ c.op = "enable-internet" /\ Enabled(p, c)
                         \/ c.op = "disable-internet" /\ Disabled(p, c)
                         \/ c.op # "status" /\ Died(p, c)

Spec == Init /\ [][Next]_policyVars
==============================================================================
