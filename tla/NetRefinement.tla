---------------------------- MODULE NetRefinement ----------------------------
(***************************************************************************)
(* NetController, run one command at a time, implements NetPolicy: while a *)
(* command runs, the policy still is the one of the chain it began with,   *)
(* and it changes at the step with which the process exits.                *)
(***************************************************************************)
EXTENDS NetController

Running == {p \in Procs : pc[p] # Idle}

View == IF Running = {} THEN chain ELSE began[CHOOSE p \in Running : TRUE]

Policy == INSTANCE NetPolicy WITH rules  <- [u \in Uids |-> Only(View, OfUid(u))],
                                  others <- Only(View, Untagged),
                                  answer <- reply

\* Commands that do not overlap change exactly the rules of the uid they name,
\* as NetPolicy says, and answer what they did.
ImplementsPolicy == Policy!Spec
==============================================================================
