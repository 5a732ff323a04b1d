--------------------------- MODULE MC_Screenshots ---------------------------
(* Three calls, in any order and overlap. *)
EXTENDS Screenshots, TLC

CONSTANTS c1, c2, c3

MCCalls == {c1, c2, c3}
AnyOrder == Permutations(MCCalls)
==============================================================================
