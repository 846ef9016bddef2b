---------------------------- MODULE MCSuccession ----------------------------
(* A line with one viceroy and two generations to come; handlers are       *)
(* interchangeable.                                                        *)
EXTENDS Succession, TLC

Symmetry == Permutations(Request) \cup Permutations(Caller)
=============================================================================
