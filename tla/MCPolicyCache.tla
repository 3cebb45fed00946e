--------------------------- MODULE MCPolicyCache ---------------------------
(* The policy table and its cache on small instances. *)
EXTENDS PolicyCache, TLC

MCSymmetry == Permutations(Agents) \cup Permutations(Ids) \cup Permutations(Evaluators)
=============================================================================
