--------------------------- MODULE MCHybridSearch ---------------------------
(* One search over a few memories, one more than a query returns, and keys. *)
EXTENDS RouterSearch, TLC

MCSymmetry == Permutations(Memories)

\* The search has ended.
Ended == router.pc \in {"done", "failed"} /\ UNCHANGED routerVars

MCSpec == RouterInit /\ [][RouterNext \/ Ended]_routerVars
=============================================================================
