----------------------------- MODULE MCRequests -----------------------------
(* A few requests to one server, some of them pages of its audit log. *)
EXTENDS AuditQuery

\* The process has ended.
Ended == ~Running /\ UNCHANGED queryVars

MCFairSpec == QueryInit /\ [][QueryNext \/ Ended]_queryVars /\ QueryFair
=============================================================================
