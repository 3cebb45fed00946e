------------------------------ MODULE MCTrust ------------------------------
(* The trust layer on small instances. *)
EXTENDS TrustProperties, TLC

CONSTANTS a1, a2, v1, v2, w1, w2

\* Changes that bring 500 within one bonus of 1000 and one penalty of 0.
MCEvents == {[type |-> "other", delta |-> 490],
             [type |-> "policy_violation", delta |-> -450]}

MCOneEvent == {[type |-> "policy_violation", delta |-> -450]}

MCSymmetry ==
  Permutations(Agents) \cup Permutations(Workers) \cup Permutations(Verifications)

\* All requests served and every agent registered: nothing is left to happen.
Finished ==
  /\ started = MaxOps
  /\ \A w \in Workers : tx[w] = Idle
  /\ \A a \in Agents : Registered(a)
  /\ UNCHANGED vars

MCSpec == Init /\ [][Next \/ Finished]_vars
=============================================================================
