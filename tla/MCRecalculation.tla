-------------------------- MODULE MCRecalculation --------------------------
(* One recalculation beside two request goroutines. *)
EXTENDS Recalculation, TLC

CONSTANTS a1, a2, v1, w1, w2, r1

MCEvents == {[type |-> "dispute_lost", delta |-> -150],
             [type |-> "policy_violation", delta |-> -100]}

MCSymmetry == Permutations(Agents) \cup Permutations(Workers)

\* Everything asked for was done and nobody has been active for MaxDays.
Finished ==
  /\ started = MaxOps /\ recalcs = MaxRecalcs
  /\ \A w \in Workers : tx[w] = Idle
  /\ \A r \in Recalculators : recalc[r] = Resting
  /\ \A a \in Agents : Registered(a) /\ days[a] = MaxDays
  /\ UNCHANGED allVars

MCSpec == RInit /\ [][RNext \/ Finished]_allVars
=============================================================================
