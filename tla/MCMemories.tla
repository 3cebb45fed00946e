----------------------------- MODULE MCMemories -----------------------------
(* The memories of small sets of agents. *)
EXTENDS Memories, TLC

\* An approval and a rejection.
MCChanges == {50, -100}

MCSymmetry == Permutations(Agents) \cup Permutations(Ids) \cup Permutations(Workers)

\* Everything asked for was done.
Finished ==
  /\ started = MaxOps
  /\ \A w \in Workers : tx[w] = Idle
  /\ \A i \in Ids : copy[i] = None
  /\ UNCHANGED vars

MCSpec == Init /\ [][Next \/ Finished]_vars
=============================================================================
