-------------------------- MODULE MCWorkingMemory --------------------------
(* Working memories on small instances. *)
EXTENDS WorkingMemory, TLC

MCSymmetry == Permutations(Ids) \cup Permutations(Places) \cup Permutations(Workers)

\* Everything asked for was done and has expired.
Finished ==
  /\ clock = MaxOps
  /\ \A w \in Workers : op[w] = Idle
  /\ Empty
  /\ UNCHANGED vars

MCSpec == Init /\ [][Next \/ Finished]_vars
=============================================================================
