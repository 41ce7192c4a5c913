----------------------------- MODULE MCTurnInbox -----------------------------
(* Both events come from one lead; processes are interchangeable. *)
EXTENDS TurnInbox, TLC

OneLead == [e \in Events |-> 1]
Symmetry == Permutations(Workers)
=============================================================================
