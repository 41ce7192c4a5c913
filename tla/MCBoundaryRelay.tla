--------------------------- MODULE MCBoundaryRelay ---------------------------
(* Relays 1 and 2 are the package of one turn, job 3 is the handoff of       *)
(* another; two failures instead of three exhaust a relay.                   *)
EXTENDS BoundaryRelay

MCTurn == [i \in Rows |-> IF i \in Commands THEN "package" ELSE "handoff"]
=============================================================================
