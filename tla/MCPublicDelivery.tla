--------------------------- MODULE MCPublicDelivery ---------------------------
(* One customer turn and completions that tell two events; a completion has   *)
(* two chunks, so that a customer turn can meet one sent in part.             *)
EXTENDS PublicDelivery

MCChunks   == [t \in Turns |-> IF t \in Completions THEN 2 ELSE 1]
MCDeadline == [t \in Turns |-> MaxTime]
=============================================================================
