----------------------- MODULE MCReservationWorkflow -----------------------
(* One offer for each of two queries, so that the answer to the wrong search
   can be told from the answer to the right one. *)
EXTENDS ReservationWorkflow

CONSTANTS q1, q2, o1, o2
MCOfferQuery == [o \in Offers |-> IF o = o1 THEN q1 ELSE q2]
=============================================================================
