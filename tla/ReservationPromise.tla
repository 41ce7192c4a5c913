------------------------- MODULE ReservationPromise -------------------------
(***************************************************************************)
(* What reservation_execution promises to whoever authorized a command,    *)
(* without leases, tokens, clocks, runs or a reconciler: an accepted       *)
(* command is committed at most once, only a committed command reaches the *)
(* provider, once, and it gets at most one result, which is true and stays *)
(* true.  The commands of a package are committed one after the other, and *)
(* no more of them after a result that is not known.                       *)
(*                                                                         *)
(* The promise is weaker than one might expect in one respect: the request *)
(* of a command whose result was already given as unknown may still leave. *)
(***************************************************************************)
EXTENDS Naturals

CONSTANTS Commands,   \* command ids
          Package     \* [Commands -> package]

VARIABLES
  stage,     \* "absent", "pending" or "committed"
  result,    \* the result given to the customer, or "none"
  calls,     \* requests the provider received for the command
  effects    \* reservations the provider made for it

promiseVars == <<stage, result, calls, effects>>

Init ==
  /\ stage = [c \in Commands |-> "absent"]
  /\ result = [c \in Commands |-> "none"]
  /\ calls = [c \in Commands |-> 0]
  /\ effects = [c \in Commands |-> 0]

(* The commands S of a confirmed draft are accepted together. *)
Accept(S) ==
  /\ \A c \in S : stage[c] = "absent"
  /\ stage' = [c \in Commands |-> IF c \in S THEN "pending" ELSE stage[c]]
  /\ UNCHANGED <<result, calls, effects>>

(* From here on the provider may be called, and nobody can take that back.
   Every sibling committed before has a result, and a certain one. *)
Commit(c) ==
  /\ stage[c] = "pending"
  /\ result[c] = "none"
  /\ \A o \in Commands \ {c} :
       Package[o] = Package[c] /\ stage[o] = "committed" =>
         result[o] \in {"effect_confirmed", "called_no_effect"}
  /\ stage' = [stage EXCEPT ![c] = "committed"]
  /\ UNCHANGED <<result, calls, effects>>

(* The one request; n reservations come of it. *)
Call(c, n) ==
  /\ stage[c] = "committed"
  /\ calls[c] = 0
  /\ result[c] \in {"none", "called_unknown"}
  /\ calls' = [calls EXCEPT ![c] = 1]
  /\ effects' = [effects EXCEPT ![c] = n]
  /\ UNCHANGED <<stage, result>>

(* v may be given as the result of c: it is true, and no later step of this
   specification makes it false. *)
Truthful(c, v) ==
  \/ v = "not_called" /\ stage[c] = "pending"
  \/ v = "effect_confirmed" /\ effects[c] = 1
  \/ v = "called_no_effect" /\ calls[c] = 1 /\ effects[c] = 0
  \/ v = "called_unknown" /\ stage[c] = "committed"

(* One command gets its result, or several lose hope at once. *)
Report(S, v) ==
  /\ \A c \in S : result[c] = "none" /\ Truthful(c, v)
  /\ result' = [c \in Commands |-> IF c \in S THEN v ELSE result[c]]
  /\ UNCHANGED <<stage, calls, effects>>

Results == {"not_called", "effect_confirmed", "called_no_effect", "called_unknown"}

Next ==
  \/ \E S \in SUBSET Commands : Accept(S)
  \/ \E c \in Commands : Commit(c)
  \/ \E c \in Commands, n \in {0, 1} : Call(c, n)
  \/ \E S \in SUBSET Commands, v \in Results : Report(S, v)

Spec == Init /\ [][Next]_promiseVars
=============================================================================
