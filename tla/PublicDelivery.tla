---------------------------- MODULE PublicDelivery ----------------------------
(***************************************************************************)
(* The replies of one lead on their way to the channel: the turns that     *)
(* commit them to boundary_public_outbox, the completion turns that tell   *)
(* news (a reservation result, a payment offer, a settlement) without a    *)
(* customer message, the customer turns that absorb a completion nobody    *)
(* has tried to send, and BoundaryPublicDeliveryWorker.                    *)
(*                                                                         *)
(* Every query of the claim compares rows of one lead only; with LIMIT 1   *)
(* other leads can delay a row and nothing else.  fencing_token is raised  *)
(* by every claim and a run claims once, so "row held under token n" is    *)
(* modelled by the run that holds the row.                                 *)
(***************************************************************************)
EXTENDS Naturals, FiniteSets

CONSTANTS
  Events,         \* CompletionEvents of the lead
  Customers,      \* turns of customer batches
  Completions,    \* turns of the completion projector (completion-turn:...)
  Chunks,         \* [turn -> number of chunks of its reply]
  Deadline,       \* [turn -> deadline_at of its rows]
  Runs,           \* concurrent invocations of run_once
  LeaseTTL,       \* lease_ttl
  MaxTime         \* bound: last instant of the clock

Turns == Customers \cup Completions
None  == "none"

ASSUME PublicTurns ==
  /\ Customers \cap Completions = {}
  /\ IsFiniteSet(Turns)
  /\ None \notin Turns \cup Runs
ASSUME PublicReplies ==
  /\ Chunks \in [Turns -> Nat \ {0}]
  /\ Deadline \in [Turns -> Nat \ {0}]
ASSUME PublicBounds ==
  /\ LeaseTTL \in Nat \ {0}
  /\ MaxTime \in Nat

Rows  == UNION {{t} \X (0..Chunks[t] - 1) : t \in Turns}
Never == MaxTime + LeaseTTL + 1       \* a timestamp column that is NULL
Ended == {"delivered", "manual_review", "cancelled"}

VARIABLES
  clock,
  \* turns: the events that have happened, state_version of a committed turn,
  \* the events its reply tells, the turn in boundary_event_sources
  happened, version, tells, coverage,
  \* the turn that holds the lead's state fence, prepared and not committed
  plan,
  \* boundary_public_outbox and boundary_dispatch_authority
  status, holder, expires, authority,
  \* how often the channel got a row
  sends,
  \* one run_once per element of Runs
  pc, now, row

turnVars == <<happened, version, tells, coverage, plan>>
rowVars  == <<status, holder, expires, authority>>
runVars  == <<pc, now, row>>
vars     == <<clock, turnVars, rowVars, sends, runVars>>

NoPlan == [turn |-> None, events |-> {}, absorbs |-> {}]
NoRow  == <<None, 0>>

Init ==
  /\ clock = 0
  /\ happened = {}
  /\ version = [t \in Turns |-> 0]
  /\ tells = [t \in Turns |-> {}]
  /\ coverage = [e \in Events |-> None]
  /\ plan = NoPlan
  /\ status = [x \in Rows |-> "absent"]
  /\ holder = [x \in Rows |-> None]
  /\ expires = [x \in Rows |-> Never]
  /\ authority = [x \in Rows |-> "available"]
  /\ sends = [x \in Rows |-> 0]
  /\ pc = [r \in Runs |-> "idle"]
  /\ now = [r \in Runs |-> 0]
  /\ row = [r \in Runs |-> NoRow]

Tick ==
  /\ clock < MaxTime
  /\ clock' = clock + 1
  /\ UNCHANGED <<turnVars, rowVars, sends, runVars>>

(* A reservation outcome, a payment offer or a settlement becomes final. *)
Happen(e) ==
  /\ e \notin happened
  /\ happened' = happened \cup {e}
  /\ UNCHANGED <<clock, version, tells, coverage, plan, rowVars, sends, runVars>>
-----------------------------------------------------------------------------
RowsOf(t) == {x \in Rows : x[1] = t}
Fresh     == {e \in happened : coverage[e] = None}

(* is_unattempted_completion; a row that is pending or leased has
   dispatch_slots_consumed = 0 *)
Unattempted(t) ==
  /\ t \in Completions
  /\ \A x \in RowsOf(t) : status[x] \in {"pending", "leased"}

(* The projector offers events it saw uncovered to a turn of their own.
   acquire_fence takes the state from whoever was preparing a turn, and a
   completion consumed meanwhile is given up (CompletionSuperseded). *)
PrepareCompletion(t, news) ==
  /\ version[t] = 0
  /\ news # {}
  /\ news \subseteq Fresh
  /\ plan' = [turn |-> t, events |-> news, absorbs |-> {}]
  /\ UNCHANGED <<clock, happened, version, tells, coverage, rowVars, sends, runVars>>

(* A customer turn tells whatever news nobody has tried to tell. *)
PrepareCustomer(t) ==
  LET untold == {e \in happened : coverage[e] # None /\ Unattempted(coverage[e])} IN
  /\ version[t] = 0
  /\ plan' = [turn |-> t, events |-> Fresh \cup untold,
              absorbs |-> {coverage[e] : e \in untold}]
  /\ UNCHANGED <<clock, happened, version, tells, coverage, rowVars, sends, runVars>>

(* Mutant: what was unattempted when the turn was prepared is cancelled. *)
StillUnattemptedUnchecked == TRUE

(* cancel_unattempted_completions looks again, within the transaction. *)
StillUnattempted == \A t \in plan.absorbs : Unattempted(t)

(* commit_turn_v8: absorbed rows are cancelled (their authority stays
   bound), the sources are covered, the new rows are inserted and bound. *)
CommitTurn ==
  LET t == plan.turn IN
  /\ t # None
  /\ StillUnattempted
  /\ clock < Deadline[t]
  /\ version' = [version EXCEPT ![t] = Cardinality({u \in Turns : version[u] # 0}) + 1]
  /\ tells' = [tells EXCEPT ![t] = plan.events]
  /\ coverage' = [e \in Events |->
                    IF e \in plan.events /\ coverage[e] = None THEN t ELSE coverage[e]]
  /\ status' = [x \in Rows |-> CASE x[1] = t -> "pending"
                                 [] x[1] \in plan.absorbs -> "cancelled"
                                 [] OTHER -> status[x]]
  /\ holder' = [x \in Rows |-> IF x[1] \in plan.absorbs THEN None ELSE holder[x]]
  /\ expires' = [x \in Rows |-> IF x[1] \in plan.absorbs THEN Never ELSE expires[x]]
  /\ authority' = [x \in Rows |-> IF x[1] = t THEN "bound" ELSE authority[x]]
  /\ plan' = NoPlan
  /\ UNCHANGED <<clock, happened, sends, runVars>>

(* The delivery advanced, the authority expired, or the turn failed before
   its commit; it may be prepared again. *)
AbandonTurn ==
  /\ plan # NoPlan
  /\ plan' = NoPlan
  /\ UNCHANGED <<clock, happened, version, tells, coverage, rowVars, sends, runVars>>
-----------------------------------------------------------------------------
EndRun(r) ==
  /\ pc' = [pc EXCEPT ![r] = "idle"]
  /\ now' = [now EXCEPT ![r] = 0]
  /\ row' = [row EXCEPT ![r] = NoRow]

Goto(r, s) ==
  /\ pc' = [pc EXCEPT ![r] = s]
  /\ UNCHANGED <<now, row>>

(* The cycle reads the time once for all it does. *)
BeginRun(r) ==
  /\ pc[r] = "idle"
  /\ pc' = [pc EXCEPT ![r] = "begun"]
  /\ now' = [now EXCEPT ![r] = clock]
  /\ UNCHANGED <<clock, turnVars, rowVars, sends, row>>

(* Mutant: a lapsed lease stays. *)
RecoveredFencedOnly(x, t) ==
  IF status[x] = "dispatch_fenced" /\ expires[x] <= t THEN "manual_review"
  ELSE status[x]

(* _recover_expired_public: an uncertain send is for people, a lapsed lease
   is pending again, and what is pending past its deadline is cancelled. *)
Recovered(x, t) ==
  LET lapsed == expires[x] <= t IN
  CASE status[x] = "dispatch_fenced" /\ lapsed -> "manual_review"
    [] status[x] = "pending" \/ (status[x] = "leased" /\ lapsed) ->
         IF Deadline[x[1]] <= t THEN "cancelled" ELSE "pending"
    [] OTHER -> status[x]

(* Mutant: an uncertain send does not hold back the next turn. *)
ActiveUnfenced == {"pending", "leased"}

Active == {"pending", "leased", "dispatch_fenced"}

(* Rows the claim may take once st holds the recovered statuses: every
   earlier turn of the lead is through, and so is the chunk before. *)
Eligible(st) ==
  {x \in Rows :
     /\ st[x] = "pending"
     /\ \A y \in Rows : version[y[1]] < version[x[1]] => st[y] \notin Active
     /\ x[2] = 0 \/ st[<<x[1], x[2] - 1>>] = "delivered"}

(* claim_public_delivery; the recovery is kept when there is nothing to
   claim. *)
Claim(r) ==
  LET t        == now[r]
      st       == [x \in Rows |-> Recovered(x, t)]
      eligible == Eligible(st)
      x        == CHOOSE y \in eligible : TRUE       \* there is at most one
      changed  == {y \in Rows : st[y] # status[y]}
  IN
  /\ pc[r] = "begun"
  /\ authority' = [y \in Rows |->
       CASE y \in changed /\ st[y] = "manual_review" -> "manual_review"
         [] y \in changed /\ st[y] = "cancelled" -> "closed"
         [] OTHER -> authority[y]]
  /\ IF eligible = {}
     THEN /\ status' = st
          /\ holder' = [y \in Rows |-> IF y \in changed THEN None ELSE holder[y]]
          /\ expires' = [y \in Rows |-> IF y \in changed THEN Never ELSE expires[y]]
          /\ EndRun(r)
     ELSE /\ status' = [st EXCEPT ![x] = "leased"]
          /\ holder' = [y \in Rows |-> IF y = x THEN r
                                       ELSE IF y \in changed THEN None ELSE holder[y]]
          /\ expires' = [y \in Rows |-> IF y = x THEN t + LeaseTTL
                                        ELSE IF y \in changed THEN Never ELSE expires[y]]
          /\ pc' = [pc EXCEPT ![r] = "claimed"]
          /\ row' = [row EXCEPT ![r] = x]
          /\ UNCHANGED now
  /\ UNCHANGED <<clock, turnVars, sends>>

(* WHERE status IN ... AND owner=? AND fencing_token=? *)
Holds(r, statuses) == status[row[r]] \in statuses /\ holder[row[r]] = r

(* authority and row are compared and set in one transaction *)
MayFence(r) == authority[row[r]] = "bound" /\ Holds(r, {"leased"})

Fence(r) ==
  /\ pc[r] = "claimed"
  /\ MayFence(r)
  /\ status' = [status EXCEPT ![row[r]] = "dispatch_fenced"]
  /\ authority' = [authority EXCEPT ![row[r]] = "dispatch_fenced"]
  /\ Goto(r, "fenced")
  /\ UNCHANGED <<clock, turnVars, holder, expires, sends>>

(* The comparison fails, or the transaction does. *)
FenceFails(r) ==
  /\ pc[r] = "claimed"
  /\ Goto(r, "failing")
  /\ UNCHANGED <<clock, turnVars, rowVars, sends>>

(* send returns an acceptance, or does not say whether the channel has the
   message (PublicDeliveryUnknown, any other exception) ... *)
Send(r) ==
  /\ pc[r] = "fenced"
  /\ sends' = [sends EXCEPT ![row[r]] = @ + 1]
  /\ \E s \in {"accepted", "failing"} : Goto(r, s)
  /\ UNCHANGED <<clock, turnVars, rowVars>>

(* ... or it never got there: PublicDeliveryNotCalled says so, a rejection
   and an unknown outcome go to review. *)
SendFails(r) ==
  /\ pc[r] = "fenced"
  /\ \E s \in {"not_called", "failing"} : Goto(r, s)
  /\ UNCHANGED <<clock, turnVars, rowVars, sends>>

(* The row of r leaves its lease. *)
Close(r, st, auth) ==
  /\ status' = [status EXCEPT ![row[r]] = st]
  /\ holder' = [holder EXCEPT ![row[r]] = None]
  /\ expires' = [expires EXCEPT ![row[r]] = Never]
  /\ authority' = [authority EXCEPT ![row[r]] = auth]
  /\ EndRun(r)
  /\ UNCHANGED <<clock, turnVars, sends>>

(* complete_public_acceptance *)
Complete(r) ==
  /\ pc[r] = "accepted"
  /\ Holds(r, {"dispatch_fenced"})
  /\ authority[row[r]] = "dispatch_fenced"
  /\ Close(r, "delivered", "terminal")

CompleteFails(r) ==
  /\ pc[r] = "accepted"
  /\ Goto(r, "failing")
  /\ UNCHANGED <<clock, turnVars, rowVars, sends>>

(* release_public_delivery_not_called *)
Release(r) ==
  /\ pc[r] = "not_called"
  /\ Holds(r, {"dispatch_fenced"})
  /\ authority[row[r]] = "dispatch_fenced"
  /\ Close(r, "pending", "bound")

(* mark_public_delivery_manual_review *)
MarkReview(r) ==
  /\ pc[r] = "failing"
  /\ Holds(r, {"leased", "dispatch_fenced"})
  /\ authority[row[r]] \in {"bound", "dispatch_fenced"}
  /\ Close(r, "manual_review", "manual_review")

(* The row is no longer r's: the release or the mark raises. *)
Lost(r) ==
  /\ pc[r] \in {"not_called", "failing"}
  /\ ~Holds(r, {"leased", "dispatch_fenced"})
  /\ EndRun(r)
  /\ UNCHANGED <<clock, turnVars, rowVars, sends>>

(* The process dies, or cannot write what it knows.  Bound: only leases that
   lapse within MaxTime are orphaned. *)
Crash(r) ==
  /\ pc[r] \notin {"idle", "begun"}
  /\ Holds(r, {"leased", "dispatch_fenced"}) => expires[row[r]] <= MaxTime
  /\ EndRun(r)
  /\ UNCHANGED <<clock, turnVars, rowVars, sends>>
-----------------------------------------------------------------------------
RunStep(r) ==
  \/ BeginRun(r)
  \/ Claim(r)
  \/ Fence(r)
  \/ FenceFails(r)
  \/ Send(r)
  \/ SendFails(r)
  \/ Complete(r)
  \/ CompleteFails(r)
  \/ Release(r)
  \/ MarkReview(r)
  \/ Lost(r)

Next ==
  \/ Tick
  \/ \E e \in Events : Happen(e)
  \/ \E t \in Completions, news \in SUBSET Events : PrepareCompletion(t, news)
  \/ \E t \in Customers : PrepareCustomer(t)
  \/ CommitTurn
  \/ AbandonTurn
  \/ \E r \in Runs : RunStep(r) \/ Crash(r)

Spec == Init /\ [][Next]_vars

(* Time passes, a run that has begun goes on, and the worker cycle runs the
   delivery again and again. *)
FairSpec ==
  /\ Spec
  /\ WF_vars(Tick)
  /\ \A r \in Runs : WF_vars(RunStep(r))
-----------------------------------------------------------------------------
(* Every column and every run holds a value of its type. *)
TypeOK ==
  /\ clock \in 0..MaxTime
  /\ happened \subseteq Events
  /\ version \in [Turns -> 0..Cardinality(Turns)]
  /\ tells \in [Turns -> SUBSET Events]
  /\ coverage \in [Events -> Turns \cup {None}]
  /\ plan \in [turn : Turns \cup {None}, events : SUBSET Events, absorbs : SUBSET Completions]
  /\ status \in [Rows -> {"absent"} \cup Active \cup Ended]
  /\ holder \in [Rows -> Runs \cup {None}]
  /\ expires \in [Rows -> 0..Never]
  /\ authority \in [Rows -> {"available", "bound", "dispatch_fenced", "terminal",
                             "manual_review", "closed"}]
  /\ sends \in [Rows -> Nat]
  /\ pc \in [Runs -> {"idle", "begun", "claimed", "fenced", "accepted", "not_called", "failing"}]
  /\ now \in [Runs -> 0..MaxTime]
  /\ row \in [Runs -> Rows \cup {NoRow}]

Sent(t) == \E x \in RowsOf(t) : sends[x] > 0

(* Customers hear everything once: no row reaches the channel twice, a
   cancelled row never does and a delivered one has; and of two turns that
   tell the same news (a completion and the customer turn that absorbed it,
   possibly while a worker was about to send it) only one is ever sent. *)
NewsToldOnce ==
  /\ \A x \in Rows : /\ sends[x] <= 1
                     /\ status[x] = "delivered" => sends[x] = 1
                     /\ status[x] \in {"pending", "leased", "cancelled"} => sends[x] = 0
  /\ \A t, u \in Turns : t # u /\ Sent(t) /\ Sent(u) => tells[t] \cap tells[u] = {}

Before(x, y) == version[x[1]] < version[y[1]] \/ (x[1] = y[1] /\ x[2] < y[2])

(* The conversation keeps its order: what is sent is not older than anything
   sent before.  The one exception is the run that sends after its fence has
   lapsed and people have been told. *)
OrderKept ==
  [][\A x, y \in Rows :
       sends'[x] > sends[x] /\ Before(x, y) /\ sends[y] > 0 =>
         status[x] = "manual_review"]_vars

(* Every committed row is delivered, reviewed or cancelled, whatever fails on
   the way and although a turn waits for the turns before it. *)
EveryRowEnds ==
  \A x \in Rows : (status[x] = "pending") ~> (status[x] \in Ended)
=============================================================================
