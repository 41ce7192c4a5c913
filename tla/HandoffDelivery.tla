-------------------------- MODULE HandoffDelivery --------------------------
(***************************************************************************)
(* Human handoffs of reservation_followup: the workflow reducer            *)
(* (handoff.py), the handoff outbox of SQLiteFollowupUnitOfWork (schema    *)
(* v2) and HandoffOutboxWorker, around an external delivery adapter.       *)
(*                                                                         *)
(* One action is one store transaction or one call of the adapter.  The    *)
(* worker claims with the time its caller captured, which may be past, and *)
(* closes a delivery with the current time, so a run can be overtaken      *)
(* between any two of its steps.  An exception of a store method rolls its *)
(* transaction back and ends the run.  Every operation on a handoff that   *)
(* exists begins with _load_handoff, which raises on some states that the  *)
(* operations themselves write.                                            *)
(***************************************************************************)
EXTENDS Naturals, FiniteSets

CONSTANTS
  Handoffs,       \* handoff ids; numbers, because SQL orders by message id
  EmailHandoffs,  \* handoffs whose policy asks for the internal e-mail too
  Runs,           \* concurrent invocations of HandoffOutboxWorker.run_once
  LeaseTTL,       \* lease_ttl
  MaxNotCalled,   \* bound: deliveries the adapter proves it did not call
  MaxTime         \* bound: last instant of the clock

ASSUME HandoffsAssumption ==
  Handoffs \subseteq Nat \ {0} /\ EmailHandoffs \subseteq Handoffs
ASSUME HandoffLeaseAssumption == LeaseTTL \in Nat \ {0}
ASSUME HandoffBounds == MaxNotCalled \in Nat /\ MaxTime \in Nat

VARIABLES
  clock,
  \* handoff_workflows: status, request time, acknowledgement, conflicting
  \* request, effects with a recorded failure
  hstatus, requestedAt, acked, conflict, failed,
  \* handoff_outbox: fencing_token and delivery_attempts are equal
  status, slot, token, expires, updatedAt,
  \* handoff_receipts: messages that have one; of these, the ones dated at or
  \* after the end of the lease that is recorded with the receipt
  receipts, late,
  \* one run_once per element of Runs
  pc, claim, answer,
  \* external adapter: effects on the contact, proofs that it was not called
  sends, notCalled

workflowVars == <<hstatus, requestedAt, acked, conflict, failed>>
rowVars  == <<status, slot, token, expires, updatedAt, receipts, late>>
runVars  == <<pc, claim, answer>>
adapterVars == <<sends, notCalled>>
vars == <<clock, workflowVars, rowVars, runVars, adapterVars>>

Never == MaxTime + LeaseTTL + 1     \* a timestamp column that is NULL
Time  == 0..Never

(* One job per handoff for the customer acknowledgement, one more for the
   internal e-mail where the policy makes it optional. *)
Ack(h) == <<h, "customer_acknowledgement">>
Jobs   == {Ack(h) : h \in Handoffs} \cup {<<h, "internal_email">> : h \in EmailHandoffs}
NoJob   == <<0, "none">>
NoClaim == [job |-> NoJob, token |-> 0, expires |-> Never]

Handoff(j)   == j[1]
JobsOf(h)    == {j \in Jobs : Handoff(j) = h}
IsAck(j)     == j[2] = "customer_acknowledgement"
Cancelled(h) == hstatus[h] = "cancelled"
-----------------------------------------------------------------------------
Init ==
  /\ clock = 0
  /\ hstatus = [h \in Handoffs |-> "absent"]
  /\ requestedAt = [h \in Handoffs |-> 0]
  /\ acked = [h \in Handoffs |-> FALSE]
  /\ conflict = [h \in Handoffs |-> FALSE]
  /\ failed = {}
  /\ status = [j \in Jobs |-> "absent"]
  /\ slot = [j \in Jobs |-> 0]
  /\ token = [j \in Jobs |-> 0]
  /\ expires = [j \in Jobs |-> Never]
  /\ updatedAt = [j \in Jobs |-> 0]
  /\ receipts = {}
  /\ late = {}
  /\ pc = [r \in Runs |-> "idle"]
  /\ claim = [r \in Runs |-> NoClaim]
  /\ answer = [r \in Runs |-> "none"]
  /\ sends = [j \in Jobs |-> 0]
  /\ notCalled = 0

Tick ==
  /\ clock < MaxTime
  /\ clock' = clock + 1
  /\ UNCHANGED <<workflowVars, rowVars, runVars, adapterVars>>

(* open_handoff, and _accept_boundary_handoff of a bundle without history:
   the workflow and its jobs in one transaction.  A replay changes nothing. *)
OpenHandoff(h) ==
  /\ hstatus[h] = "absent"
  /\ hstatus' = [hstatus EXCEPT ![h] = "acknowledgement_pending"]
  /\ requestedAt' = [requestedAt EXCEPT ![h] = clock]
  /\ status' = [j \in Jobs |-> IF Handoff(j) = h THEN "pending" ELSE status[j]]
  /\ updatedAt' = [j \in Jobs |-> IF Handoff(j) = h THEN clock ELSE updatedAt[j]]
  /\ UNCHANGED <<clock, acked, conflict, failed, slot, token, expires, receipts,
                 late, runVars, adapterVars>>

(* _handoff_outbox_jobs: the rows it accepts are pending, leased or
   delivered, a delivered one with a receipt from within its lease. *)
RowLoads(j) ==
  /\ status[j] \in {"pending", "leased", "delivered"}
  /\ status[j] = "leased" =>
       /\ token[j] > 0
       /\ requestedAt[Handoff(j)] <= updatedAt[j] /\ updatedAt[j] < expires[j]
  /\ status[j] = "delivered" => token[j] > 0 /\ j \notin late
  /\ status[j] = "delivered" <=> j \in receipts

(* _load_handoff of a handoff that exists: its rows, an acknowledgement
   exactly with its receipt, a retried row only with a recorded failure, a
   failure only after an attempt, and the status its history allows. *)
Loads(h) ==
  /\ \A j \in JobsOf(h) :
       /\ RowLoads(j)
       /\ status[j] = "pending" /\ token[j] > 0 => j \in failed
       /\ j \in failed => token[j] > 0
  /\ acked[h] <=> Ack(h) \in receipts
  /\ hstatus[h] = "acknowledged" => acked[h] /\ ~conflict[h]
  /\ hstatus[h] = "manual_review" => conflict[h] \/ (Ack(h) \in failed /\ ~acked[h])
  /\ hstatus[h] = "acknowledgement_pending" =>
       ~acked[h] /\ ~conflict[h] /\ Ack(h) \notin failed

(* apply_handoff of a divergent HandoffRequested: recorded once, the
   workflow goes to manual review.  With a stale revision, a date before the
   request or a cancelled workflow nothing is written. *)
RequestConflict(h) ==
  /\ hstatus[h] \notin {"absent", "cancelled"}
  /\ Loads(h)
  /\ ~conflict[h]
  /\ conflict' = [conflict EXCEPT ![h] = TRUE]
  /\ hstatus' = [hstatus EXCEPT ![h] = "manual_review"]
  /\ UNCHANGED <<clock, requestedAt, acked, failed, rowVars, runVars, adapterVars>>

(* apply_handoff of HandoffCancelled; one dated before the recorded history
   is refused.  The outbox rows are not touched. *)
CancelHandoff(h) ==
  /\ hstatus[h] \notin {"absent", "cancelled"}
  /\ Loads(h)
  /\ hstatus' = [hstatus EXCEPT ![h] = "cancelled"]
  /\ UNCHANGED <<clock, requestedAt, acked, conflict, failed, rowVars, runVars,
                 adapterVars>>
-----------------------------------------------------------------------------
EndRun(r) ==
  /\ pc' = [pc EXCEPT ![r] = "idle"]
  /\ claim' = [claim EXCEPT ![r] = NoClaim]
  /\ answer' = [answer EXCEPT ![r] = "none"]

(* _recover_uncertain_handoffs: dispatched rows whose lease has expired *)
Uncertain(t) == {j \in Jobs : status[j] = "leased" /\ slot[j] = 1 /\ expires[j] <= t}

(* reduce_handoff applies an effect failure unless the workflow is
   cancelled; _persist_operational_handoff_transition raises when the
   reducer does not apply it. *)
FailureApplies(j) == ~Cancelled(Handoff(j))

(* Mutant: the workflow of a failed effect keeps its status. *)
StatusAfterFailuresKept(J) == hstatus

(* Status of every workflow after effect failures of the jobs J *)
StatusAfterFailures(J) ==
  [h \in Handoffs |-> IF Ack(h) \in J \ failed /\ ~acked[h] THEN "manual_review"
                                                            ELSE hstatus[h]]

(* Mutant: an expired lease is not offered again. *)
ClaimablePending(j, t) == status[j] = "pending" /\ ~Cancelled(Handoff(j))

(* Rows the query of claim_handoff_outbox offers, after the recovery *)
Claimable(j, t) ==
  /\ j \notin Uncertain(t)
  /\ \/ status[j] = "pending"
     \/ status[j] = "leased" /\ expires[j] <= t
  /\ ~Cancelled(Handoff(j))

(* ORDER BY acknowledgement first, created_at, message_id *)
Precedes(i, j) ==
  \/ IsAck(i) /\ ~IsAck(j)
  \/ /\ IsAck(i) <=> IsAck(j)
     /\ \/ requestedAt[Handoff(i)] < requestedAt[Handoff(j)]
        \/ /\ requestedAt[Handoff(i)] = requestedAt[Handoff(j)]
           /\ Handoff(i) <= Handoff(j)

IsHead(j, t) ==
  /\ Claimable(j, t)
  /\ \A i \in Jobs : Claimable(i, t) => Precedes(j, i)

(* _load_handoff of the candidate, which sees the rows the recovery has just
   put under review *)
CandidateLoads(j, t) ==
  /\ Loads(Handoff(j))
  /\ JobsOf(Handoff(j)) \cap Uncertain(t) = {}

(* "claim time cannot predate the handoff outbox state" *)
ClaimTimeValid(j, t) == t >= requestedAt[Handoff(j)] /\ t >= updatedAt[j]

(* The recovery loads the handoff of each uncertain row, the second row of a
   handoff after the first is under review, and applies a failure that was
   not recorded before. *)
RecoveryRaises(t) ==
  \E j \in Uncertain(t) :
    \/ ~Loads(Handoff(j))
    \/ JobsOf(Handoff(j)) \cap Uncertain(t) # {j}
    \/ j \notin failed /\ ~FailureApplies(j)

(* The recovery raises, or the head cannot be loaded or is newer than the
   caller's time: the claim is rolled back, the recovery with it. *)
ClaimRaises(t) ==
  \/ RecoveryRaises(t)
  \/ \E j \in Jobs : IsHead(j, t) /\ ~(CandidateLoads(j, t) /\ ClaimTimeValid(j, t))

(* Mutant: the recovery closes the row without an event. *)
RecoverUncertainSilently(t) == UNCHANGED <<failed, hstatus>>

(* What the recovery inside a claim records in the workflows *)
RecoverUncertain(t) ==
  /\ failed' = failed \cup Uncertain(t)
  /\ hstatus' = StatusAfterFailures(Uncertain(t))

(* The exception leaves run_once; the next poll starts over. *)
ClaimRefused(r, t) ==
  /\ pc[r] = "idle"
  /\ ClaimRaises(t)
  /\ UNCHANGED vars

ClaimNothing(r, t) ==
  /\ pc[r] = "idle"
  /\ ~ClaimRaises(t)
  /\ \A j \in Jobs : ~IsHead(j, t)
  /\ RecoverUncertain(t)
  /\ status' = [j \in Jobs |-> IF j \in Uncertain(t) THEN "manual_review" ELSE status[j]]
  /\ expires' = [j \in Jobs |-> IF j \in Uncertain(t) THEN Never ELSE expires[j]]
  /\ updatedAt' = [j \in Jobs |-> IF j \in Uncertain(t) THEN t ELSE updatedAt[j]]
  /\ UNCHANGED <<clock, requestedAt, acked, conflict, slot, token, receipts, late,
                 runVars, adapterVars>>

ClaimJob(r, t) ==
  /\ pc[r] = "idle"
  /\ ~ClaimRaises(t)
  /\ RecoverUncertain(t)
  /\ \E c \in Jobs :
       /\ IsHead(c, t)
       /\ status' = [j \in Jobs |-> IF j \in Uncertain(t) THEN "manual_review"
                                    ELSE IF j = c THEN "leased" ELSE status[j]]
       /\ expires' = [j \in Jobs |-> IF j \in Uncertain(t) THEN Never
                                     ELSE IF j = c THEN t + LeaseTTL ELSE expires[j]]
       /\ updatedAt' = [j \in Jobs |-> IF j \in Uncertain(t) \cup {c} THEN t ELSE updatedAt[j]]
       /\ token' = [token EXCEPT ![c] = @ + 1]
       /\ claim' = [claim EXCEPT ![r] = [job |-> c, token |-> token[c] + 1,
                                         expires |-> t + LeaseTTL]]
  /\ pc' = [pc EXCEPT ![r] = "claimed"]
  /\ UNCHANGED <<clock, requestedAt, acked, conflict, slot, receipts, late, answer,
                 adapterVars>>
-----------------------------------------------------------------------------
(* Row and claim agree on status, owner, token and attempts *)
Holds(r) == /\ status[claim[r].job] = "leased"
            /\ token[claim[r].job] = claim[r].token

(* Mutant: the cancellation of the handoff is not looked at. *)
MayDispatchCancelled(r) ==
  /\ Holds(r)
  /\ Loads(Handoff(claim[r].job))
  /\ slot[claim[r].job] = 0

(* begin_handoff_delivery: with the caller's time, at which the claim was
   made, so that a lease which is still in the row never counts as expired *)
MayDispatch(r) ==
  /\ Holds(r)
  /\ Loads(Handoff(claim[r].job))
  /\ ~Cancelled(Handoff(claim[r].job))
  /\ slot[claim[r].job] = 0

BeginDelivery(r) ==
  /\ pc[r] = "claimed"
  /\ MayDispatch(r)
  /\ slot' = [slot EXCEPT ![claim[r].job] = 1]
  /\ pc' = [pc EXCEPT ![r] = "dispatching"]
  /\ UNCHANGED <<clock, workflowVars, status, token, expires, updatedAt, receipts,
                 late, claim, answer, adapterVars>>

BeginRefused(r) ==
  /\ pc[r] = "claimed"
  /\ ~MayDispatch(r)
  /\ EndRun(r)
  /\ UNCHANGED <<clock, workflowVars, rowVars, adapterVars>>

(* deliver: a receipt, which the adapter dates with its clock, an unknown
   result (HandoffDeliveryUnknown or any other exception), or
   HandoffDeliveryNotCalled *)
Deliver(r) ==
  /\ pc[r] = "dispatching"
  /\ pc' = [pc EXCEPT ![r] = "answered"]
  /\ \/ /\ answer' = [answer EXCEPT ![r] = IF clock < claim[r].expires THEN "receipt"
                                                                   ELSE "late_receipt"]
        /\ sends' = [sends EXCEPT ![claim[r].job] = @ + 1]
        /\ UNCHANGED notCalled
     \/ /\ answer' = [answer EXCEPT ![r] = "unknown"]
        /\ \E n \in {0, 1} : sends' = [sends EXCEPT ![claim[r].job] = @ + n]
        /\ UNCHANGED notCalled
     \/ /\ notCalled < MaxNotCalled
        /\ answer' = [answer EXCEPT ![r] = "not_called"]
        /\ notCalled' = notCalled + 1
        /\ UNCHANGED sends
  /\ UNCHANGED <<clock, workflowVars, rowVars, claim>>

(* _assert_live_handoff_claim with allow_dispatched_completion: expiry is
   forgiven to a row that is dispatched and still leased to this claim. *)
LiveOrDispatched(r) ==
  /\ Holds(r)
  /\ clock < claim[r].expires \/ slot[claim[r].job] = 1

Received == {"receipt", "late_receipt"}

(* complete_handoff_outbox: the acknowledgement's event must be applied, the
   e-mail has none.  The date of the receipt is compared with the start of
   the lease and with now, never with the end of the lease. *)
CompletionApplies(r) ==
  /\ Loads(Handoff(claim[r].job))
  /\ LiveOrDispatched(r)
  /\ IsAck(claim[r].job) => ~Cancelled(Handoff(claim[r].job))

CompleteDelivery(r) ==
  LET j == claim[r].job
      h == Handoff(j)
  IN
  /\ pc[r] = "answered" /\ answer[r] \in Received
  /\ CompletionApplies(r)
  /\ status' = [status EXCEPT ![j] = "delivered"]
  /\ expires' = [expires EXCEPT ![j] = Never]
  /\ updatedAt' = [updatedAt EXCEPT ![j] = clock]
  /\ receipts' = receipts \cup {j}
  /\ late' = IF answer[r] = "late_receipt" THEN late \cup {j} ELSE late
  /\ IF IsAck(j)
     THEN /\ acked' = [acked EXCEPT ![h] = TRUE]
          /\ hstatus' = [hstatus EXCEPT ![h] = IF conflict[h] THEN "manual_review"
                                                              ELSE "acknowledged"]
     ELSE UNCHANGED <<acked, hstatus>>
  /\ EndRun(r)
  /\ UNCHANGED <<clock, requestedAt, conflict, failed, slot, token, adapterVars>>

(* Mutant: an unknown result goes back to the queue like a failed call. *)
ReleasedStatusPending(a) == "pending"

(* release_handoff_outbox: where a failed delivery leaves its row *)
ReleasedStatus(a) == IF a = "unknown" THEN "manual_review" ELSE "pending"

ReleaseApplies(r) ==
  /\ Loads(Handoff(claim[r].job))
  /\ LiveOrDispatched(r)
  /\ claim[r].job \in failed \/ FailureApplies(claim[r].job)

(* mark_handoff_outbox_unknown and release_handoff_outbox; only the first
   failure of an effect becomes an event. *)
ReleaseDelivery(r) ==
  LET j == claim[r].job
      s == ReleasedStatus(answer[r])
  IN
  /\ pc[r] = "answered" /\ answer[r] \notin Received
  /\ ReleaseApplies(r)
  /\ status' = [status EXCEPT ![j] = s]
  /\ slot' = [slot EXCEPT ![j] = IF s = "pending" THEN 0 ELSE @]
  /\ expires' = [expires EXCEPT ![j] = Never]
  /\ updatedAt' = [updatedAt EXCEPT ![j] = clock]
  /\ failed' = failed \cup {j}
  /\ hstatus' = StatusAfterFailures({j})
  /\ EndRun(r)
  /\ UNCHANGED <<clock, requestedAt, acked, conflict, token, receipts, late, adapterVars>>

(* The claim was overtaken, or the workflow was cancelled or became
   unreadable meanwhile. *)
FinishRefused(r) ==
  /\ pc[r] = "answered"
  /\ IF answer[r] \in Received THEN ~CompletionApplies(r) ELSE ~ReleaseApplies(r)
  /\ EndRun(r)
  /\ UNCHANGED <<clock, workflowVars, rowVars, adapterVars>>

(* The process dies.  Bound: only leases that expire within MaxTime are
   orphaned, so that the model sees them recovered. *)
Crash(r) ==
  /\ pc[r] # "idle"
  /\ claim[r].expires <= MaxTime
  /\ EndRun(r)
  /\ UNCHANGED <<clock, workflowVars, rowVars, adapterVars>>
-----------------------------------------------------------------------------
ClaimAt(r, t) == ClaimRefused(r, t) \/ ClaimNothing(r, t) \/ ClaimJob(r, t)

Work(r) ==
  \/ BeginDelivery(r)
  \/ BeginRefused(r)
  \/ Deliver(r)
  \/ CompleteDelivery(r)
  \/ ReleaseDelivery(r)
  \/ FinishRefused(r)

Next ==
  \/ Tick
  \/ \E h \in Handoffs : OpenHandoff(h) \/ RequestConflict(h) \/ CancelHandoff(h)
  \/ \E r \in Runs : Work(r) \/ Crash(r) \/ \E t \in 0..clock : ClaimAt(r, t)

Spec == Init /\ [][Next]_vars

(* Time passes and the worker cycle polls run_once for ever, in the end with
   the current time. *)
FairSpec ==
  /\ Spec
  /\ WF_vars(Tick)
  /\ \A r \in Runs : WF_vars(Work(r) \/ ClaimAt(r, clock))
-----------------------------------------------------------------------------
Claim == [job : Jobs \cup {NoJob}, token : Nat, expires : Time]

(* Every column and every run holds a value of its type; a run that works
   holds the claim of a job. *)
TypeOK ==
  /\ clock \in 0..MaxTime
  /\ hstatus \in [Handoffs -> {"absent", "acknowledgement_pending", "acknowledged",
                               "manual_review", "cancelled"}]
  /\ requestedAt \in [Handoffs -> 0..MaxTime]
  /\ acked \in [Handoffs -> BOOLEAN]
  /\ conflict \in [Handoffs -> BOOLEAN]
  /\ failed \subseteq Jobs
  /\ status \in [Jobs -> {"absent", "pending", "leased", "delivered", "manual_review"}]
  /\ slot \in [Jobs -> {0, 1}]
  /\ token \in [Jobs -> Nat]
  /\ expires \in [Jobs -> Time]
  /\ updatedAt \in [Jobs -> 0..MaxTime]
  /\ receipts \subseteq Jobs /\ late \subseteq Jobs
  /\ pc \in [Runs -> {"idle", "claimed", "dispatching", "answered"}]
  /\ claim \in [Runs -> Claim]
  /\ answer \in [Runs -> {"none", "receipt", "late_receipt", "unknown", "not_called"}]
  /\ sends \in [Jobs -> Nat]
  /\ notCalled \in 0..MaxNotCalled
  /\ \A r \in Runs : pc[r] # "idle" => claim[r].job \in Jobs

(* Whatever order conflicts, cancellations, failures, recoveries and receipts
   come in, _load_handoff refuses a handoff for two reasons only: one of its
   deliveries is under review, which _handoff_outbox_jobs has no branch for,
   or was completed with a receipt from after its lease.  Both last for ever,
   so every other state must load, with values of its types. *)
RefusedOnlyForReview ==
  /\ TypeOK
  /\ \A h \in Handoffs : hstatus[h] # "absent" =>
       (Loads(h) <=> \A j \in JobsOf(h) : status[j] # "manual_review" /\ j \notin late)

(* The contact is paused or mailed at most once per job, whichever of runs
   that crashed, stalled past their lease or were overtaken did it; a job
   that goes back to the queue has certainly had no effect. *)
SentAtMostOnce ==
  \A j \in Jobs :
    /\ sends[j] <= 1
    /\ status[j] = "pending" => sends[j] = 0
    /\ status[j] = "delivered" => sends[j] = 1

(* A delivery whose result stays unknown is on record: whichever of the worker
   and the recovery closed the row, its failure is in the workflow's history
   and a failed acknowledgement puts the workflow under review. *)
UnknownIsVisible ==
  \A j \in Jobs : status[j] = "manual_review" =>
    /\ j \in failed
    /\ IsAck(j) => hstatus[Handoff(j)] \in {"manual_review", "cancelled"}

(* "An operator-closed incident must never re-pause ManyChat from old outbox
   work": after the cancellation a job that was not dispatched yet has no
   effect any more, even when a run held its lease. *)
QuietAfterCancel ==
  [][\A j \in Jobs : Cancelled(Handoff(j)) /\ slot[j] = 0 =>
       slot'[j] = 0 /\ sends'[j] = sends[j]]_vars

Settled(j) == status[j] \in {"delivered", "manual_review"} \/ Cancelled(Handoff(j))

(* Rows that claim_handoff_outbox meets, now or when their lease has expired:
   the dispatched ones in the recovery, the others as candidates unless their
   handoff is cancelled. *)
InFlight(j) == status[j] = "leased" /\ slot[j] = 1
Open(j) == \/ InFlight(j)
           \/ status[j] \in {"pending", "leased"} /\ ~Cancelled(Handoff(j))

(* What makes claims raise, rolling their own recovery back: an open row of a
   handoff that does not load; a dispatched row to recover beside another
   open row, which cannot be loaded after it; or a dispatched row whose
   cancelled handoff takes no failure any more. *)
Wedged ==
  \E j \in Jobs :
    \/ Open(j) /\ ~Loads(Handoff(j))
    \/ InFlight(j) /\ \E i \in JobsOf(Handoff(j)) \ {j} : Open(i)
    \/ InFlight(j) /\ j \notin failed /\ Cancelled(Handoff(j))

(* Every job of a handoff is delivered, reviewed or cancelled in the end,
   although runs crash and deliveries fail, unless the queue is wedged for
   ever for one of the reasons above. *)
EveryJobSettles ==
  \A j \in Jobs : (status[j] = "pending") ~> (Settled(j) \/ []Wedged)

(* test_cancelled_pending_handoff_does_not_starve_another_incident, for a
   handoff cancelled at any moment: the jobs of the others still settle. *)
NoStarvation ==
  \A j \in Jobs : (status[j] = "pending") ~> Settled(j)
=============================================================================
