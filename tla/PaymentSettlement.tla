------------------------- MODULE PaymentSettlement -------------------------
(***************************************************************************)
(* Payments and settlements of reservation_followup: the payment reducer   *)
(* (payment.py, projection.py), the evidence claims and the settlement     *)
(* ledger of SQLiteFollowupUnitOfWork, PaymentSettlementWorker and         *)
(* PaymentReconciler, around the provider that registers payments.         *)
(*                                                                         *)
(* One action is one store transaction or one step of the settlement port. *)
(* The worker reads the clock at every store call; the reconciler uses the *)
(* time its stage captured.  An exception of a store method rolls its      *)
(* transaction back and ends the run.                                      *)
(***************************************************************************)
EXTENDS Naturals, FiniteSets

CONSTANTS
  Payments,      \* payment ids; a payment has at most one settlement command
  Evidence,      \* claim keys: a Stripe session, a proof of transfer
  MaxSummary,    \* bound: financial summaries of one payment
  MaxClaims,     \* _MAX_PRE_DISPATCH_CLAIMS
  Runs,          \* concurrent invocations of PaymentSettlementWorker.run_once
  LeaseTTL,      \* lease_ttl
  Deadline,      \* payment_deadline of the reservation
  MaxTime        \* bound: last instant of the clock

ASSUME ClaimsAssumption == MaxClaims \in Nat \ {0}
ASSUME SettlementLeaseAssumption == LeaseTTL \in Nat \ {0}
ASSUME PaymentBounds == MaxSummary \in Nat /\ Deadline \in Nat /\ MaxTime \in Nat

VARIABLES
  clock,
  \* payment_workflows: status, current summary, summary the customer
  \* confirmed; the summaries of a payment are numbered, each one changes
  \* the economics and with them payment_version
  pstatus, summary, confirmed,
  \* payment_evidence_claims and payment_commands of the payment
  evidence, estatus, commandFor,
  \* payment_ledger: fencing_token and claim_count are equal
  lstatus, claims, expires, slots, outcome,
  jobs,          \* payment_outbox: kinds of effects inserted for the payment
  \* one run_once per element of Runs
  pc, claim, answer,
  \* provider: requests received, payments registered
  posts, applied

workflowVars == <<pstatus, summary, confirmed>>
evidenceVars == <<evidence, commandFor>>
ledgerVars == <<estatus, lstatus, claims, expires, slots, outcome, jobs>>
runVars == <<pc, claim, answer>>
providerVars == <<posts, applied>>
vars == <<clock, workflowVars, evidenceVars, ledgerVars, runVars, providerVars>>

Never   == MaxTime + LeaseTTL + 1      \* a timestamp column that is NULL
None    == "none"
NoClaim == [payment |-> None, token |-> 0, expires |-> Never]

Open == {"awaiting_method", "awaiting_financial_confirmation", "awaiting_evidence"}
Uncertain == {"partial_settlement", "dispatched_no_effect", "dispatched_unknown"}
Dispatched == {"settled"} \cup Uncertain
-----------------------------------------------------------------------------
Init ==
  /\ clock = 0
  /\ pstatus = [p \in Payments |-> "awaiting_method"]
  /\ summary = [p \in Payments |-> 0]
  /\ confirmed = [p \in Payments |-> 0]
  /\ evidence = [p \in Payments |-> None]
  /\ estatus = [p \in Payments |-> None]
  /\ commandFor = [p \in Payments |-> 0]
  /\ lstatus = [p \in Payments |-> "absent"]
  /\ claims = [p \in Payments |-> 0]
  /\ expires = [p \in Payments |-> Never]
  /\ slots = [p \in Payments |-> 0]
  /\ outcome = [p \in Payments |-> None]
  /\ jobs = [p \in Payments |-> {}]
  /\ pc = [r \in Runs |-> "idle"]
  /\ claim = [r \in Runs |-> NoClaim]
  /\ answer = [r \in Runs |-> None]
  /\ posts = [p \in Payments |-> 0]
  /\ applied = [p \in Payments |-> 0]

Tick ==
  /\ clock < MaxTime
  /\ clock' = clock + 1
  /\ UNCHANGED <<workflowVars, evidenceVars, ledgerVars, runVars, providerVars>>
-----------------------------------------------------------------------------
(* apply_payment: reduce_payment on a payment without a command.  An event
   the matrix rejects, or one bound to an older version, changes nothing. *)
SelectMethod(p) ==
  /\ pstatus[p] \in Open
  /\ pstatus' = [pstatus EXCEPT ![p] = "awaiting_financial_confirmation"]
  /\ summary' = [summary EXCEPT ![p] = 0]
  /\ confirmed' = [confirmed EXCEPT ![p] = 0]
  /\ UNCHANGED <<clock, evidenceVars, ledgerVars, runVars, providerVars>>

(* Mutant: a new summary keeps the confirmation of the one it replaces. *)
RecordSummaryKeepsConfirmation(p, s) ==
  /\ pstatus[p] \in Open \ {"awaiting_method"}
  /\ s # summary[p]
  /\ summary' = [summary EXCEPT ![p] = s]
  /\ UNCHANGED <<clock, pstatus, confirmed, evidenceVars, ledgerVars, runVars,
                 providerVars>>

RecordSummary(p, s) ==
  /\ pstatus[p] \in Open \ {"awaiting_method"}
  /\ s # summary[p]
  /\ pstatus' = [pstatus EXCEPT ![p] = "awaiting_financial_confirmation"]
  /\ summary' = [summary EXCEPT ![p] = s]
  /\ confirmed' = [confirmed EXCEPT ![p] = 0]
  /\ UNCHANGED <<clock, evidenceVars, ledgerVars, runVars, providerVars>>

(* A confirmation that names another summary than the current is refused. *)
ConfirmSummary(p, s) ==
  /\ pstatus[p] = "awaiting_financial_confirmation"
  /\ s = summary[p]
  /\ pstatus' = [pstatus EXCEPT ![p] = "awaiting_evidence"]
  /\ confirmed' = [confirmed EXCEPT ![p] = s]
  /\ UNCHANGED <<clock, summary, evidenceVars, ledgerVars, runVars, providerVars>>

ClosePayment(p, s) ==
  /\ pstatus[p] \in Open
  /\ s = "expired" => clock >= Deadline
  /\ pstatus' = [pstatus EXCEPT ![p] = s]
  /\ UNCHANGED <<clock, summary, confirmed, evidenceVars, ledgerVars, runVars,
                 providerVars>>

(* "global payment evidence already belongs to another financial subject" *)
Unclaimed(e) == \A q \in Payments : evidence[q] # e

(* claim_payment_evidence: evidence bound to the current economics, one
   command, one claim and one ledger row in one transaction *)
ClaimEvidence(p, e) ==
  /\ pstatus[p] = "awaiting_evidence"
  /\ Unclaimed(e)
  /\ pstatus' = [pstatus EXCEPT ![p] = "settlement_queued"]
  /\ evidence' = [evidence EXCEPT ![p] = e]
  /\ estatus' = [estatus EXCEPT ![p] = "in_progress"]
  /\ commandFor' = [commandFor EXCEPT ![p] = summary[p]]
  /\ lstatus' = [lstatus EXCEPT ![p] = "queued"]
  /\ UNCHANGED <<clock, summary, confirmed, claims, expires, slots, outcome, jobs,
                 runVars, providerVars>>
-----------------------------------------------------------------------------
EndRun(r) ==
  /\ pc' = [pc EXCEPT ![r] = "idle"]
  /\ claim' = [claim EXCEPT ![r] = NoClaim]
  /\ answer' = [answer EXCEPT ![r] = None]

(* The query scans rows in order of updated_at and skips the ineligible
   ones; the model lets any eligible row be taken. *)
Claimable(p) ==
  /\ claims[p] < MaxClaims
  /\ \/ lstatus[p] = "queued"
     \/ lstatus[p] = "leased" /\ expires[p] <= clock

ClaimSettlement(r) ==
  /\ pc[r] = "idle"
  /\ \E p \in Payments :
       /\ Claimable(p)
       /\ lstatus' = [lstatus EXCEPT ![p] = "leased"]
       /\ claims' = [claims EXCEPT ![p] = @ + 1]
       /\ expires' = [expires EXCEPT ![p] = clock + LeaseTTL]
       /\ estatus' = [estatus EXCEPT ![p] = "in_progress"]
       /\ claim' = [claim EXCEPT ![r] = [payment |-> p, token |-> claims[p] + 1,
                                         expires |-> clock + LeaseTTL]]
  /\ pc' = [pc EXCEPT ![r] = "preparing"]
  /\ UNCHANGED <<clock, workflowVars, evidenceVars, slots, outcome, jobs, answer,
                 providerVars>>

(* claim_settlement finds no eligible row: run_once returns idle. *)
ClaimNothing(r) ==
  /\ pc[r] = "idle"
  /\ \A p \in Payments : ~Claimable(p)
  /\ UNCHANGED vars

(* prepare: the canonical request, a failure that may be retried, or a
   terminal one (an answer that is not the canonical request included) *)
Prepare(r) ==
  /\ pc[r] = "preparing"
  /\ \E a \in {"prepared", "retryable", "terminal"} :
       answer' = [answer EXCEPT ![r] = a]
  /\ pc' = [pc EXCEPT ![r] = "prepared"]
  /\ UNCHANGED <<clock, workflowVars, evidenceVars, ledgerVars, claim, providerVars>>

(* _assert_live_settlement_claim *)
LiveClaim(r) ==
  LET p == claim[r].payment IN
  /\ lstatus[p] = "leased"
  /\ claims[p] = claim[r].token
  /\ clock < claim[r].expires

(* required_payment_effects under a policy without optional effects *)
EffectsOf(certainty) ==
  IF certainty = "settled" THEN {"paid_state_transition", "customer_payment_confirmation"}
                           ELSE {"manual_review"}

(* project_settlement_outcome *)
ProjectedStatus(certainty) ==
  CASE certainty = "settled"        -> "paid"
    [] certainty = "not_dispatched" -> "retryable"
    [] OTHER                        -> "manual_review"

(* Mutant: the evidence of an unknown outcome is left in progress. *)
CloseLedgerHalf(p, certainty) ==
  /\ pstatus' = [pstatus EXCEPT ![p] = ProjectedStatus(certainty)]
  /\ lstatus' = [lstatus EXCEPT ![p] = IF certainty \in {"settled", "not_dispatched"}
                                       THEN "outcome_recorded" ELSE "manual_review"]
  /\ estatus' = [estatus EXCEPT ![p] = IF certainty = "settled" THEN "completed" ELSE @]
  /\ expires' = [expires EXCEPT ![p] = Never]
  /\ outcome' = [outcome EXCEPT ![p] = certainty]
  /\ jobs' = [jobs EXCEPT ![p] = @ \cup EffectsOf(certainty)]

(* The SettlementFinished event with its ledger, evidence and outbox rows *)
CloseLedger(p, certainty) ==
  LET final == certainty \in {"settled", "not_dispatched"} IN
  /\ pstatus' = [pstatus EXCEPT ![p] = ProjectedStatus(certainty)]
  /\ lstatus' = [lstatus EXCEPT ![p] = IF final THEN "outcome_recorded" ELSE "manual_review"]
  /\ estatus' = [estatus EXCEPT ![p] = IF final THEN "completed" ELSE "manual_review"]
  /\ expires' = [expires EXCEPT ![p] = Never]
  /\ outcome' = [outcome EXCEPT ![p] = certainty]
  /\ jobs' = [jobs EXCEPT ![p] = @ \cup EffectsOf(certainty)]

Requeue(p) ==
  /\ lstatus' = [lstatus EXCEPT ![p] = "queued"]
  /\ estatus' = [estatus EXCEPT ![p] = "retryable"]
  /\ expires' = [expires EXCEPT ![p] = Never]
  /\ UNCHANGED <<pstatus, outcome, jobs>>

(* release_pre_dispatch_settlement *)
ReleasePreDispatch(r) ==
  LET p == claim[r].payment IN
  /\ pc[r] = "prepared" /\ answer[r] # "prepared"
  /\ LiveClaim(r)
  /\ IF answer[r] = "retryable" /\ claim[r].token < MaxClaims
     THEN Requeue(p) ELSE CloseLedger(p, "not_dispatched")
  /\ EndRun(r)
  /\ UNCHANGED <<clock, summary, confirmed, evidenceVars, claims, slots, providerVars>>

(* fence_settlement: the SettlementStarted event and the only slot *)
FenceSettlement(r) ==
  LET p == claim[r].payment IN
  /\ pc[r] = "prepared" /\ answer[r] = "prepared"
  /\ LiveClaim(r)
  /\ pstatus' = [pstatus EXCEPT ![p] = "settling"]
  /\ lstatus' = [lstatus EXCEPT ![p] = "dispatch_fenced"]
  /\ slots' = [slots EXCEPT ![p] = 1]
  /\ pc' = [pc EXCEPT ![r] = "fenced"]
  /\ UNCHANGED <<clock, summary, confirmed, evidenceVars, estatus, claims, expires, outcome,
                 jobs, claim, answer, providerVars>>

(* Ledger and permit agree, whatever the time *)
HoldsFence(r) ==
  LET p == claim[r].payment IN
  /\ lstatus[p] = "dispatch_fenced"
  /\ claims[p] = claim[r].token

(* dispatch up to the request: assert_live_settlement_permit, then the
   provider is called.  Any refusal before it raises, and the worker takes
   the exception for an unknown outcome. *)
Dispatch(r) ==
  /\ pc[r] = "fenced"
  /\ \/ /\ HoldsFence(r) /\ clock < claim[r].expires
        /\ pc' = [pc EXCEPT ![r] = "posting"]
        /\ UNCHANGED answer
     \/ /\ pc' = [pc EXCEPT ![r] = "answered"]
        /\ answer' = [answer EXCEPT ![r] = "dispatched_unknown"]
  /\ UNCHANGED <<clock, workflowVars, evidenceVars, ledgerVars, claim, providerVars>>

(* Mutant: an answer without proof of the payment counts as settled. *)
PostUnproven(r) ==
  LET p == claim[r].payment IN
  /\ pc[r] = "posting"
  /\ posts' = [posts EXCEPT ![p] = @ + 1]
  /\ \E n \in {0, 1} : applied' = [applied EXCEPT ![p] = @ + n]
  /\ answer' = [answer EXCEPT ![r] = "settled"]
  /\ pc' = [pc EXCEPT ![r] = "answered"]
  /\ UNCHANGED <<clock, workflowVars, evidenceVars, ledgerVars, claim>>

(* The request to the provider and _canonical_dispatch_outcome: settled with
   a proof of the payment, no effect with a proof of none, else partial
   (payment or reservation confirmed, not both) or unknown. *)
Post(r) ==
  LET p == claim[r].payment IN
  /\ pc[r] = "posting"
  /\ posts' = [posts EXCEPT ![p] = @ + 1]
  /\ \E n \in {0, 1}, a \in Dispatched :
       /\ a = "settled" => n = 1
       /\ a = "dispatched_no_effect" => n = 0
       /\ applied' = [applied EXCEPT ![p] = @ + n]
       /\ answer' = [answer EXCEPT ![r] = a]
  /\ pc' = [pc EXCEPT ![r] = "answered"]
  /\ UNCHANGED <<clock, workflowVars, evidenceVars, ledgerVars, claim>>

(* record_settlement_outcome: only before the lease expires *)
RecordOutcome(r) ==
  /\ pc[r] = "answered"
  /\ HoldsFence(r)
  /\ clock < claim[r].expires
  /\ CloseLedger(claim[r].payment, answer[r])
  /\ EndRun(r)
  /\ UNCHANGED <<clock, summary, confirmed, evidenceVars, claims, slots, providerVars>>

(* StaleLease or IdentityConflict: the answer of the run is lost. *)
RunRefused(r) ==
  /\ \/ pc[r] = "prepared" /\ ~LiveClaim(r)
     \/ pc[r] = "answered" /\ ~(HoldsFence(r) /\ clock < claim[r].expires)
  /\ EndRun(r)
  /\ UNCHANGED <<clock, workflowVars, evidenceVars, ledgerVars, providerVars>>

(* The process dies.  Bound: only leases that expire within MaxTime are
   orphaned, so that the model sees them recovered. *)
Crash(r) ==
  /\ pc[r] # "idle"
  /\ claim[r].expires <= MaxTime
  /\ EndRun(r)
  /\ UNCHANGED <<clock, workflowVars, evidenceVars, ledgerVars, providerVars>>
-----------------------------------------------------------------------------
Expired(s, t) == {p \in Payments : lstatus[p] = s /\ expires[p] <= t}

(* Mutant: an expired fence is queued again, its slot given back. *)
RecoverFencedRequeues(t) ==
  /\ \E p \in Expired("dispatch_fenced", t) :
       /\ lstatus' = [lstatus EXCEPT ![p] = "queued"]
       /\ estatus' = [estatus EXCEPT ![p] = "retryable"]
       /\ pstatus' = [pstatus EXCEPT ![p] = "settlement_queued"]
       /\ expires' = [expires EXCEPT ![p] = Never]
       /\ slots' = [slots EXCEPT ![p] = 0]
  /\ UNCHANGED <<clock, summary, confirmed, evidenceVars, claims, outcome, jobs, runVars,
                 providerVars>>

(* PaymentReconciler.run_once at time t: one expired fenced row ... *)
RecoverFenced(t) ==
  /\ \E p \in Expired("dispatch_fenced", t) : CloseLedger(p, "dispatched_unknown")
  /\ UNCHANGED <<clock, summary, confirmed, evidenceVars, claims, slots, runVars,
                 providerVars>>

(* Mutant: a lease that used up its claims is not recovered. *)
RecoverPreDispatchRequeuesOnly(t) ==
  /\ Expired("dispatch_fenced", t) = {}
  /\ \E p \in Expired("leased", t) : claims[p] < MaxClaims /\ Requeue(p)
  /\ UNCHANGED <<clock, summary, confirmed, evidenceVars, claims, slots, runVars,
                 providerVars>>

(* ... or, when there is none, one expired lease before dispatch.  No row
   can become fenced and expired at t between the two transactions. *)
RecoverPreDispatch(t) ==
  /\ Expired("dispatch_fenced", t) = {}
  /\ \E p \in Expired("leased", t) :
       IF claims[p] < MaxClaims THEN Requeue(p) ELSE CloseLedger(p, "not_dispatched")
  /\ UNCHANGED <<clock, summary, confirmed, evidenceVars, claims, slots, runVars,
                 providerVars>>

Reconcile(t) == RecoverFenced(t) \/ RecoverPreDispatch(t)
-----------------------------------------------------------------------------
RunStep(r) ==
  \/ ClaimSettlement(r)
  \/ Prepare(r)
  \/ ReleasePreDispatch(r)
  \/ FenceSettlement(r)
  \/ Dispatch(r)
  \/ Post(r)
  \/ RecordOutcome(r)
  \/ RunRefused(r)

Next ==
  \/ Tick
  \/ \E p \in Payments :
       \/ SelectMethod(p)
       \/ \E s \in 1..MaxSummary : RecordSummary(p, s) \/ ConfirmSummary(p, s)
       \/ \E s \in {"expired", "cancelled"} : ClosePayment(p, s)
       \/ \E e \in Evidence : ClaimEvidence(p, e)
  \/ \E r \in Runs : RunStep(r) \/ ClaimNothing(r) \/ Crash(r)
  \/ \E t \in 0..clock : Reconcile(t)

Spec == Init /\ [][Next]_vars

(* Time passes, the worker cycle polls the worker and its reconciliation
   stage reaches the payment reconciler for ever. *)
FairSpec ==
  /\ Spec
  /\ WF_vars(Tick)
  /\ WF_vars(Reconcile(clock))
  /\ \A r \in Runs : WF_vars(RunStep(r))
-----------------------------------------------------------------------------
(* Every column and every run holds a value of its type; a run that works
   holds the claim of a payment. *)
TypeOK ==
  /\ clock \in 0..MaxTime
  /\ pstatus \in [Payments -> Open \cup {"settlement_queued", "settling", "paid", "retryable",
                                         "manual_review", "expired", "cancelled"}]
  /\ summary \in [Payments -> 0..MaxSummary]
  /\ confirmed \in [Payments -> 0..MaxSummary]
  /\ evidence \in [Payments -> Evidence \cup {None}]
  /\ estatus \in [Payments -> {None, "in_progress", "retryable", "completed", "manual_review"}]
  /\ commandFor \in [Payments -> 0..MaxSummary]
  /\ lstatus \in [Payments -> {"absent", "queued", "leased", "dispatch_fenced",
                               "outcome_recorded", "manual_review"}]
  /\ claims \in [Payments -> 0..MaxClaims]
  /\ expires \in [Payments -> 0..Never]
  /\ slots \in [Payments -> {0, 1}]
  /\ outcome \in [Payments -> Dispatched \cup {"not_dispatched", None}]
  /\ jobs \in [Payments -> SUBSET {"paid_state_transition", "customer_payment_confirmation",
                                   "manual_review"}]
  /\ pc \in [Runs -> {"idle", "preparing", "prepared", "fenced", "posting", "answered"}]
  /\ claim \in [Runs -> [payment : Payments \cup {None}, token : 0..MaxClaims,
                         expires : 0..Never]]
  /\ answer \in [Runs -> Dispatched \cup {None, "prepared", "retryable", "terminal"}]
  /\ posts \in [Payments -> Nat]
  /\ applied \in [Payments -> Nat]
  /\ \A r \in Runs : pc[r] # "idle" => claim[r].payment \in Payments

(* The combinations of workflow, evidence claim, ledger and outbox that
   _payment_financial_records and _validate_payment_jobs accept. *)
Agree(p) ==
  CASE lstatus[p] = "absent" ->
         pstatus[p] \in Open \cup {"expired", "cancelled"} /\ jobs[p] = {}
    [] lstatus[p] = "queued" ->
         /\ pstatus[p] = "settlement_queued" /\ slots[p] = 0 /\ jobs[p] = {}
         /\ estatus[p] \in {"in_progress", "retryable"} /\ outcome[p] = None
         /\ expires[p] = Never
    [] lstatus[p] = "leased" ->
         /\ pstatus[p] = "settlement_queued" /\ slots[p] = 0 /\ jobs[p] = {}
         /\ estatus[p] = "in_progress" /\ outcome[p] = None /\ expires[p] # Never
    [] lstatus[p] = "dispatch_fenced" ->
         /\ pstatus[p] = "settling" /\ slots[p] = 1 /\ jobs[p] = {}
         /\ estatus[p] = "in_progress" /\ outcome[p] = None /\ expires[p] # Never
    [] lstatus[p] = "outcome_recorded" ->
         /\ estatus[p] = "completed" /\ jobs[p] = EffectsOf(outcome[p]) /\ expires[p] = Never
         /\ \/ outcome[p] = "settled" /\ slots[p] = 1 /\ pstatus[p] = "paid"
            \/ outcome[p] = "not_dispatched" /\ slots[p] = 0 /\ pstatus[p] = "retryable"
    [] lstatus[p] = "manual_review" ->
         /\ outcome[p] \in Uncertain /\ slots[p] = 1 /\ pstatus[p] = "manual_review"
         /\ estatus[p] = "manual_review" /\ jobs[p] = EffectsOf(outcome[p])
         /\ expires[p] = Never

(* The four records of a payment agree before every operation; where they do
   not the payment can never be read again. *)
RecordsAgree == \A p \in Payments : Agree(p)

(* A payment is registered at the provider at most once, although runs
   crash, stall past their lease and are taken over by others. *)
PaidAtMostOnce == \A p \in Payments : posts[p] <= 1 /\ applied[p] <= posts[p]

(* What the ledger says of the provider is so, and stays so: a payment
   reported as paid was registered, one reported as never dispatched was
   and will not be requested by any run that is still under way. *)
OutcomeTruthful ==
  \A p \in Payments :
    /\ pstatus[p] = "paid" => applied[p] = 1
    /\ outcome[p] = "dispatched_no_effect" => applied[p] = 0
    /\ outcome[p] = "not_dispatched" =>
         posts[p] = 0 /\ \A r \in Runs : claim[r].payment = p => pc[r] \notin {"fenced", "posting"}

(* Money moves only for what the customer confirmed: the settled command is
   for the summary confirmed last, and no evidence pays two payments. *)
SettlementAuthorised ==
  /\ \A p \in Payments : lstatus[p] # "absent" =>
       commandFor[p] # 0 /\ commandFor[p] = confirmed[p] /\ confirmed[p] = summary[p]
  /\ \A p, q \in Payments : p # q /\ evidence[p] # None => evidence[p] # evidence[q]

(* Every settlement that was queued gets an outcome, with or without a
   payment, whatever crashes before or after the fence. *)
EverySettlementCloses ==
  \A p \in Payments : (lstatus[p] = "queued") ~> (outcome[p] # None)
=============================================================================
