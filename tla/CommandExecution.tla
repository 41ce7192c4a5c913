-------------------------- MODULE CommandExecution --------------------------
(***************************************************************************)
(* Durable execution of authorized reservation commands:                   *)
(* reservation_execution (SQLiteUnitOfWork, CommandWorker, Reconciler)     *)
(* around an external booking provider.                                    *)
(*                                                                         *)
(* Every store method runs inside BEGIN IMMEDIATE and rolls back on any    *)
(* exception, so one action below is one store transaction.  The worker    *)
(* runs between transactions: its captured time, its claim and the         *)
(* provider's answer are state of the run, and other runs, the reconciler  *)
(* and the clock interleave at every such point.  An exception of a store  *)
(* method propagates out of run_once: the run ends, the rows stay.         *)
(***************************************************************************)
EXTENDS Naturals, FiniteSets

CONSTANTS
  Commands,                \* command ids; numbers, because SQL orders by id
  Draft,                   \* [Commands -> (draft_id, draft_version)]
  Runs,                    \* concurrent invocations of CommandWorker.run_once
  WorkerId,                \* [Runs -> worker_id]; runs may share one id
  MaxPreparationFailures,  \* _MAX_PREPARATION_FAILURES
  LeaseTTL,                \* lease_ttl of every claim
  MaxTime,                 \* bound: last instant of the clock
  MaxForeignEvents         \* bound: apply_event calls after authorization

ASSUME CommandsAssumption == Commands \subseteq Nat \ {0}
ASSUME BudgetAssumption == MaxPreparationFailures \in Nat \ {0}
ASSUME TTLAssumption == LeaseTTL \in Nat \ {0}
ASSUME BoundsAssumption == MaxTime \in Nat /\ MaxForeignEvents \in Nat

VARIABLES
  clock,        \* wall clock read by every run_once caller
  \* workflows: state type, revision and last_event_at of the domain state
  phase, revision, lastEventAt,
  \* execution_ledger, one variable per column; claim_count moves with
  \* fencing_token and the request hash with the slot, so they share a variable
  status, lease, token, failures, slots, fencedAt, outcome, updatedAt,
  createdAt,    \* reservation_commands.created_at
  closedAt,     \* domain_events: revision of the last event of the outcome
  messages,     \* outbox_messages of kind execution outcome
  \* one run_once per element of Runs
  pc, now, claim, answer,
  \* Reconciler.run_once
  recPc, recNow,
  \* external provider: calls received and reservations really made
  calls, effects,
  foreign       \* apply_event calls made so far

workflowVars == <<phase, revision, lastEventAt>>
leaseVars    == <<status, lease, token, failures, updatedAt>>
outcomeVars  == <<outcome, closedAt, messages>>
runVars      == <<pc, now, claim, answer>>
recVars      == <<recPc, recNow>>
providerVars == <<calls, effects>>
vars == <<clock, workflowVars, leaseVars, slots, fencedAt, outcomeVars,
          createdAt, runVars, recVars, providerVars, foreign>>

Never    == MaxTime + LeaseTTL + 1      \* a timestamp column that is NULL
Time     == 0..Never
NoLease  == [owner |-> "none", acquired |-> Never, expires |-> Never]
NoClaim  == [command |-> 0, token |-> 0, acquired |-> Never,
             expires |-> Never, failures |-> 0, revision |-> 0]

Certainty == {"effect_confirmed", "called_no_effect", "called_unknown",
              "not_called"}
Settled   == {"outcome_recorded", "manual_review"}
Active    == {"preparing", "dispatch_fenced"}
Later(s, t) == IF s < t THEN t ELSE s

Accepted     == {c \in Commands : status[c] # "absent"}
Siblings(c)  == {o \in Commands \ {c} : Draft[o] = Draft[c]}

(* Terminal workflow state that reduce gives an ExecutionFinished, followed
   by the mandatory ManualReviewRequested when the certainty is unknown. *)
TerminalPhase(certainty) ==
  CASE certainty = "effect_confirmed" -> "succeeded"
    [] certainty = "called_no_effect" -> "failed_no_effect"
    [] certainty = "called_unknown"   -> "manual_review"
    [] certainty = "not_called"       -> "failed_before_provider"

OutcomeEvents(certainty) == IF certainty = "called_unknown" THEN 2 ELSE 1
(* Mutant: an unknown outcome is filed like any other. *)
FinalStatusNoReview(certainty) == "outcome_recorded"
FinalStatus(certainty) ==
  IF certainty = "called_unknown" THEN "manual_review" ELSE "outcome_recorded"
-----------------------------------------------------------------------------
Init ==
  /\ clock = 0
  /\ phase = [c \in Commands |-> "none"]
  /\ revision = [c \in Commands |-> 0]
  /\ lastEventAt = [c \in Commands |-> 0]
  /\ status = [c \in Commands |-> "absent"]
  /\ lease = [c \in Commands |-> NoLease]
  /\ token = [c \in Commands |-> 0]
  /\ failures = [c \in Commands |-> 0]
  /\ slots = [c \in Commands |-> 0]
  /\ fencedAt = [c \in Commands |-> Never]
  /\ outcome = [c \in Commands |-> "none"]
  /\ updatedAt = [c \in Commands |-> 0]
  /\ createdAt = [c \in Commands |-> 0]
  /\ closedAt = [c \in Commands |-> 0]
  /\ messages = {}
  /\ pc = [r \in Runs |-> "idle"]
  /\ now = [r \in Runs |-> 0]
  /\ claim = [r \in Runs |-> NoClaim]
  /\ answer = [r \in Runs |-> "none"]
  /\ recPc = "idle"
  /\ recNow = 0
  /\ calls = [c \in Commands |-> 0]
  /\ effects = [c \in Commands |-> 0]
  /\ foreign = 0

Tick ==
  /\ clock < MaxTime
  /\ clock' = clock + 1
  /\ UNCHANGED <<workflowVars, leaseVars, slots, fencedAt, outcomeVars,
                 createdAt, runVars, recVars, providerVars, foreign>>

(* accept_boundary_reservation_group: every command of one confirmed draft
   in one transaction, with the confirmation's time t as created_at.  A
   second delivery of the group finds its receipt and changes nothing. *)
AcceptGroup(d) ==
  LET group == {c \in Commands : Draft[c] = d} IN
  /\ \A c \in group : status[c] = "absent"
  /\ \E t \in 0..clock :
       /\ createdAt' = [c \in Commands |-> IF c \in group THEN t ELSE createdAt[c]]
       /\ updatedAt' = [c \in Commands |-> IF c \in group THEN t ELSE updatedAt[c]]
       /\ lastEventAt' = [c \in Commands |-> IF c \in group THEN t ELSE lastEventAt[c]]
  /\ status' = [c \in Commands |-> IF c \in group THEN "queued" ELSE status[c]]
  /\ phase' = [c \in Commands |-> IF c \in group THEN "execution_queued" ELSE phase[c]]
  /\ revision' = [c \in Commands |-> IF c \in group THEN 1 ELSE revision[c]]
  /\ UNCHANGED <<clock, lease, token, failures, slots, fencedAt, outcomeVars,
                 runVars, recVars, providerVars, foreign>>

(* apply_event on an authorized workflow: operational events are refused by
   the method and no other event has a handler there, so reduce ignores the
   event (or rejects it as out of order) and still advances the metadata.
   Bound: early enough that the leases it makes stale expire within MaxTime. *)
ApplyEvent(c, t) ==
  /\ foreign < MaxForeignEvents
  /\ clock + LeaseTTL <= MaxTime
  /\ c \in Accepted
  /\ revision' = [revision EXCEPT ![c] = @ + 1]
  /\ lastEventAt' = [lastEventAt EXCEPT ![c] = Later(@, t)]
  /\ foreign' = foreign + 1
  /\ UNCHANGED <<clock, phase, leaseVars, slots, fencedAt, outcomeVars,
                 createdAt, runVars, recVars, providerVars>>
-----------------------------------------------------------------------------
(* The run leaves run_once, normally or by an exception. *)
EndRun(r) ==
  /\ pc' = [pc EXCEPT ![r] = "idle"]
  /\ claim' = [claim EXCEPT ![r] = NoClaim]
  /\ answer' = [answer EXCEPT ![r] = "none"]
  /\ now' = [now EXCEPT ![r] = 0]

StoreUnchanged ==
  UNCHANGED <<clock, workflowVars, leaseVars, slots, fencedAt, outcomeVars,
              createdAt, recVars, providerVars, foreign>>

(* run_once(now=...): the caller's clock is read once for the whole run. *)
BeginRun(r) ==
  /\ pc[r] = "idle"
  /\ pc' = [pc EXCEPT ![r] = "begun"]
  /\ now' = [now EXCEPT ![r] = clock]
  /\ StoreUnchanged
  /\ UNCHANGED <<claim, answer>>

(* Mutant: the query forgets the NOT EXISTS over the package. *)
ClaimableWithSibling(c, t) ==
  /\ status[c] \in {"queued", "preparing"}
  /\ slots[c] = 0
  /\ lease[c] = NoLease \/ lease[c].expires <= t

Claimable(c, t) ==
  /\ status[c] \in {"queued", "preparing"}
  /\ slots[c] = 0
  /\ lease[c] = NoLease \/ lease[c].expires <= t
  /\ \A o \in Siblings(c) : status[o] \notin Active

(* ORDER BY created_at, command_id LIMIT 1 *)
IsHead(c, t) ==
  /\ Claimable(c, t)
  /\ \A o \in Commands :
       Claimable(o, t) => \/ createdAt[c] < createdAt[o]
                          \/ createdAt[c] = createdAt[o] /\ c <= o

(* The times claim_command and the reducer accept for the head row. *)
ClaimTimeValid(c, t) ==
  /\ t >= createdAt[c]
  /\ t >= updatedAt[c]
  /\ phase[c] = "execution_queued" => t >= lastEventAt[c]

(* Nothing eligible, or the head refuses the run's time and rolls back. *)
ClaimNothing(r) ==
  /\ pc[r] = "begun"
  /\ \A c \in Commands : IsHead(c, now[r]) => ~ClaimTimeValid(c, now[r])
  /\ EndRun(r)
  /\ StoreUnchanged

(* The claimed row, the ExecutionStarted event of a first claim, and the
   claim that the run gets back. *)
TakeClaim(r, c) ==
  LET t     == now[r]
      first == phase[c] = "execution_queued"
      rev   == IF first THEN revision[c] + 1 ELSE revision[c]
  IN
  /\ status' = [status EXCEPT ![c] = "preparing"]
  /\ token' = [token EXCEPT ![c] = @ + 1]
  /\ lease' = [lease EXCEPT ![c] = [owner |-> WorkerId[r], acquired |-> t,
                                    expires |-> t + LeaseTTL]]
  /\ updatedAt' = [updatedAt EXCEPT ![c] = t]
  /\ phase' = [phase EXCEPT ![c] = "executing"]
  /\ revision' = [revision EXCEPT ![c] = rev]
  /\ lastEventAt' = [lastEventAt EXCEPT ![c] = IF first THEN t ELSE @]
  /\ claim' = [claim EXCEPT ![r] =
                 [command |-> c, token |-> token[c] + 1, acquired |-> t,
                  expires |-> t + LeaseTTL, failures |-> failures[c],
                  revision |-> rev]]
  /\ pc' = [pc EXCEPT ![r] = "claimed"]
  /\ UNCHANGED <<clock, failures, slots, fencedAt, outcomeVars, createdAt, now,
                 answer, recVars, providerVars, foreign>>

ClaimCommand(r) ==
  /\ pc[r] = "begun"
  /\ \E c \in Commands : /\ IsHead(c, now[r])
                         /\ ClaimTimeValid(c, now[r])
                         /\ TakeClaim(r, c)

(* Mutant: the package stop is not consulted. *)
BlockedNever(c) == FALSE

(* preparation_block: a plain read, outside any transaction. *)
Blocked(c) == \E o \in Siblings(c) : status[o] = "manual_review"

(* The block is read before the adapter is asked; the adapter prepares the
   request or raises a PreparationFailure, retryable or not. *)
Prepare(r) ==
  /\ pc[r] = "claimed"
  /\ \E next \in {"prepared", "retry_later", "give_up"} :
       /\ Blocked(claim[r].command) => next = "give_up"
       /\ pc' = [pc EXCEPT ![r] = next]
  /\ StoreUnchanged
  /\ UNCHANGED <<now, claim, answer>>

(* _assert_live_preparation_claim for the claim of run r at time t *)
LiveClaim(r, t) ==
  LET k == claim[r]
      c == k.command
  IN /\ revision[c] = k.revision
     /\ status[c] = "preparing"
     /\ slots[c] = 0
     /\ lease[c] = [owner |-> WorkerId[r], acquired |-> k.acquired,
                    expires |-> k.expires]
     /\ token[c] = k.token
     /\ failures[c] = k.failures
     /\ updatedAt[c] <= t
     /\ k.acquired <= t
     /\ t < k.expires

(* renew_command_lease: an operation of the store for the holder of a claim;
   CommandWorker itself never renews.  The holder goes on at the new time. *)
RenewCommandLease(r) ==
  /\ pc[r] \in {"claimed", "prepared"}
  /\ LiveClaim(r, clock)
  /\ clock + LeaseTTL > claim[r].expires
  /\ lease' = [lease EXCEPT ![claim[r].command].expires = clock + LeaseTTL]
  /\ updatedAt' = [updatedAt EXCEPT ![claim[r].command] = clock]
  /\ claim' = [claim EXCEPT ![r].expires = clock + LeaseTTL]
  /\ now' = [now EXCEPT ![r] = clock]
  /\ UNCHANGED <<clock, workflowVars, status, token, failures, slots, fencedAt,
                 outcomeVars, createdAt, pc, answer, recVars, providerVars,
                 foreign>>

(* Outcome, workflow events, ledger row and outbox message of one command:
   the part shared by the three transactions that close a command. *)
Close(c, certainty, t) ==
  /\ phase' = [phase EXCEPT ![c] = TerminalPhase(certainty)]
  /\ revision' = [revision EXCEPT ![c] = @ + OutcomeEvents(certainty)]
  /\ lastEventAt' = [lastEventAt EXCEPT ![c] = t]
  /\ closedAt' = [closedAt EXCEPT ![c] = revision[c] + OutcomeEvents(certainty)]
  /\ outcome' = [outcome EXCEPT ![c] = certainty]
  /\ status' = [status EXCEPT ![c] = FinalStatus(certainty)]
  /\ lease' = [lease EXCEPT ![c] = NoLease]
  /\ updatedAt' = [updatedAt EXCEPT ![c] = t]
  /\ messages' = messages \cup
       {[command |-> c, certainty |-> certainty, createdAt |-> t]}

(* Mutant: the budget comparison is off by one. *)
RetryableOnceMore(r) ==
  /\ pc[r] = "retry_later"
  /\ failures[claim[r].command] + 1 <= MaxPreparationFailures

Retryable(r) ==
  /\ pc[r] = "retry_later"
  /\ failures[claim[r].command] + 1 < MaxPreparationFailures

(* release_preparation_failure while the budget lasts: back to the queue *)
RequeuePreparation(r) ==
  LET c == claim[r].command IN
  /\ pc[r] \in {"retry_later", "give_up"}
  /\ LiveClaim(r, now[r])
  /\ Retryable(r)
  /\ status' = [status EXCEPT ![c] = "queued"]
  /\ lease' = [lease EXCEPT ![c] = NoLease]
  /\ failures' = [failures EXCEPT ![c] = @ + 1]
  /\ updatedAt' = [updatedAt EXCEPT ![c] = now[r]]
  /\ EndRun(r)
  /\ UNCHANGED <<clock, workflowVars, token, slots, fencedAt, outcomeVars,
                 createdAt, recVars, providerVars, foreign>>

(* release_preparation_failure otherwise: provider proven not called.  The
   DataCorruption for an exhausted budget is BudgetSpentIsClosed below. *)
AbandonPreparation(r) ==
  LET c == claim[r].command IN
  /\ pc[r] \in {"retry_later", "give_up"}
  /\ LiveClaim(r, now[r])
  /\ ~Retryable(r)
  /\ now[r] >= lastEventAt[c]
  /\ Close(c, "not_called", now[r])
  /\ failures' = [failures EXCEPT ![c] = @ + 1]
  /\ EndRun(r)
  /\ UNCHANGED <<clock, token, slots, fencedAt, createdAt, recVars,
                 providerVars, foreign>>

(* Mutant: the fence changes the status and leaves the slot unspent. *)
FenceWithoutSlot(r) ==
  LET c == claim[r].command IN
  /\ pc[r] = "prepared"
  /\ LiveClaim(r, now[r])
  /\ status' = [status EXCEPT ![c] = "dispatch_fenced"]
  /\ fencedAt' = [fencedAt EXCEPT ![c] = now[r]]
  /\ updatedAt' = [updatedAt EXCEPT ![c] = now[r]]
  /\ pc' = [pc EXCEPT ![r] = "fenced"]
  /\ UNCHANGED <<clock, workflowVars, lease, token, failures, slots, outcomeVars,
                 createdAt, now, claim, answer, recVars, providerVars, foreign>>

(* fence_dispatch: spend the command's only dispatch slot *)
FenceDispatch(r) ==
  LET c == claim[r].command IN
  /\ pc[r] = "prepared"
  /\ LiveClaim(r, now[r])
  /\ status' = [status EXCEPT ![c] = "dispatch_fenced"]
  /\ slots' = [slots EXCEPT ![c] = 1]
  /\ fencedAt' = [fencedAt EXCEPT ![c] = now[r]]
  /\ updatedAt' = [updatedAt EXCEPT ![c] = now[r]]
  /\ pc' = [pc EXCEPT ![r] = "fenced"]
  /\ UNCHANGED <<clock, workflowVars, lease, token, failures, outcomeVars,
                 createdAt, now, claim, answer, recVars, providerVars, foreign>>

(* StaleLease or DispatchAlreadyFenced, and the out-of-order rejection that
   rolls a terminal preparation failure back: the run ends, rows unchanged. *)
StaleClaim(r) ==
  /\ pc[r] \in {"retry_later", "give_up", "prepared"}
  /\ \/ ~LiveClaim(r, now[r])
     \/ /\ pc[r] # "prepared"
        /\ ~Retryable(r)
        /\ now[r] < lastEventAt[claim[r].command]
  /\ EndRun(r)
  /\ StoreUnchanged
-----------------------------------------------------------------------------
(* Mutants: the raw answer is passed on; an exception is read as no effect. *)
WorkerOutcomeRaw(a) == a
WorkerOutcomeOptimistic(a) ==
  IF a \in {"exception", "not_called"} THEN "called_no_effect" ELSE a

(* What the worker passes to record_outcome for an adapter's answer: an
   exception and a post-fence not_called both become called_unknown. *)
WorkerOutcome(a) ==
  IF a \in {"exception", "not_called"} THEN "called_unknown" ELSE a

(* The provider: an answer never claims an effect that did not happen nor
   denies one that did; a lost answer is an exception.  not_called means that
   the adapter gave up before sending anything. *)
ProviderAnswers(made) ==
  {"called_unknown", "exception"} \cup
  (IF made THEN {"effect_confirmed"} ELSE {"called_no_effect"})

Dispatch(r) ==
  LET c == claim[r].command IN
  /\ pc[r] = "fenced"
  /\ \/ \E made \in BOOLEAN : \E a \in ProviderAnswers(made) :
          /\ calls' = [calls EXCEPT ![c] = @ + 1]
          /\ effects' = [effects EXCEPT ![c] = IF made THEN @ + 1 ELSE @]
          /\ answer' = [answer EXCEPT ![r] = WorkerOutcome(a)]
     \/ /\ answer' = [answer EXCEPT ![r] = WorkerOutcome("not_called")]
        /\ UNCHANGED providerVars
  /\ pc' = [pc EXCEPT ![r] = "called"]
  /\ UNCHANGED <<clock, workflowVars, leaseVars, slots, fencedAt, outcomeVars,
                 createdAt, now, claim, recVars, foreign>>

(* _assert_live_dispatch_permit; the permit carries the run's lease and the
   fence time, which is the run's captured time. *)
LivePermit(r) ==
  LET k == claim[r]
      c == k.command
  IN /\ status[c] = "dispatch_fenced"
     /\ outcome[c] = "none"
     /\ lease[c] = [owner |-> WorkerId[r], acquired |-> k.acquired,
                    expires |-> k.expires]
     /\ token[c] = k.token
     /\ slots[c] = 1
     /\ fencedAt[c] = now[r]
     /\ updatedAt[c] <= now[r]
     /\ now[r] < k.expires

RecordOutcome(r) ==
  LET c == claim[r].command IN
  /\ pc[r] = "called"
  /\ LivePermit(r)
  /\ now[r] >= lastEventAt[c]
  /\ Close(c, answer[r], now[r])
  /\ EndRun(r)
  /\ UNCHANGED <<clock, token, failures, slots, fencedAt, createdAt,
                 recVars, providerVars, foreign>>

(* The outcome exists already (_resolve_duplicate_outcome answers or raises
   without a write), the permit is stale, or reduce rejects the time. *)
OutcomeRefused(r) ==
  /\ pc[r] = "called"
  /\ ~LivePermit(r) \/ now[r] < lastEventAt[claim[r].command]
  /\ EndRun(r)
  /\ StoreUnchanged

(* The process dies, or the adapter's prepare raises something else.  Bound:
   only leases that expire within MaxTime are orphaned, so that the run of
   the model sees what recovery does with them. *)
Crash(r) ==
  /\ pc[r] \notin {"idle", "begun"}
  /\ claim[r].expires <= MaxTime
  /\ EndRun(r)
  /\ StoreUnchanged
-----------------------------------------------------------------------------
(* load_ledger: the timeline a row must have to be readable at all *)
LedgerReadable(c) ==
  /\ updatedAt[c] >= createdAt[c]
  /\ status[c] = "queued" /\ token[c] = 0 => updatedAt[c] = createdAt[c]
  /\ status[c] \in Active =>
       lease[c].acquired <= updatedAt[c] /\ updatedAt[c] < lease[c].expires
  /\ status[c] = "dispatch_fenced" => fencedAt[c] = updatedAt[c]
  /\ slots[c] = 1 => fencedAt[c] <= updatedAt[c]
  /\ outcome[c] # "none" =>
       /\ status[c] = FinalStatus(outcome[c])
       /\ (slots[c] = 0) = (outcome[c] = "not_called")

(* workflow state type against ledger status, slot and claim counters *)
PhaseMatchesLedger(c) ==
  /\ failures[c] <= token[c]
  /\ CASE phase[c] = "execution_queued" ->
            status[c] = "queued" /\ token[c] = 0 /\ failures[c] = 0
       [] phase[c] = "executing" ->
            status[c] \in {"queued"} \cup Active /\ token[c] > 0
       [] phase[c] = "failed_before_provider" ->
            status[c] = "outcome_recorded" /\ slots[c] = 0 /\ failures[c] > 0
       [] phase[c] \in {"succeeded", "failed_no_effect"} ->
            status[c] = "outcome_recorded" /\ slots[c] = 1 /\ token[c] > 0
       [] phase[c] = "manual_review" ->
            status[c] = "manual_review" /\ slots[c] = 1 /\ token[c] > 0
       [] OTHER -> FALSE

(* _verify_execution_outcome_history and the outbox projection *)
OutcomeMatchesHistory(c) ==
  LET own == {m \in messages : m.command = c} IN
  IF outcome[c] = "none" THEN own = {}
  ELSE /\ phase[c] = TerminalPhase(outcome[c])
       /\ lastEventAt[c] = updatedAt[c]
       /\ closedAt[c] = revision[c]
       /\ own = {[command |-> c, certainty |-> outcome[c],
                  createdAt |-> updatedAt[c]]}

(* assert_execution_consistency: raises DataCorruption unless this holds *)
ExecutionConsistent ==
  \A c \in Accepted : /\ LedgerReadable(c)
                      /\ PhaseMatchesLedger(c)
                      /\ OutcomeMatchesHistory(c)

(* Reconciler.run_once: assert, release, promote; each its own transaction.
   The closing assertion of run_once only raises, so it is not a step. *)
ReconcilerBegin ==
  /\ recPc = "idle"
  /\ ExecutionConsistent
  /\ recPc' = "release"
  /\ recNow' = clock
  /\ UNCHANGED <<clock, workflowVars, leaseVars, slots, fencedAt, outcomeVars,
                 createdAt, runVars, providerVars, foreign>>

(* Mutant: a lease that expired after the fence is released for a retry. *)
ExpiredAnyLease(c) == status[c] \in Active /\ lease[c].expires <= recNow

ExpiredPreparation(c) ==
  status[c] = "preparing" /\ slots[c] = 0 /\ lease[c].expires <= recNow

ReleaseExpiredPreDispatch ==
  LET expired == {c \in Commands : ExpiredPreparation(c)} IN
  /\ recPc = "release"
  /\ status' = [c \in Commands |-> IF c \in expired THEN "queued" ELSE status[c]]
  /\ lease' = [c \in Commands |-> IF c \in expired THEN NoLease ELSE lease[c]]
  /\ updatedAt' = [c \in Commands |-> IF c \in expired THEN recNow ELSE updatedAt[c]]
  /\ recPc' = "promote"
  /\ UNCHANGED <<clock, workflowVars, token, failures, slots, fencedAt,
                 outcomeVars, createdAt, runVars, recNow, providerVars, foreign>>

(* Mutant: the slot predicate of the release query, copied unchanged. *)
ExpiredFenceUnspent(c) ==
  status[c] = "dispatch_fenced" /\ slots[c] = 0 /\ lease[c].expires <= recNow

ExpiredFence(c) ==
  status[c] = "dispatch_fenced" /\ slots[c] = 1 /\ lease[c].expires <= recNow

FencesExpired == {c \in Commands : ExpiredFence(c)}

(* Every expired fence in one transaction: both events, the outcome, the row
   and the message of each. *)
MarkExpiredFencedUnknown ==
  LET Set(f, v) == [c \in Commands |-> IF c \in FencesExpired THEN v ELSE f[c]]
      closing   == [c \in Commands |-> revision[c] + OutcomeEvents("called_unknown")]
  IN
  /\ recPc = "promote"
  /\ \A c \in FencesExpired : recNow >= lastEventAt[c]
  /\ phase' = Set(phase, "manual_review")
  /\ revision' = [c \in Commands |-> IF c \in FencesExpired THEN closing[c] ELSE revision[c]]
  /\ closedAt' = [c \in Commands |-> IF c \in FencesExpired THEN closing[c] ELSE closedAt[c]]
  /\ lastEventAt' = Set(lastEventAt, recNow)
  /\ outcome' = Set(outcome, "called_unknown")
  /\ status' = Set(status, "manual_review")
  /\ lease' = Set(lease, NoLease)
  /\ updatedAt' = Set(updatedAt, recNow)
  /\ messages' = messages \cup
       {[command |-> c, certainty |-> "called_unknown", createdAt |-> recNow] :
          c \in FencesExpired}
  /\ recPc' = "idle" /\ recNow' = 0
  /\ UNCHANGED <<clock, token, failures, slots, fencedAt, createdAt, runVars,
                 providerVars, foreign>>

(* One row whose events the reducer rejects as out of order rolls the whole
   batch back, and a reconciler that dies between two of its transactions
   leaves the later ones undone. *)
ReconcilerAborts ==
  /\ recPc # "idle"
  /\ \/ recPc = "promote" /\ \E c \in FencesExpired : recNow < lastEventAt[c]
     \/ clock < MaxTime
  /\ recPc' = "idle" /\ recNow' = 0
  /\ UNCHANGED <<clock, workflowVars, leaseVars, slots, fencedAt, outcomeVars,
                 createdAt, runVars, providerVars, foreign>>
-----------------------------------------------------------------------------
RunStep(r) ==
  \/ BeginRun(r)
  \/ ClaimNothing(r)
  \/ ClaimCommand(r)
  \/ Prepare(r)
  \/ RequeuePreparation(r)
  \/ AbandonPreparation(r)
  \/ FenceDispatch(r)
  \/ StaleClaim(r)
  \/ Dispatch(r)
  \/ RecordOutcome(r)
  \/ OutcomeRefused(r)

Reconcile ==
  \/ ReconcilerBegin
  \/ ReleaseExpiredPreDispatch
  \/ MarkExpiredFencedUnknown
  \/ ReconcilerAborts

Next ==
  \/ Tick
  \/ \E d \in {Draft[c] : c \in Commands} : AcceptGroup(d)
  \/ \E c \in Commands, t \in 0..clock : ApplyEvent(c, t)
  \/ \E r \in Runs : RunStep(r) \/ RenewCommandLease(r) \/ Crash(r)
  \/ Reconcile

Spec == Init /\ [][Next]_vars

(* The worker loop calls run_once again and again, the reconciler's queue is
   polled forever, and time passes. *)
Fairness ==
  /\ WF_vars(Tick)
  /\ \A r \in Runs : WF_vars(RunStep(r))
  /\ WF_vars(Reconcile)

FairSpec == Spec /\ Fairness
-----------------------------------------------------------------------------
Phases == {"none", "execution_queued", "executing", "succeeded",
           "failed_no_effect", "manual_review", "failed_before_provider"}
RunStates == {"idle", "begun", "claimed", "retry_later", "give_up", "prepared",
              "fenced", "called"}

Lease == [owner : {"none"} \cup {WorkerId[r] : r \in Runs},
          acquired : Time, expires : Time]
Claim == [command : Commands \cup {0}, token : Nat, acquired : Time,
          expires : Time, failures : Nat, revision : Nat]

TypeWorkflow ==
  /\ phase \in [Commands -> Phases]
  /\ revision \in [Commands -> Nat]
  /\ lastEventAt \in [Commands -> 0..MaxTime]
TypeLedger ==
  /\ status \in [Commands -> {"absent", "queued"} \cup Active \cup Settled]
  /\ lease \in [Commands -> Lease]
  /\ token \in [Commands -> Nat]
  /\ failures \in [Commands -> 0..MaxPreparationFailures]
  /\ updatedAt \in [Commands -> 0..MaxTime]
  /\ createdAt \in [Commands -> 0..MaxTime]
TypeDispatch ==
  /\ slots \in [Commands -> 0..1]
  /\ fencedAt \in [Commands -> Time]
  /\ outcome \in [Commands -> Certainty \cup {"none"}]
  /\ closedAt \in [Commands -> Nat]
  /\ messages \subseteq [command : Commands, certainty : Certainty,
                         createdAt : 0..MaxTime]
TypeRuns ==
  /\ pc \in [Runs -> RunStates]
  /\ now \in [Runs -> 0..MaxTime]
  /\ claim \in [Runs -> Claim]
  /\ answer \in [Runs -> Certainty \cup {"none"}]
  /\ \A r \in Runs : pc[r] \notin {"idle", "begun"} => claim[r].command \in Commands
TypeRest ==
  /\ clock \in 0..MaxTime
  /\ recPc \in {"idle", "release", "promote"}
  /\ recNow \in 0..MaxTime
  /\ calls \in [Commands -> Nat]
  /\ effects \in [Commands -> Nat]
  /\ foreign \in 0..MaxForeignEvents

(* Every column and every run holds a value of its type; in particular the
   failure counter stays within its budget, the slot counter within one, and
   only a certainty of the closed set is ever kept or recorded. *)
TypeOK == TypeWorkflow /\ TypeLedger /\ TypeDispatch /\ TypeRuns /\ TypeRest

(* At most one provider execution per command, whatever workers crash, stall
   past their lease or are overtaken: calls never exceed the one slot. *)
AtMostOneCall == \A c \in Commands : calls[c] <= slots[c] /\ effects[c] <= calls[c]

(* A recorded outcome never lies about the provider: not_called means no call
   was or will be sent, confirmed means the reservation exists, no_effect that
   it does not, even when the outcome was written by another actor than the
   run that called (reconciler against late worker). *)
OutcomeTruthful ==
  \A c \in Commands :
    /\ outcome[c] = "not_called" =>
         calls[c] = 0 /\ \A r \in Runs : claim[r].command = c => pc[r] # "fenced"
    /\ outcome[c] = "effect_confirmed" => effects[c] = 1
    /\ outcome[c] = "called_no_effect" => calls[c] = 1 /\ effects[c] = 0

(* The commands of one package (same draft and version) are sent one at a
   time: no two runs are between fence and recording for two siblings, even
   when a lease has expired while its call is still in flight. *)
InFlight(c) ==
  \E r \in Runs : claim[r].command = c /\ pc[r] \in {"fenced", "called"}

PackageSerial ==
  \A c \in Commands : \A o \in Siblings(c) : ~(InFlight(c) /\ InFlight(o))

(* Package stop: once a command needs manual review no sibling of it is ever
   fenced, although preparation_block is read outside the transaction that
   fences.  In particular a package never holds two commands under review. *)
PackageStop ==
  \A c \in Commands : \A o \in Siblings(c) :
    status[c] = "manual_review" => status[o] \notin {"dispatch_fenced", "manual_review"}

(* A preparation that has used its whole failure budget is closed as
   not_called: no row waits in the queue for an attempt it may not make. *)
BudgetSpentIsClosed ==
  \A c \in Commands :
    failures[c] = MaxPreparationFailures => outcome[c] = "not_called"

(* A dispatch slot is spent for good and an outcome is final: no step of any
   actor returns a fenced command to the queue, rewrites an outcome, or lets
   the row of a settled command change again. *)
FenceIsOneWay ==
  [][\A c \in Commands :
       /\ slots[c] = 1 => slots'[c] = 1 /\ status'[c] \notin {"queued", "preparing"}
       /\ status[c] \in Settled =>
            /\ status'[c] = status[c]
            /\ outcome'[c] = outcome[c]
            /\ updatedAt'[c] = updatedAt[c]]_vars

(* assert_execution_consistency holds for the accepted commands at every
   instant, as long as no other event was applied to their workflows: the
   reconciler that starts with it never refuses to work.  (After such an
   event it may: that is the run that expects a violation.) *)
ReconcilerNeverRefuses == foreign = 0 => ExecutionConsistent

(* The ledger keeps the promise of ReservationPromise: a command is pending
   until its slot is spent and committed from then on; its result is the
   recorded outcome.  Crashes, takeovers, late answers and the reconciler are
   steps of the promise or do not show. *)
Stage == [c \in Commands |-> IF status[c] = "absent" THEN "absent"
                             ELSE IF slots[c] = 1 THEN "committed" ELSE "pending"]

Promise == INSTANCE ReservationPromise
             WITH Package <- Draft, stage <- Stage, result <- outcome

KeepsPromise == Promise!Spec

(* Every authorized command reaches a safe terminal state: workers that crash
   or stall, exhausted preparations and lost answers included. *)
EveryCommandSettles ==
  \A c \in Commands : (status[c] = "queued") ~> (status[c] \in Settled)
-----------------------------------------------------------------------------
(* The inductive strengthening behind the safety properties. *)

InCall == {"fenced", "called"}

(* A run between fence and recording owns the slot of its command, alone. *)
SlotOwner ==
  /\ \A r \in Runs : pc[r] \in InCall =>
       /\ slots[claim[r].command] = 1
       /\ status[claim[r].command] \in {"dispatch_fenced", "manual_review"}
  /\ \A r \in Runs : pc[r] = "fenced" => calls[claim[r].command] = 0
  /\ \A r, q \in Runs :
       r # q /\ pc[r] \in InCall /\ pc[q] \in InCall =>
         claim[r].command # claim[q].command

(* An answer kept by a run tells the truth about the provider. *)
AnswerTruthful ==
  \A r \in Runs : pc[r] = "called" =>
    LET c == claim[r].command IN
    /\ answer[r] \in Certainty \ {"not_called"}
    /\ answer[r] = "effect_confirmed" => effects[c] = 1
    /\ answer[r] = "called_no_effect" => calls[c] = 1 /\ effects[c] = 0

(* Outcome, slot and status of a row agree. *)
RowShape ==
  \A c \in Commands :
    /\ status[c] \in {"absent", "queued", "preparing"} => slots[c] = 0
    /\ status[c] \notin Settled => outcome[c] = "none"
    /\ status[c] = "outcome_recorded" => outcome[c] \notin {"called_unknown", "none"}
    /\ status[c] = "manual_review" => outcome[c] = "called_unknown"
    /\ outcome[c] = "not_called" => slots[c] = 0

(* At most one command of a package is claimed or fenced. *)
PackageExclusive ==
  \A c \in Commands : \A o \in Siblings(c) :
    ~(status[c] \in Active /\ status[o] \in Active)

(* Tokens held by runs are not from the future, and the package stop that a
   prepared run has read still stands as long as its claim is current. *)
ClaimCurrent ==
  \A r \in Runs : pc[r] \notin {"idle", "begun"} =>
    LET c == claim[r].command IN
    /\ claim[r].token <= token[c]
    /\ pc[r] = "prepared" /\ status[c] = "preparing" /\ claim[r].token = token[c]
         => \A o \in Siblings(c) : status[o] # "manual_review"

(* What TLC checks before, and TLAPS proves inductive: every step of a worker
   run, of the reconciler and of the event path preserves it. *)
InductiveInv ==
  /\ TypeOK
  /\ SlotOwner
  /\ AnswerTruthful
  /\ RowShape
  /\ PackageExclusive
  /\ ClaimCurrent
  /\ AtMostOneCall
  /\ OutcomeTruthful
  /\ PackageStop
  /\ BudgetSpentIsClosed
=============================================================================
