# A TLA+ verification of the reservation agent

The repository is the reservation agent of Maya / Chapada Leads: leads write on a
messaging channel, the agent searches accommodation and activities, presents one
summary, and, after one later confirmation, books at an external provider. The
contract stated in the repository's README is

> one summary -> one later natural confirmation -> at most one durable command ->
> at most one provider execution.

This directory models the parts that carry that contract, model-checks them on
small instances with TLC and proves the central statements for all instances
with TLAPS. Every definition is translated from the code; `PROJECT.json` gives
the source lines of each one.

## 1. The system

### Parts, state and operations

| part | state | operations | interacts with |
|---|---|---|---|
| `reservation_domain` | none: `reduce(state, event)` is pure over a workflow state (phase, lookup evidence, draft, summary, decision, command, metadata) | twelve events, validators, signatures, package split | called by the execution store and the boundary |
| `reservation_lookup`, `reservation_confirmation` | none | parse provider answers into offers; render summaries; classify a lead's answer | produce the reducer's events |
| `reservation_execution` | one SQLite database: workflows, events, commands, execution ledger, outbox | accept a group, apply event, claim, renew, fence, release, record outcome, promote expired fences; claim / complete / release outbox | `CommandWorker`, `Reconciler`, `OutboxWorker`, external provider and transport |
| `reservation_followup` | one SQLite database: handoffs, payments, evidence claims, settlements, their outboxes | fenced deliveries, settlement fence, recovery of expired settlements | follow-up workers, `PaymentReconciler`, channel, Stripe |
| `reservation_boundary` | one SQLite database: turns, receipts, command relays, internal jobs, public outbox | commit turn, claim / complete / release per queue | turn executor, relay worker, public delivery |
| `v2_application` | inbox database; otherwise orchestration | accept and coalesce messages, execute turns, relay, project outcomes, payments, critical actions, recovery | all stores |
| `v2_adapters`, `v2_contracts` | none | provider, channel, model and Stripe I/O; frozen contracts | external services |
| `v2_host` | process lock, heartbeat, backoff | worker cycle over the queues, reconciliation stage | all workers |
| `v2_ops`, `deploy`, `phase8_release`, `scripts` | ops database, canary assignments, evidence files | dashboard, routing, rollback, validation | read the stores |

`PROJECT.json` lists all parts with their status.

### What is hard

* Every worker is *claim, work outside a transaction, write back*. Between two
  transactions anything may happen: the lease expires, another run or the
  reconciler takes the row, the process dies, the provider's answer is lost.
* `run_once(now=...)` reads the clock once. The whole run, provider call
  included, goes on with that captured time, so a run that stalled for an hour
  still believes its lease to be live; only fencing tokens, leases and revisions
  stored in the row protect it.
* A confirmed package becomes several commands that must be sent one at a time
  and must stop when one of them is uncertain; the check for that is a plain
  read outside the fencing transaction.
* Events reach the reducer late, twice and out of order; versions restart at 1
  after a new search.
* Stores verify their own history and raise on inconsistency, so a state they
  refuse stops the reconciler and the queues.

The list of hazards, each at its line and with the properties that cover it, is
in `PROJECT.json`.

## 2. Modules

| module | what it models |
|---|---|
| `CommandExecution` | `reservation_execution`: ledger, `CommandWorker`, `Reconciler`, external provider |
| `ReservationPromise` | the abstract specification of `reservation_execution`: what a caller may rely on |
| `CommandExecutionProofs` | theorems of `CommandExecution`, and that it implements `ReservationPromise` |
| `ReservationWorkflow` | `reservation_domain`: `reduce` and the state validators |
| `ReservationWorkflowProofs` | its theorems |
| `OutboxDelivery` | the outbox of `reservation_execution`, `OutboxWorker`, external transport |
| `OutboxDeliveryProofs` | its theorems |
| `TurnInbox` | the inbound path: `SQLiteInbox`, `InboxTurnWorker`, the store protocol of `V2TurnExecutor.execute`, hand-over of terminal batches |
| `TurnInboxProofs` | its theorems |
| `BoundaryRelay` | the hand-over of committed turns from the boundary store to the execution and follow-up stores: `SQLiteBoundaryWorkerStore`, `BoundaryRelayWorker`, the idempotent ingress of both targets |
| `BoundaryRelayProofs` | its theorems |
| `PublicDelivery` | the replies of a lead: `boundary_public_outbox` with its authorities, `BoundaryPublicDeliveryWorker`, completion turns (`CompletionProjector`) and customer turns that absorb them |
| `PublicDeliveryProofs` | its theorems |
| `HandoffDelivery` | `reservation_followup`: handoff workflow, its outbox, `HandoffOutboxWorker` |
| `HandoffDeliveryProofs` | its theorems |
| `PaymentSettlement` | `reservation_followup`: payment workflow, evidence claims, settlement ledger, `PaymentSettlementWorker`, `PaymentReconciler` |
| `PaymentSettlementProofs` | its theorems |
| `MC...` | constants for TLC |

The modules are the stations of one path: a message (`TurnInbox`) becomes a turn,
whose relays (`BoundaryRelay`) become commands (`CommandExecution`, driven by the
events of `ReservationWorkflow`) or handoffs (`HandoffDelivery`); results, payment
offers and settlements (`PaymentSettlement`) come back as completions
(`PublicDelivery`). Stations share no transaction: each is a database of its own,
and what one promises (a turn arrives whole and once, a result is true and final)
is what the next one starts from.

### CommandExecution

One action is one store transaction (`BEGIN IMMEDIATE`, rolled back on any
exception) or one call outside one. The variables are the columns the code reads
back: of the workflow (`phase`, `revision`, `lastEventAt`), of the execution
ledger (`status`, `lease`, `token`, `failures`, `slots`, `fencedAt`, `outcome`,
`updatedAt`), of the command (`createdAt`), the revision of its closing event
(`closedAt`) and the outbox rows (`messages`); the local variables of each
running `run_once` (`pc`, `now`, `claim`, `answer`) and of the reconciler
(`recPc`, `recNow`); and what the provider really did (`calls`, `effects`).

| action | code |
|---|---|
| `AcceptGroup` | `accept_boundary_reservation_group` |
| `ApplyEvent` | `apply_event` after authorization: the reducer ignores the event, the metadata moves |
| `BeginRun`, `ClaimNothing`, `ClaimCommand` | `run_once`, `claim_command` |
| `Prepare` | `preparation_block`, then the adapter's `prepare` |
| `RenewCommandLease` | `renew_command_lease` |
| `RequeuePreparation`, `AbandonPreparation` | `release_preparation_failure`, retryable or exhausted |
| `FenceDispatch`, `StaleClaim` | `fence_dispatch`, or its refusal |
| `Dispatch` | the provider call and the normalisation of its answer |
| `RecordOutcome`, `OutcomeRefused` | `record_outcome` and its duplicate resolution |
| `Crash` | the process dies between two transactions |
| `ReconcilerBegin`, `ReleaseExpiredPreDispatch`, `MarkExpiredFencedUnknown`, `ReconcilerAborts` | `Reconciler.run_once` |

`claim_count` moves with `fencing_token`, and the request hash with the dispatch
slot, so each pair is one variable. Hashes, canonical JSON and projections are
left out. The provider is external: a call may take effect or not, and its
answer may be exact, unknown or lost.

### ReservationWorkflow

One action is one event taken by its handler; `Unapplied` is an event that is out
of order, has no handler in the phase or is rejected. A query, an offer, the
customer facts and terms are model values; a *stamp* is what the code compares of
a draft, summary, confirmation or command: subject signature, version, time. The
signature covers offer, customer and terms, not the draft id or the version. The
variable `shown` records what the lead was really sent last. A duplicate event id
returns the state unchanged, which is a stuttering step. The result phases keep
draft, summary and decision as history; the code drops them.

### OutboxDelivery

`InsertOutbox`, `ClaimOutbox`, `CompleteOutbox`, `ReleaseOutbox` are the store's
transactions, `Deliver` and `DeliveryFails` the external transport, `RunRefused`
a stale or refused write, `Crash` a dead process. `ReceiptDating` says whose clock
a transport dates its receipt with.

### TurnInbox

One action is one transaction of one of the four stores on the path of a message:
inbox, boundary, private facts, follow-up. Variables are the columns of
`inbound_events` (`status`, `occurredAt`, `batch`, `holder`, `expires`, `retryAt`,
`failures`, `handoff`), the live processes and where each is in `run_once` (`up`,
`pc`, `job`), the committed turns and the last fence of each lead, the recorded
dialogue, and the exception handoffs.

| action | code |
|---|---|
| `Accept` | `SQLiteInbox.accept` from the webhook, at any time |
| `Start`, `Crash`, `Interrupt` | the worker process under `SQLiteWorkerOwnershipLease`, its death, and an interrupt that releases the claim |
| `ClaimReady` | `claim_ready`: free expired claims, choose by `ready_at, first_at, lead_id`, freeze the batch |
| `LoadReceipt`, `AcquireFence`, `Revalidate`, `CommitTurn`, `CommitConflict`, `AfterConflict` | `execute`, `_prepare`, `commit_turn_v8` and the retry on `ConcurrencyConflict` |
| `RecordDialogue` | `_record_committed_dialogue` |
| `CompleteClaim`, `AckFails`, `Fail`, `RejectAction` | the acknowledgement and the `except` branch of `run_once` with `release_claim` |
| `OpenException`, `RecordHandoff`, `CloseHandoff` | `ManualReviewHandoffProjector` over the inbox, and an operator |

A batch id is the hash of its events, so a batch is their set. A turn is its
batch: the artifacts, commands and rows it owns are written in the same
transaction and are left out, and so are the turns that are authored for completed
executions (same process, never interleaved with an inbox turn). A redelivered
event writes nothing. Two executions of one batch never produce the same receipt
(each dates its own). `Exclusive = TRUE` is the deployed arrangement; `FALSE`
asks what the claims and fences guarantee by themselves.

### ReservationPromise

Per command a stage (absent, pending, committed), a result, and what the provider
saw. `Accept`, `Commit`, `Call`, `Report` are all that can happen; there are no
leases, runs or clocks. The refinement mapping is in `CommandExecution`: the stage
is `committed` once the dispatch slot is spent, the result is the recorded outcome.
The promise is weaker than one would like in one place, and the code is as weak:
a request may still leave for a command already reported as unknown.

### BoundaryRelay

`CommitTurn` inserts the relays of a turn, `ClaimCommandRelay` and
`ClaimInternalJob` free lapsed leases and take the lowest id, `Accept` is the
target's transaction for the whole group of the turn, `Complete` and `Release` write
back under the token, `Fail` is any exception in between, `Crash` a dead process.
`boundary_command_relays` and the handoff rows of `boundary_outbox` have the same
columns and the same code, so they share the row variables. `inserted` counts how
often the target inserted a row's workflow.

### PublicDelivery

Rows are chunks of turns of one lead (the queries relate rows of one lead only).
`PrepareCompletion` and `PrepareCustomer` read, under the fence of the lead's state,
which news is uncovered or told by a completion nobody has tried to send;
`CommitTurn` looks again, cancels what it absorbs and inserts its own rows;
`AbandonTurn` is every failure in between. `Claim` is `claim_public_delivery` with
`_recover_expired_public`; `Fence`, `Send`, `SendFails`, `Complete`, `Release`,
`MarkReview` and the failures follow `run_once` and its `except` branches. A run
claims once and each claim raises the token, so the holder of a row stands for its
token.

### HandoffDelivery

Variables are the workflow (`hstatus`, `acked`, `conflict`, `failed`), the outbox row
(`status`, `slot`, `token`, `expires`, `updatedAt`), receipts (`late`: dated after
their lease), runs and what the contact experienced (`sends`). `Loads` is
`_load_handoff` with `_handoff_outbox_jobs` (`RowLoads`), the first thing every
operation on an existing handoff does; it refuses a row under review and a late
receipt, which the operations themselves write, so it is a guard of all of them.
`ClaimJob`, `ClaimNothing` and `ClaimRefused` are the outcomes of one
`claim_handoff_outbox`, with the recovery (`RecoverUncertain`) in its transaction;
`ClaimRaises` says when it raises: in the recovery (`RecoveryRaises`), because the
candidate's handoff does not load after it (`CandidateLoads`), or because of the
caller's time. `BeginDelivery` spends the slot; `Deliver` is external and dates its
receipt; `CompleteDelivery` and `ReleaseDelivery` (with
`mark_handoff_outbox_unknown`) close the row and apply an event to the workflow;
`OpenHandoff`, `RequestConflict`, `CancelHandoff` are the commands from outside.
The schema is version 2, which production uses.

### PaymentSettlement

`SelectMethod`, `RecordSummary`, `ConfirmSummary`, `ClosePayment` are `apply_payment`
by event; a summary is its number, and the version and signature the code compares
are what tells two summaries apart. `ClaimEvidence` creates command, claim and ledger
row together. `ClaimSettlement`, `Prepare`, `ReleasePreDispatch`, `FenceSettlement`,
`Dispatch`, `Post`, `RecordOutcome`, `RunRefused` follow the worker, `RecoverFenced`
and `RecoverPreDispatch` the reconciler; `CloseLedger` is the four-row change that
ends a settlement on each of these paths; `Agree` is the table of combinations that
`_payment_financial_records` accepts. The provider may register the payment and lose
its answer.

## 3. Runs

| run | shows | instance |
|---|---|---|
| `command_safety` | single execution, truthful outcomes, package order and stop, one-way fence; the store's own `assert_execution_consistency` never fails without a foreign event; the store implements `ReservationPromise` | 2 commands of one package, 2 concurrent runs with one worker id, budget 1, TTL 2, time 0..3, 1 foreign event |
| `command_liveness` | every queued command reaches a terminal status; a spent preparation budget is always closed | 1 run, budget 2, TTL 2, time 0..3 |
| `command_wedge` (violation) | an ignored event makes the store call itself corrupt, and then the reconciler never recovers an orphaned command | 1 foreign event, with fairness |
| `workflow_safety` | authorization, freshness, finality and validity over every event history | 2 requests, 2 offers, 2 terms, 3 versions, time 0..5 |
| `outbox_delivery` | leases exclude, overtaken runs never write, every message is delivered unless the transport keeps dating its receipts after the run's own time | 2 messages, 2 runs, 1 failed delivery, TTL 1, time 0..2 |
| `inbox_leases` | claims, frozen batches and fences alone: one turn per event, one unfinished batch per lead, acknowledged only after turn and dialogue | 1 lead with 2 events, 2 processes without ownership lock, budget 2, 2 commit attempts, 1 fault, time 0..3 |
| `inbox_owner` | with the ownership lock: no turn for a batch that was given away, one handoff per terminal batch, every event acknowledged or with a human | the same with the lock, 2 faults, messages stamped 0 or 1 |
| `handoff_delivery` | no contact is paused or mailed twice, or after the operator closed the incident; unknown results are on record; a handoff is refused by its loader exactly when a delivery is under review or has a late receipt; every job ends unless the queue is wedged for one of three named reasons | 1 handoff with both jobs, 2 runs, TTL 1, time 0..2 |
| `handoff_wedge` (violation) | a handoff cancelled during its delivery starves all others | 2 handoffs, 1 run |
| `payment_settlement` | money moves once and only for what was confirmed; workflow, claim, ledger and effects agree at every instant; every settlement gets an outcome | 2 payments competing for 1 evidence, 2 summaries, 2 runs, 2 claims each, time 0..2 |
| `relay` | a turn arrives whole and once; an overtaken run changes nothing; every relay ends | a package of two and a handoff, 2 runs, 2 failures, TTL 1 |
| `public_delivery` | the customer hears everything at most once and in order, absorbed completions included; every row ends | 2 events, 1 completion of 2 chunks, 1 customer turn, 2 runs, TTL 1, time 0..2 |

**Bounds.** Two runs give every pairwise race (two runs on one row, one run on each
of two rows, run against reconciler or operator). A lease that ends one instant before
the clock does lets a lease be live, expire and be taken over while its first holder
still works; with two instants to spare the taker can be overtaken as well. Three
draft versions let an answer be about the version before and the one before that;
times 0..5 leave room for a complete history from search to result. Failure budgets
of 1 or 2 reach both sides of the comparison; the code's value is 3 and enters only
by that comparison. Two chunks let a completion be sent in part when a customer turn
wants to absorb it. `MaxForeignEvents`, `MaxFailures`, `MaxNotCalled` and `MaxFaults`
bound events and failures. `Crash` in the models orphans only leases that expire
within the clock's range, so that recovery stays observable; `ReconcilerAborts` is
bounded likewise. In `TurnInbox` the last instant, `Horizon`, stands for all later
ones: a deadline beyond it is due at it, so retries and orphaned claims remain
recoverable there. Its runs end quietly when every event is settled, so they do not
check deadlock. The clock stops at `MaxTime` in the other modules; runs go on at that
time, so deadlock is checked there.

**Fairness.** `FairSpec` assumes weak fairness of the clock, of each run's steps, of
the reconcilers, and of restarting a dead worker process: the worker cycle of
`v2_host/worker_main.py` polls every queue for ever, a service manager restarts it,
and a step inside a run is ordinary sequential code. In `HandoffDelivery` a claim
uses a time captured by the caller; fairness asks only that claims with the current
time are not put off for ever. No fairness is assumed for crashes, renewals,
acceptance, commits or events, and none for a good answer of a provider, transport or
channel. The liveness results assume finitely many preparation failures (the budget),
transport failures and foreign events; `PaymentSettlement` assumes that the
reconciliation stage reaches the payment reconciler, which is not so while an earlier
part of the stage raises (`production.py:491`, see `command_wedge`).

## 4. Proofs

All theorems hold for every value of the constants that satisfies the named
assumptions (positive budget and lease time, numbers for ids, bounds natural).

`CommandExecutionProofs` proves that `InductiveInv` is inductive and derives
`TypeCorrect`, `SingleExecution`, `TruthfulOutcomes`, `PackagesStop`,
`PackagesSerial`, `BudgetCloses` and the action property `FenceOneWay`. The
argument: the properties alone are not inductive because they speak of calls and
outcomes, while what prevents a second call is in rows and claims. The
strengthening says that a run between fence and record owns its command's slot
alone (`SlotOwner`), that the answer it keeps is true (`AnswerTruthful`), that
status, slot and outcome of a row agree (`RowShape`), that at most one command of
a package is claimed or fenced (`PackageExclusive`), and that the package stop
which a prepared run has read still stands while its claim is current
(`ClaimCurrent`): no sibling can reach manual review without having been fenced,
and none can be fenced while this one is being prepared. That is why a read
outside the transaction is enough. The proofs include foreign events, renewals,
crashes and any number of runs and siblings.

It also proves `ImplementsPromise`: the same invariant makes
every step of the store, its workers and its reconciler a step of
`ReservationPromise` or a stutter. One lemma per action gives the abstract step:
`FenceDispatch` is `Commit` (by `PackageExclusive` and the package stop no sibling is
committed without a certain result), `Dispatch` is `Call` (by `SlotOwner`), the four
ways to an outcome are `Report` (by `AnswerTruthful` and `RowShape`), the rest does
not show.

`ReservationWorkflowProofs` proves `WorkflowInductive` and from it
`WorkflowTypeCorrect`, `ReducerNeverInvalid`, `CommandsAuthorized`,
`OrdersAnswerRequests` and the action property `CommandsFinal`, for any sets of
queries, offers and terms. The strengthening, `PresentationCurrent`, says that
while an answer is awaited the lead's last summary is the current one, and that a
draft phase holds a real draft.

`BoundaryRelayProofs` proves `TurnsArriveWhole` and `HoldersOnly`. The receipt is
written in the target's database and the acknowledgement in the boundary's, so the
first needs an invariant across both: a receipt exists exactly for inserted rows, the
rows of a turn are inserted all or none, and a row is acknowledged, or a run goes on
to acknowledge it, only after its insertion. The second needs that no run is ahead of
the clock, since leases are compared with the time a run captured.

`PaymentSettlementProofs` proves `NeverPaidTwice`, `OutcomesTruthful`, `OnlyAuthorised`
and `RecordsAlwaysAgree` from `SettlementInv`. The records of a payment decide what may
still happen to it (`Agree`); claims are unique and none is newer than its row
(`TokensUnique`, `TokensFresh`); a run past the fence holds the last claim of its
payment and the only slot (`FenceOwned`), so whoever has not posted is the only one who
will (`PostPending`), and what a run or the ledger says of the provider is true
(`AnswersBacked`, `OutcomesBacked`). A run that outlived its lease still posts at most
once: the reconciler can only declare the outcome unknown, which is true either way.

`OutboxDeliveryProofs` proves `LeasesExclude` and the action property `HoldersWrite`
from `OutboxInv`. That two runs overlap only after an expiry is not inductive: a run
that was overtaken long ago says nothing about the row of today. `ClaimsDated` relates
every claim to the row, the newest being the lease in it and every older one having
expired when the row was last written; `ClaimsUnique` says that a token is held by one
run. A write-back compares token and lease, so by the first only the newest claim passes
it, and by the second only its run.

`TurnInboxProofs` proves `InboxInductive` and from it `BatchesStayTogether`,
`OneBatchAtATime`, `EventsTurnedOnce`, `AcknowledgedHasTurn`, `ExceptionsOpenedOnce` and
the action property `OwnerAnswersClaimed`. Three databases take part, so the invariant
goes across them: a process works on a batch that is frozen (`JobsFrozen`), every
committed turn is a frozen batch and no batch has two (`TurnsFrozen`), and a process
that goes on to the dialogue or to the acknowledgement has a stored turn behind it
(`RepliesStored`), even when the claim is no longer its own. Since a frozen batch never
changes and an event is in one batch, no event is in two turns; the ownership lock is not
needed for that. Inside the inbox, rows of one batch move together only because a row
that was never claimed is blank (`FreshRows`), an unclaimed one has no lease
(`HeldWhenClaimed`) and a claimable one has budget left (`BudgetLeft`). `HandoffsKnown`
says that an active handoff, and the one a process is about to link, exist and are of the
lead. `OwnerAnswersClaimed` has the hypothesis `Exclusive`, the ownership lock of
`worker_main`; without it the statement is false (section 5). With it `OwnerAlone` gives
the rest: one process lives, and what it executes is claimed by it; an expired claim can
only be freed by a claim of the same process, which is executing and takes none.

`HandoffDeliveryProofs` proves `HandoffsRefused`, `JobsSentOnce`, `ReviewsVisible` and the
action properties `RefusalsLast` and `CancelledIsQuiet` from `HandoffInv`.
`HandoffsRefused` is an equivalence: a handoff does not load exactly when a delivery is
under review or has a late receipt. Apart from these two, what `_load_handoff` insists on
is nearly inductive (`WorkflowsLoad`, `RowsLoad`, and `LeasesDated` for the order of a
lease's times); it needs that a handoff appears together with its rows and that a leased
row was claimed (`RowsOpened`). No action takes a row out of review or a receipt out of
`late`, hence `RefusalsLast`: a refused handoff is refused for ever. At most one effect follows
from `EffectsCounted`, `ClaimsFenced` (beyond the dispatch a run has the last claim and
the slot), `ClaimsUnique` and `AnswersTrue`. A receipt can so be believed after a
recovery moved the row to review in the meantime.

`PublicDeliveryProofs` proves `LeadHearsOnce` and the action property `LeadHearsInOrder`
from `PublicInv`. The news of an event may be told by a completion and by the customer
turn that absorbs it; `NewsCovered` says that of two such turns one is cancelled to the
last chunk, and `PlanCurrent` carries this over the time between the preparation of a
turn and its commit, when workers may claim the very rows it wants to absorb: the commit
looks at them again, and the state fence keeps other turns out. Turns are ordered by
`state_version`, which counts the commits, so a new turn comes after all others only if
no version exceeds their number (`CommitsNumbered`). For that the proof uses the
cardinality of the set of committed turns, and with it the assumption that `Turns` is
finite: a lead has finitely many. `RunsFenced` and `SendsCounted` give at most one send
per chunk, and `InOrder` says that nothing before a claimed row is waiting and that the
chunks before it were delivered.

In `CommandExecutionProofs`, `ReconcilerWorks` shows that `assert_execution_consistency`
never raises on what the store itself wrote. It needs `InductiveInv` and one more
invariant, `RowsConsistent`, row by row: the consistency that is asserted, where
revision and time of the last event are asked for only while no foreign event was
applied; that an absent row is blank; and that an active row has failed less often than
it was claimed, without which one more failure could pass the number of claims. The
reconciler's own writes keep it because an active row was last written before its lease
expired, so that the reconciler's time is later than every time of the row.

Every safety property that a passing run checks is a theorem. Model-checked only: the
liveness properties (fairness and `ENABLED` are outside TLAPS here), and the two
properties of the runs that expect a violation. Each inductive invariant was model-checked
on the instances of section 3 before it was proved. The type invariants are proved as the
first conjunct of these invariants; `BoundaryRelayProofs` proves the part of its own that
the argument needs.

## 5. Findings

* `command_wedge`: an event that the reducer ignores is still recorded by
  `apply_event` for a settled workflow and moves its revision and time, which the
  history verifier then reports as corruption, although a valid transaction wrote
  it. Since the reconciler starts with that assertion over all workflows, one such
  workflow stops recovery for all commands. No production path calls `apply_event`
  after authorization today; it is part of the package's API.
* `handoff_wedge`: when an operator cancels an incident after
  `begin_handoff_delivery`, no transaction can close its outbox row any more (the
  reducer does not apply the event to a cancelled workflow), and from the expiry of
  its lease on every `claim_handoff_outbox` raises in `_recover_uncertain_handoffs`
  and rolls back: deliveries of all other incidents stop.

A third fact has the form of an exact invariant, checked (`RefusedOnlyForReview`) and
proved (`HandoffsRefused`, `RefusalsLast`), instead of a violation: **a handoff with a
delivery under review cannot be read any more.** The recovery
(`reservation_followup/sqlite_store.py:2349`) and an unknown result (`:2536`) write the
row status `manual_review`, and `_handoff_outbox_jobs` (`:1737`) accepts pending, leased
and delivered rows only; likewise `complete_handoff_outbox` (`:2676`) accepts the receipt
of a dispatched row without comparing it with the end of the lease, and the loader
(`:1781`) does. From then on, and for ever, `load_handoff`, `apply_handoff` (so the
operator's cancellation too), a replay of `open_handoff` and both `find_active_*` lookups
raise `DataCorruption` on it, although the lookups select workflows in `manual_review`
(`:1924`: "Return the single queue-active handoff for a lead, if one exists."), and with
them `HandoffEffectGuard` and `HandoffCoordinator` (`v2_application/recovery.py`). The
tests of unknown deliveries (`tests/test_v2_service_delivery_reliability.py`,
`tests/test_v2_manychat_handoff_delivery.py`) look at the rows and do not load the handoff
again. Where the policy adds the internal e-mail the queue is wedged too: the e-mail job
of a handoff whose acknowledgement is under review is a candidate that never loads, and an
expired dispatched row beside an open one is put under review by the recovery and then
rolled back, with the claim, by the load of the candidate;
`docs/refactor/decisions/0007-separate-handoff-and-payment-workflows.md:30` says "falha de
e-mail não bloqueia acknowledgement/fila". No production composition switches the
e-mail on. `Wedged` lists these cases and the cancelled one, and `EveryJobSettles` shows
that there are no others: a job settles or the queue is in one of them for ever. The
modules do not share handoffs: `TurnInbox` takes the handoff that `open_exception_once`
finds to be readable, so `EveryEventSettled` assumes that no handoff of the lead became
unreadable; one that did would also stop the projector for the batches behind it.

Observations made while modelling, without a run of their own:

* `OutboxWorker` completes with the time captured before the delivery, so a receipt
  that a transport dates by its own clock is refused unless it has exactly that time;
  `EveryMessageDelivered` states the exception.
* The private dialogue write comes after the boundary commit but inside `execute`;
  its third failure ends the batch under manual review, and the exchange of the
  committed turn is never recorded, against "retry rather than silent continuity
  loss" (`docs/superpowers/specs/2026-08-10-maya-v2-context-stability-design.md:54`).
* `complete_claim` of the inbox compares the claim time with its own lease, so that
  only the claim token ever refuses a late acknowledgement; and without the ownership
  lock `TurnOnlyWhileClaimed` fails (its mutant), so the lock, not the fences, keeps a
  stalled execution from answering a customer who was handed to a human.
* A relay in `manual_review` is read by nobody, although its turn may have arrived
  (failures after the target's commit count too); a completion whose rows reach their
  deadline is cancelled but stays covered, and is not announced again.
* A chunk behind a reviewed one stays pending and mutes the later turns of the lead
  until its deadline; and a run may send after its fence has lapsed and the row is
  under review, the one exception in `OrderKept`.
* A payment that ends `retryable` accepts no further event; an answer "no effect" of
  the Stripe adapter always ends as unknown.
* A payment effect's first claim fixes its dispatch deadline at the end of that lease
  (`_claim_payment_outbox`); after a release every later `claim_payment_outbox` raises
  on that row and on everything behind it. `claim_payment_observation`, which leases
  receipts that are only observed, has no such gate.
* `HandoffEffectGuard` hashes the lead (`v2_application/recovery.py:47`) otherwise than
  customer-requested handoffs do (`conversation.py:1541`), so it does not see those.

## 6. Not modelled, and the plan

Not modelled: network and text adapters, rendering and classification,
serialization, schema DDL, dashboards, release tooling: they hold no protocol
state, or only format it; together they are most of the repository's lines. Of the
stateful parts there remain:

1. Abstract specifications, like `ReservationPromise`, for the settlement of a payment
   and for what a lead is told, with `PaymentSettlement` and `PublicDelivery` shown to
   implement them.
2. The delivery of payment effects (`claim_payment_outbox`, `claim_payment_observation`,
   `PaymentOutboxWorker`) with the deadline above.
3. Checkout sessions and financial webhooks, critical actions, the older completion
   outbox, payment buttons and booking forms.
4. The worker cycle: order of the stages and backoff; canary routing and rollback;
   package split and outcome combination as operators against a reference definition.
