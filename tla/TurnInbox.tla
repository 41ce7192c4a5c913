------------------------------ MODULE TurnInbox ------------------------------
(***************************************************************************)
(* The inbound path of a conversation: SQLiteInbox, InboxTurnWorker, the   *)
(* part of V2TurnExecutor.execute that touches the boundary store, and the *)
(* hand-over of terminal batches to a human (ManualReviewHandoffProjector).*)
(*                                                                         *)
(* One action is one transaction of one store, together with the           *)
(* computation up to it.  The API process accepts events at any time; the  *)
(* worker processes may stall, raise, be interrupted or die between any    *)
(* two transactions.                                                       *)
(*                                                                         *)
(* claim_token is a fresh uuid and fencing_token a counter; both are only  *)
(* compared for equality, and a process has at most one claim and uses     *)
(* only the fence it took last.  So a row records the process that holds   *)
(* its claim, and a lead the process that took its fence last.             *)
(***************************************************************************)
EXTENDS Naturals, Sequences, FiniteSetsExt

CONSTANTS
  Events,         \* inbound event ids
  LeadOf,         \* the lead of each event; numbers, because SQL orders by lead
  Workers,        \* worker processes
  Nobody,         \* claim_token IS NULL, or no fence taken yet
  Exclusive,      \* TRUE: processes contend for SQLiteWorkerOwnershipLease
  Stamps,         \* occurred_at values, which the channel supplies
  QuietWindow,    \* quiet_window
  LeaseTTL,       \* lease_ttl
  RetryDelay,     \* the five seconds of run_once
  FailureBudget,  \* the three failures of release_claim
  MaxAttempts,    \* max_commit_attempts
  MaxFaults,      \* bound: crashes, interrupts and failed acknowledgements
  Horizon         \* bound: the last instant, standing for all later ones

ASSUME LeadAssumption == LeadOf \in [Events -> Nat]
ASSUME NobodyAssumption == Nobody \notin Workers
ASSUME ExclusiveAssumption == Exclusive \in BOOLEAN
ASSUME StampAssumption == \A at \in Stamps : at \in Nat /\ at + QuietWindow <= Horizon
ASSUME DelayAssumption ==
  /\ QuietWindow \in Nat
  /\ {LeaseTTL, RetryDelay, FailureBudget, MaxAttempts, Horizon} \subseteq Nat \ {0}
  /\ MaxFaults \in Nat

Leads == {LeadOf[e] : e \in Events}
NoBatch == {}          \* batch_id IS NULL; a batch is the set of its events
NoHandoff == {}        \* handoff_id IS NULL; a handoff is named by its batch

VARIABLES
  now,
  \* inbound_events; retryAt 0 and expires 0 stand for NULL
  status, occurredAt, batch, holder, expires, retryAt, failures, handoff,
  \* the worker processes: the live ones, and where each is in run_once
  up, pc, job,
  \* boundary store: committed turns and last fence of each lead
  turns, fence,
  dialogue,       \* private_dialogue_turns: batches with a recorded exchange
  \* follow-up store: exception handoffs in opening order, the active ones
  handoffs, active,
  faults

rowVars   == <<status, occurredAt, batch, holder, expires, retryAt, failures, handoff>>
procVars  == <<up, pc, job>>
turnVars  == <<turns, fence, dialogue>>
humanVars == <<handoffs, active>>
vars == <<now, rowVars, procVars, turnVars, humanVars, faults>>

NoJob == [batch |-> NoBatch, instant |-> 0, version |-> 0, attempts |-> 0,
          handoff |-> NoHandoff]

Executing == {"execute", "prepare", "author", "commit", "conflict", "dialogue"}
-----------------------------------------------------------------------------
Init ==
  /\ now = 0
  /\ status = [e \in Events |-> "absent"]
  /\ occurredAt = [e \in Events |-> 0]
  /\ batch = [e \in Events |-> NoBatch]
  /\ holder = [e \in Events |-> Nobody]
  /\ expires = [e \in Events |-> 0]
  /\ retryAt = [e \in Events |-> 0]
  /\ failures = [e \in Events |-> 0]
  /\ handoff = [e \in Events |-> NoHandoff]
  /\ up = {}
  /\ pc = [w \in Workers |-> "idle"]
  /\ job = [w \in Workers |-> NoJob]
  /\ turns = [l \in Leads |-> <<>>]
  /\ fence = [l \in Leads |-> Nobody]
  /\ dialogue = {}
  /\ handoffs = <<>>
  /\ active = [l \in Leads |-> NoHandoff]
  /\ faults = 0

Clamp(t) == IF t < Horizon THEN t ELSE Horizon

Tick ==
  /\ now < Horizon
  /\ now' = now + 1
  /\ UNCHANGED <<rowVars, procVars, turnVars, humanVars, faults>>

(* accept: a new row.  A redelivery, with the same payload or another, is
   answered DUPLICATE or CONFLICT and changes nothing. *)
Accept(e, at) ==
  /\ status[e] = "absent"
  /\ status' = [status EXCEPT ![e] = "pending"]
  /\ occurredAt' = [occurredAt EXCEPT ![e] = at]
  /\ UNCHANGED <<now, batch, holder, expires, retryAt, failures, handoff,
                 procVars, turnVars, humanVars, faults>>
-----------------------------------------------------------------------------
(* Mutant: the process runs without the ownership lock. *)
StartUnlocked(w) ==
  /\ w \notin up
  /\ up' = up \cup {w}
  /\ UNCHANGED <<now, rowVars, pc, job, turnVars, humanVars, faults>>

(* main: flock(LOCK_EX | LOCK_NB), released by the kernel with the process *)
Start(w) ==
  /\ w \notin up
  /\ Exclusive => up = {}
  /\ up' = up \cup {w}
  /\ UNCHANGED <<now, rowVars, pc, job, turnVars, humanVars, faults>>

Goto(w, label) == pc' = [pc EXCEPT ![w] = label]

Finish(w) ==
  /\ Goto(w, "idle")
  /\ job' = [job EXCEPT ![w] = NoJob]

Fault ==
  /\ faults < MaxFaults
  /\ faults' = faults + 1
-----------------------------------------------------------------------------
(* Mutant: claims are never taken from a process. *)
ExpiredNever(e) == FALSE

(* The first statement of claim_ready frees every expired claim. *)
Expired(e) == status[e] = "claimed" /\ expires[e] <= now

Free(e) == status[e] = "pending" \/ Expired(e)

(* GROUP BY lead_id, batch_id, and the SELECT of the members *)
Group(l) ==
  {{e \in Events : LeadOf[e] = l /\ Free(e) /\ batch[e] = b} :
     b \in {batch[e] : e \in Events}} \ {{}}

Frozen(G) == \A e \in G : batch[e] # NoBatch

(* Mutant: a lead's new events do not wait for its unfinished batch. *)
EligibleBypass(G, l) ==
  /\ \A e \in G : retryAt[e] <= now
  /\ Frozen(G) \/ \A e \in G : occurredAt[e] + QuietWindow <= now

Eligible(G, l) ==
  /\ \A e \in Events : LeadOf[e] = l => status[e] # "claimed" \/ Expired(e)
  /\ Frozen(G) \/ \A e \in Events : LeadOf[e] = l /\ Free(e) => batch[e] = NoBatch
  /\ \A e \in G : retryAt[e] <= now
  /\ Frozen(G) \/ \A e \in G : occurredAt[e] + QuietWindow <= now

FirstAt(G) == Min({occurredAt[e] : e \in G})

ReadyAt(G) ==
  LET retry == Max({retryAt[e] : e \in G}) IN IF retry = 0 THEN FirstAt(G) ELSE retry

(* ORDER BY ready_at, first_at, lead_id *)
Precedes(G, l, H, m) ==
  \/ ReadyAt(G) < ReadyAt(H)
  \/ ReadyAt(G) = ReadyAt(H) /\ FirstAt(G) < FirstAt(H)
  \/ ReadyAt(G) = ReadyAt(H) /\ FirstAt(G) = FirstAt(H) /\ l <= m

Candidate(G, l) ==
  /\ Eligible(G, l)
  /\ \A m \in Leads : \A H \in Group(m) : Eligible(H, m) => Precedes(G, l, H, m)

(* claim_ready.  A candidate whose stored batch has other members raises.  An
   expired batch is itself eligible, so that a call that finds no candidate
   frees nothing either. *)
ClaimReady(w) ==
  /\ w \in up
  /\ pc[w] = "idle"
  /\ \E l \in Leads : \E G \in Group(l) :
       /\ Candidate(G, l)
       /\ Frozen(G) => \A e \in G : batch[e] = G
       /\ status' = [e \in Events |-> IF e \in G THEN "claimed"
                                      ELSE IF Expired(e) THEN "pending" ELSE status[e]]
       /\ holder' = [e \in Events |-> IF e \in G THEN w
                                      ELSE IF Expired(e) THEN Nobody ELSE holder[e]]
       /\ expires' = [e \in Events |-> IF e \in G THEN Clamp(now + LeaseTTL)
                                       ELSE IF Expired(e) THEN 0 ELSE expires[e]]
       /\ batch' = [e \in Events |-> IF e \in G THEN G ELSE batch[e]]
       /\ job' = [job EXCEPT ![w] = [NoJob EXCEPT !.batch = G, !.instant = now]]
  /\ Goto(w, "execute")
  /\ UNCHANGED <<now, occurredAt, retryAt, failures, handoff, up, turnVars, humanVars, faults>>

(* The rows of the claim still carry its token. *)
HoldsClaim(w) == \A e \in job[w].batch : status[e] = "claimed" /\ holder[e] = w

Released(e, failed, terminal) ==
  IF terminal \/ (failed /\ failures[e] + 1 >= FailureBudget)
    THEN "manual_review" ELSE "pending"

(* release_claim: on a stale claim it raises and writes nothing. *)
ReleaseClaim(w, failed, terminal) ==
  LET mine == IF HoldsClaim(w) THEN job[w].batch ELSE {}
      Set(f, value) == [e \in Events |-> IF e \in mine THEN value ELSE f[e]]
  IN
  /\ status' = [e \in Events |-> IF e \in mine THEN Released(e, failed, terminal)
                                 ELSE status[e]]
  /\ failures' = [e \in Events |-> IF e \in mine /\ failed THEN failures[e] + 1
                                   ELSE failures[e]]
  /\ holder' = Set(holder, Nobody)
  /\ expires' = Set(expires, 0)
  /\ retryAt' = Set(retryAt, Clamp(job[w].instant + RetryDelay))
  /\ UNCHANGED <<occurredAt, batch, handoff>>
-----------------------------------------------------------------------------
Lead(w) == LeadOf[CHOOSE e \in job[w].batch : TRUE]

Version(l) == Len(turns[l])

CommittedTurn(b) == \E l \in Leads : \E i \in DOMAIN turns[l] : turns[l][i] = b

(* Mutant: a replay returns without repairing the dialogue. *)
LoadReceiptOnly(w) ==
  /\ pc[w] = "execute"
  /\ Goto(w, IF CommittedTurn(job[w].batch) THEN "ack" ELSE "prepare")
  /\ UNCHANGED <<now, rowVars, up, job, turnVars, humanVars, faults>>

(* execute: load_turn_receipt.  The batch id is the hash of its events, so
   that a stored receipt of the batch is a receipt of these events. *)
LoadReceipt(w) ==
  /\ pc[w] = "execute"
  /\ Goto(w, IF CommittedTurn(job[w].batch) THEN "dialogue" ELSE "prepare")
  /\ UNCHANGED <<now, rowVars, up, job, turnVars, humanVars, faults>>

(* _prepare: create_genesis where the lead is new, then acquire_fence *)
AcquireFence(w) ==
  /\ pc[w] = "prepare"
  /\ fence' = [fence EXCEPT ![Lead(w)] = w]
  /\ job' = [job EXCEPT ![w].version = Version(Lead(w))]
  /\ Goto(w, "author")
  /\ UNCHANGED <<now, rowVars, up, turns, dialogue, humanVars, faults>>

(* _prepare: model rounds and reads, then the state is loaded again.  The
   previous receipt is read in between, so that it belongs to this version. *)
Revalidate(w) ==
  /\ pc[w] = "author"
  /\ Goto(w, IF Version(Lead(w)) = job[w].version THEN "commit" ELSE "conflict")
  /\ UNCHANGED <<now, rowVars, up, job, turnVars, humanVars, faults>>

(* Mutant: a stored turn of the same aggregate is not looked up. *)
CommitTurnBlind(w) ==
  /\ pc[w] = "commit"
  /\ Version(Lead(w)) = job[w].version
  /\ fence[Lead(w)] = w
  /\ turns' = [turns EXCEPT ![Lead(w)] = Append(@, job[w].batch)]
  /\ Goto(w, "dialogue")
  /\ UNCHANGED <<now, rowVars, up, job, fence, dialogue, humanVars, faults>>

(* commit_turn_v8.  Two executions of one batch differ in their receipts: one
   that finds the other's turn raises IdentityConflict, which is in Fail. *)
CommitTurn(w) ==
  /\ pc[w] = "commit"
  /\ ~CommittedTurn(job[w].batch)
  /\ Version(Lead(w)) = job[w].version
  /\ fence[Lead(w)] = w
  /\ turns' = [turns EXCEPT ![Lead(w)] = Append(@, job[w].batch)]
  /\ Goto(w, "dialogue")
  /\ UNCHANGED <<now, rowVars, up, job, fence, dialogue, humanVars, faults>>

(* commit_turn_v8 raises ConcurrencyConflict: version or fence is stale, or
   the allocation of a public row was lost to its authority (external). *)
CommitConflict(w) ==
  /\ pc[w] = "commit"
  /\ ~CommittedTurn(job[w].batch)
  /\ Goto(w, "conflict")
  /\ UNCHANGED <<now, rowVars, up, job, turnVars, humanVars, faults>>

(* except ConcurrencyConflict: another execution committed the batch, or this
   one tries again.  The last attempt raises, which is in Fail. *)
AfterConflict(w) ==
  /\ pc[w] = "conflict"
  /\ \/ /\ CommittedTurn(job[w].batch)
        /\ Goto(w, "dialogue")
        /\ UNCHANGED job
     \/ /\ ~CommittedTurn(job[w].batch)
        /\ job[w].attempts + 1 < MaxAttempts
        /\ job' = [job EXCEPT ![w].attempts = @ + 1]
        /\ Goto(w, "prepare")
  /\ UNCHANGED <<now, rowVars, up, turnVars, humanVars, faults>>

(* _record_committed_dialogue: idempotent on the turn *)
RecordDialogue(w) ==
  /\ pc[w] = "dialogue"
  /\ dialogue' = dialogue \cup {job[w].batch}
  /\ Goto(w, "ack")
  /\ UNCHANGED <<now, rowVars, up, job, turns, fence, humanVars, faults>>

(* Mutant: only the primary event of the batch is completed. *)
CompletePrimary(w) ==
  /\ pc[w] = "ack"
  /\ status' = [e \in Events |-> IF HoldsClaim(w) /\ e = Min(job[w].batch)
                                   THEN "processed" ELSE status[e]]
  /\ holder' = [e \in Events |-> IF status'[e] = "processed" THEN Nobody ELSE holder[e]]
  /\ expires' = [e \in Events |-> IF status'[e] = "processed" THEN 0 ELSE expires[e]]
  /\ Finish(w)
  /\ UNCHANGED <<now, occurredAt, batch, retryAt, failures, handoff, up,
                 turnVars, humanVars, faults>>

(* complete_claim.  Its lease check compares two times of one reading of the
   clock and never fires: only the token tells a lost claim.  A stale claim
   raises, and the release after it raises too. *)
CompleteClaim(w) ==
  /\ pc[w] = "ack"
  /\ status' = [e \in Events |-> IF HoldsClaim(w) /\ e \in job[w].batch
                                   THEN "processed" ELSE status[e]]
  /\ holder' = [e \in Events |-> IF status'[e] = "processed" THEN Nobody ELSE holder[e]]
  /\ expires' = [e \in Events |-> IF status'[e] = "processed" THEN 0 ELSE expires[e]]
  /\ Finish(w)
  /\ UNCHANGED <<now, occurredAt, batch, retryAt, failures, handoff, up,
                 turnVars, humanVars, faults>>

(* Any Exception while executing: model, provider, store, identity conflict,
   exhausted attempts, dialogue.  run_once releases with a failure. *)
Fail(w) ==
  /\ pc[w] \in Executing
  /\ ReleaseClaim(w, TRUE, FALSE)
  /\ Finish(w)
  /\ UNCHANGED <<now, up, turnVars, humanVars, faults>>

(* ActionRejectionUnresolved out of _prepare: terminal at once *)
RejectAction(w) ==
  /\ pc[w] = "author"
  /\ ReleaseClaim(w, TRUE, TRUE)
  /\ Finish(w)
  /\ UNCHANGED <<now, up, turnVars, humanVars, faults>>

(* complete_claim fails in its store: released, and not a failure *)
AckFails(w) ==
  /\ pc[w] = "ack"
  /\ Fault
  /\ ReleaseClaim(w, FALSE, FALSE)
  /\ Finish(w)
  /\ UNCHANGED <<now, up, turnVars, humanVars>>

(* KeyboardInterrupt or SystemExit: released, not a failure, process ends *)
Interrupt(w) ==
  /\ pc[w] \in Executing \cup {"ack"}
  /\ Fault
  /\ ReleaseClaim(w, FALSE, FALSE)
  /\ Finish(w)
  /\ up' = up \ {w}
  /\ UNCHANGED <<now, turnVars, humanVars>>

(* The process dies, or the release itself fails in its store. *)
Crash(w) ==
  /\ w \in up
  /\ pc[w] # "idle"
  /\ Fault
  /\ Finish(w)
  /\ up' = up \ {w}
  /\ UNCHANGED <<now, rowVars, turnVars, humanVars>>
-----------------------------------------------------------------------------
PendingHandoff(b) ==
  \E e \in b : batch[e] = b /\ status[e] = "manual_review" /\ handoff[e] = NoHandoff

Opened(b) == \E i \in DOMAIN handoffs : handoffs[i] = b

Active(b) == active[LeadOf[CHOOSE e \in b : TRUE]]

(* The handoff open_exception_once returns *)
Chosen(b) == IF Opened(b) \/ Active(b) = NoHandoff THEN b ELSE Active(b)

(* Mutant: only an active handoff counts, not one an operator has closed. *)
OpenExceptionAgain(w, b) ==
  LET l == LeadOf[CHOOSE e \in b : TRUE] IN
  /\ w \in up
  /\ pc[w] = "idle"
  /\ PendingHandoff(b)
  /\ IF active[l] # NoHandoff
       THEN UNCHANGED humanVars
       ELSE /\ handoffs' = Append(handoffs, b)
            /\ active' = [active EXCEPT ![l] = b]
  /\ job' = [job EXCEPT ![w].batch = b, ![w].handoff = Chosen(b)]
  /\ Goto(w, "link")
  /\ UNCHANGED <<now, rowVars, up, turnVars, faults>>

(* ManualReviewHandoffProjector: open_exception_once for a terminal batch.
   Its handoff is named by the batch; one that is active is shared.  It is
   taken to be readable, which HandoffDelivery shows not always to be so. *)
OpenException(w, b) ==
  LET l == LeadOf[CHOOSE e \in b : TRUE] IN
  /\ w \in up
  /\ pc[w] = "idle"
  /\ PendingHandoff(b)
  /\ IF Opened(b) \/ active[l] # NoHandoff
       THEN UNCHANGED humanVars
       ELSE /\ handoffs' = Append(handoffs, b)
            /\ active' = [active EXCEPT ![l] = b]
  /\ job' = [job EXCEPT ![w].batch = b, ![w].handoff = Chosen(b)]
  /\ Goto(w, "link")
  /\ UNCHANGED <<now, rowVars, up, turnVars, faults>>

(* record_handoff: a divergent link raises and writes nothing. *)
RecordHandoff(w) ==
  LET rows == {e \in Events : batch[e] = job[w].batch}
      ok   == \A e \in rows : /\ status[e] = "manual_review"
                              /\ handoff[e] \in {NoHandoff, job[w].handoff}
  IN
  /\ pc[w] = "link"
  /\ handoff' = [e \in Events |-> IF ok /\ e \in rows THEN job[w].handoff ELSE handoff[e]]
  /\ Finish(w)
  /\ UNCHANGED <<now, status, occurredAt, batch, holder, expires, retryAt, failures,
                 up, turnVars, humanVars, faults>>

(* An operator completes the handoff of a lead (external). *)
CloseHandoff(l) ==
  /\ active[l] # NoHandoff
  /\ active' = [active EXCEPT ![l] = NoHandoff]
  /\ UNCHANGED <<now, rowVars, procVars, turnVars, handoffs, faults>>
-----------------------------------------------------------------------------
(* What the worker process does when nothing stops it *)
WorkerStep(w) ==
  \/ ClaimReady(w)
  \/ LoadReceipt(w)
  \/ AcquireFence(w)
  \/ Revalidate(w)
  \/ CommitTurn(w)
  \/ CommitConflict(w)
  \/ AfterConflict(w)
  \/ RecordDialogue(w)
  \/ CompleteClaim(w)
  \/ Fail(w)
  \/ RejectAction(w)
  \/ \E b \in {batch[e] : e \in Events} : OpenException(w, b)
  \/ RecordHandoff(w)

Next ==
  \/ Tick
  \/ \E e \in Events, at \in Stamps : Accept(e, at)
  \/ \E w \in Workers : Start(w) \/ WorkerStep(w) \/ AckFails(w) \/ Interrupt(w) \/ Crash(w)
  \/ \E l \in Leads : CloseHandoff(l)

Spec == Init /\ [][Next]_vars

(* Time passes, the service manager restarts a dead worker, and the cycle of
   a live one polls its queues for ever. *)
FairSpec ==
  /\ Spec
  /\ WF_vars(Tick)
  /\ WF_vars(\E w \in Workers : Start(w))
  /\ \A w \in Workers : WF_vars(WorkerStep(w))
-----------------------------------------------------------------------------
Batches == SUBSET Events
Job == [batch : Batches, instant : 0..Horizon, version : Nat, attempts : 0..MaxAttempts - 1,
        handoff : Batches]

(* Every column and every process holds a value of its type; no batch fails
   more often than its budget allows. *)
TypeOK ==
  /\ now \in 0..Horizon
  /\ status \in [Events -> {"absent", "pending", "claimed", "processed", "manual_review"}]
  /\ occurredAt \in [Events -> Stamps \cup {0}]
  /\ batch \in [Events -> Batches]
  /\ holder \in [Events -> Workers \cup {Nobody}]
  /\ expires \in [Events -> 0..Horizon]
  /\ retryAt \in [Events -> 0..Horizon]
  /\ failures \in [Events -> 0..FailureBudget]
  /\ handoff \in [Events -> Batches]
  /\ up \subseteq Workers
  /\ pc \in [Workers -> Executing \cup {"idle", "ack", "link"}]
  /\ job \in [Workers -> Job]
  /\ turns \in [Leads -> Seq(Batches)]
  /\ fence \in [Leads -> Workers \cup {Nobody}]
  /\ dialogue \subseteq Batches
  /\ handoffs \in Seq(Batches)
  /\ active \in [Leads -> Batches]
  /\ faults \in 0..MaxFaults

(* The membership of a batch is frozen by its first claim, and its rows move
   together through claims, expiries, releases, completion and hand-over: the
   claim_ready check "persisted inbox batch membership diverged" never fires,
   although claims expire and events of the same lead keep arriving. *)
BatchMovesTogether ==
  \A e \in Events : batch[e] # NoBatch =>
    /\ e \in batch[e]
    /\ status[e] # "absent"
    /\ \A o \in batch[e] :
         /\ LeadOf[o] = LeadOf[e]
         /\ <<batch[o], status[o], holder[o], expires[o], retryAt[o], failures[o], handoff[o]>>
            = <<batch[e], status[e], holder[e], expires[e], retryAt[e], failures[e], handoff[e]>>

Unfinished(e) == status[e] = "claimed" \/ (status[e] = "pending" /\ batch[e] # NoBatch)

(* A lead has one unfinished batch at a time, also while its batch waits for
   a retry or for the lease of a dead process: nothing overtakes it. *)
OneUnfinishedBatch ==
  \A e, o \in Events :
    LeadOf[e] = LeadOf[o] /\ Unfinished(e) /\ Unfinished(o) => batch[e] = batch[o]

(* Every event enters at most one committed turn, whatever is redelivered,
   retried, replayed or executed by two processes at once. *)
EventTurnedOnce ==
  \A l \in Leads : \A i, j \in DOMAIN turns[l] :
    i # j => turns[l][i] \cap turns[l][j] = {}

(* An event is acknowledged only when its batch has a committed turn and the
   exchange is in the private dialogue, also when the turn was replayed. *)
ProcessedHasTurn ==
  \A e \in Events : status[e] = "processed" =>
    CommittedTurn(batch[e]) /\ batch[e] \in dialogue

(* A turn is committed only for a batch that is claimed at that moment: with
   one owner process no stalled execution answers a customer whose batch was
   given to a human or taken over meanwhile. *)
TurnOnlyWhileClaimed ==
  [][\A l \in Leads : turns'[l] # turns[l] =>
       \A e \in turns'[l][Len(turns'[l])] : status[e] = "claimed"]_vars

(* The exception of a batch is opened once, although the process may die
   between admission and link and an operator may close it in between; and a
   row is linked only to a handoff that exists for its lead. *)
HandoffOpenedOnce ==
  /\ \A i, j \in DOMAIN handoffs : handoffs[i] = handoffs[j] => i = j
  /\ \A e \in Events : handoff[e] # NoHandoff =>
       Opened(handoff[e]) /\ \A o \in handoff[e] : LeadOf[o] = LeadOf[e]

(* Every accepted event is acknowledged, or a human has its batch. *)
EveryEventSettled ==
  \A e \in Events :
    (status[e] # "absent") ~> (status[e] = "processed" \/ handoff[e] # NoHandoff)
=============================================================================
