----------------------- MODULE CommandExecutionProofs -----------------------
(***************************************************************************)
(* Proofs about CommandExecution for every set of commands, packages, runs *)
(* and every bound: type correctness, the safety of dispatch, the          *)
(* consistency the reconciler insists on, and that CommandExecution        *)
(* implements ReservationPromise.                                          *)
(***************************************************************************)
EXTENDS CommandExecution, TLAPS

(* The sentinel timestamps and the bounds of the model are numbers. *)
LEMMA Bounds ==
  /\ MaxTime \in Nat /\ LeaseTTL \in Nat /\ LeaseTTL > 0
  /\ Never \in Nat /\ Never > MaxTime + LeaseTTL
  /\ Time = 0..Never
  /\ \A t \in 0..MaxTime : t \in Time /\ t + LeaseTTL \in Time
  /\ 0 \in 0..MaxTime
  /\ NoLease \in Lease /\ NoClaim \in Claim
  /\ 0 \notin Commands
PROOF
  <1>1. MaxTime \in Nat /\ LeaseTTL \in Nat /\ LeaseTTL > 0
    BY BoundsAssumption, TTLAssumption
  <1>2. Never \in Nat /\ Never > MaxTime + LeaseTTL
    BY <1>1 DEF Never
  <1>3. \A t \in 0..MaxTime : t \in Time /\ t + LeaseTTL \in Time
    BY <1>1, <1>2 DEF Time
  <1>4. NoLease \in Lease /\ NoClaim \in Claim
    BY <1>1, <1>2 DEF NoLease, Lease, NoClaim, Claim, Time
  <1> QED BY <1>1, <1>2, <1>3, <1>4, CommandsAssumption DEF Time

LEMMA TypeInit == Init => TypeOK
PROOF
  BY Bounds, BudgetAssumption, BoundsAssumption
  DEF Init, TypeOK, TypeWorkflow, TypeLedger, TypeDispatch, TypeRuns, TypeRest,
      Phases, Active, Settled, RunStates, Certainty

LEMMA TypeTick == TypeOK /\ Tick => TypeOK'
PROOF
  <1> SUFFICES ASSUME TypeOK, Tick PROVE TypeOK'
    OBVIOUS
  <1>1. TypeWorkflow' /\ TypeLedger' /\ TypeDispatch' /\ TypeRuns'
    BY DEF TypeOK, TypeWorkflow, TypeLedger, TypeDispatch, TypeRuns, Tick,
       workflowVars, leaseVars, outcomeVars, runVars
  <1>2. TypeRest'
    BY BoundsAssumption DEF TypeOK, TypeRest, Tick, recVars, providerVars
  <1> QED BY <1>1, <1>2 DEF TypeOK

LEMMA TypeAccept == ASSUME NEW d, TypeOK, AcceptGroup(d) PROVE TypeOK'
PROOF
  <1>1. PICK t \in 0..clock :
       /\ createdAt' = [c \in Commands |-> IF Draft[c] = d THEN t ELSE createdAt[c]]
       /\ updatedAt' = [c \in Commands |-> IF Draft[c] = d THEN t ELSE updatedAt[c]]
       /\ lastEventAt' = [c \in Commands |-> IF Draft[c] = d THEN t ELSE lastEventAt[c]]
    BY DEF AcceptGroup
  <1>2. t \in 0..MaxTime
    BY <1>1, BoundsAssumption DEF TypeOK, TypeRest
  <1>3. TypeWorkflow'
    BY <1>1, <1>2 DEF TypeOK, TypeWorkflow, AcceptGroup, Phases
  <1>4. TypeLedger'
    BY <1>1, <1>2 DEF TypeOK, TypeLedger, AcceptGroup
  <1>5. TypeDispatch' /\ TypeRuns' /\ TypeRest'
    BY DEF TypeOK, TypeDispatch, TypeRuns, TypeRest, AcceptGroup, outcomeVars,
       runVars, recVars, providerVars
  <1> QED BY <1>3, <1>4, <1>5 DEF TypeOK

LEMMA TypeApply ==
  ASSUME NEW c \in Commands, NEW t \in 0..clock, TypeOK, ApplyEvent(c, t)
  PROVE  TypeOK'
PROOF
  <1>1. t \in 0..MaxTime
    BY BoundsAssumption DEF TypeOK, TypeRest
  <1>2. TypeWorkflow'
    BY <1>1 DEF TypeOK, TypeWorkflow, ApplyEvent, Later
  <1>3. TypeLedger' /\ TypeDispatch' /\ TypeRuns'
    BY DEF TypeOK, TypeLedger, TypeDispatch, TypeRuns, ApplyEvent, leaseVars,
       outcomeVars, runVars
  <1>4. TypeRest'
    BY BoundsAssumption DEF TypeOK, TypeRest, ApplyEvent, recVars, providerVars
  <1> QED BY <1>2, <1>3, <1>4 DEF TypeOK

LEMMA TypeBegin == ASSUME NEW r \in Runs, TypeOK, BeginRun(r) PROVE TypeOK'
PROOF
  <1>1. TypeRuns'
    BY DEF TypeOK, TypeRuns, TypeRest, BeginRun, RunStates
  <1>2. TypeWorkflow' /\ TypeLedger' /\ TypeDispatch' /\ TypeRest'
    BY DEF TypeOK, TypeWorkflow, TypeLedger, TypeDispatch, TypeRest, BeginRun,
       StoreUnchanged, workflowVars, leaseVars, outcomeVars, recVars, providerVars
  <1> QED BY <1>1, <1>2 DEF TypeOK

(* Leaving run_once keeps the types of the run, whatever the store does. *)
LEMMA TypeEnd == ASSUME NEW r \in Runs, TypeOK, EndRun(r) PROVE TypeRuns'
PROOF
  BY Bounds DEF TypeOK, TypeRuns, EndRun, RunStates

LEMMA TypeStore ==
  ASSUME TypeOK, StoreUnchanged
  PROVE  TypeWorkflow' /\ TypeLedger' /\ TypeDispatch' /\ TypeRest'
PROOF
  BY DEF TypeOK, TypeWorkflow, TypeLedger, TypeDispatch, TypeRest,
     StoreUnchanged, workflowVars, leaseVars, outcomeVars, recVars, providerVars

LEMMA TypeClaim ==
  ASSUME NEW r \in Runs, NEW c \in Commands, TypeOK, TakeClaim(r, c)
  PROVE  TypeOK'
PROOF
  <1>1. now[r] \in 0..MaxTime /\ now[r] \in Time /\ now[r] + LeaseTTL \in Time
    BY Bounds DEF TypeOK, TypeRuns
  <1>2. TypeWorkflow'
    BY <1>1 DEF TypeOK, TypeWorkflow, TakeClaim, Phases
  <1>3. TypeLedger'
    <2>1. [owner |-> WorkerId[r], acquired |-> now[r],
           expires |-> now[r] + LeaseTTL] \in Lease
      BY <1>1 DEF Lease
    <2> QED BY <1>1, <2>1 DEF TypeOK, TypeLedger, TakeClaim, Active
  <1>4. TypeRuns'
    <2> DEFINE k == claim'[r]
    <2>1. k \in Claim /\ k.command \in Commands /\ claim' = [claim EXCEPT ![r] = k]
      BY <1>1, BudgetAssumption
      DEF TypeOK, TypeWorkflow, TypeLedger, TypeRuns, Claim, TakeClaim
    <2> HIDE DEF k
    <2> QED BY <2>1 DEF TypeOK, TypeRuns, TakeClaim, RunStates
  <1>5. TypeDispatch' /\ TypeRest'
    BY DEF TypeOK, TypeDispatch, TypeRest, TakeClaim, outcomeVars, recVars,
       providerVars
  <1> QED BY <1>2, <1>3, <1>4, <1>5 DEF TypeOK

LEMMA TypePrepare == ASSUME NEW r \in Runs, TypeOK, Prepare(r) PROVE TypeOK'
PROOF
  <1>1. TypeRuns'
    BY DEF TypeOK, TypeRuns, Prepare, RunStates
  <1> QED BY <1>1, TypeStore DEF TypeOK, Prepare

LEMMA TypeRenew ==
  ASSUME NEW r \in Runs, TypeOK, RenewCommandLease(r) PROVE TypeOK'
PROOF
  <1> DEFINE c == claim[r].command
  <1>1. c \in Commands /\ clock \in 0..MaxTime /\ clock + LeaseTTL \in Time
    BY Bounds DEF TypeOK, TypeRuns, TypeRest, RenewCommandLease
  <1>2. TypeLedger'
    BY <1>1 DEF TypeOK, TypeLedger, RenewCommandLease, Lease
  <1>3. TypeRuns'
    BY <1>1 DEF TypeOK, TypeRuns, RenewCommandLease, Claim
  <1>4. TypeWorkflow' /\ TypeDispatch' /\ TypeRest'
    BY DEF TypeOK, TypeWorkflow, TypeDispatch, TypeRest, RenewCommandLease,
       workflowVars, outcomeVars, recVars, providerVars
  <1> QED BY <1>2, <1>3, <1>4 DEF TypeOK

(* The tables written by the transactions that close a command. *)
LEMMA TypeClose ==
  ASSUME NEW c \in Commands, NEW x \in Certainty, NEW t \in 0..MaxTime,
         TypeOK, Close(c, x, t), UNCHANGED <<token, slots, fencedAt, createdAt>>,
         failures' \in [Commands -> 0..MaxPreparationFailures]
  PROVE  TypeWorkflow' /\ TypeLedger' /\ TypeDispatch'
PROOF
  <1>1. OutcomeEvents(x) \in Nat
    BY DEF OutcomeEvents
  <1>2. TerminalPhase(x) \in Phases /\ FinalStatus(x) \in Settled
    BY DEF TerminalPhase, FinalStatus, Certainty, Phases, Settled
  <1>3. TypeWorkflow'
    BY <1>1, <1>2 DEF TypeOK, TypeWorkflow, Close
  <1>4. TypeLedger'
    BY <1>2, Bounds DEF TypeOK, TypeLedger, Close
  <1>5. TypeDispatch'
    BY <1>1 DEF TypeOK, TypeWorkflow, TypeDispatch, Close
  <1> QED BY <1>3, <1>4, <1>5

LEMMA TypeRequeue ==
  ASSUME NEW r \in Runs, TypeOK, RequeuePreparation(r) PROVE TypeOK'
PROOF
  <1>1. claim[r].command \in Commands /\ now[r] \in 0..MaxTime
    BY DEF TypeOK, TypeRuns, RequeuePreparation
  <1>2. TypeLedger'
    <2>1. failures' \in [Commands -> 0..MaxPreparationFailures]
      <3>1. failures[claim[r].command] + 1 \in 0..MaxPreparationFailures
        BY <1>1, BudgetAssumption
        DEF TypeOK, TypeLedger, RequeuePreparation, Retryable
      <3> QED BY <1>1, <3>1 DEF TypeOK, TypeLedger, RequeuePreparation
    <2>2. lease' \in [Commands -> Lease]
      BY <1>1, Bounds DEF TypeOK, TypeLedger, RequeuePreparation
    <2>3. status' \in [Commands -> {"absent", "queued"} \cup Active \cup Settled]
      BY <1>1 DEF TypeOK, TypeLedger, RequeuePreparation
    <2>4. updatedAt' \in [Commands -> 0..MaxTime]
      BY <1>1 DEF TypeOK, TypeLedger, RequeuePreparation
    <2>5. token' = token /\ createdAt' = createdAt
      BY DEF RequeuePreparation
    <2> QED BY <2>1, <2>2, <2>3, <2>4, <2>5 DEF TypeOK, TypeLedger
  <1>3. TypeRuns'
    BY TypeEnd DEF RequeuePreparation
  <1>4. TypeWorkflow' /\ TypeDispatch' /\ TypeRest'
    BY DEF TypeOK, TypeWorkflow, TypeDispatch, TypeRest, RequeuePreparation,
       workflowVars, outcomeVars, recVars, providerVars
  <1> QED BY <1>2, <1>3, <1>4 DEF TypeOK

LEMMA TypeAbandon ==
  ASSUME NEW r \in Runs, TypeOK, AbandonPreparation(r),
         failures[claim[r].command] < MaxPreparationFailures
  PROVE  TypeOK'
PROOF
  <1>1. claim[r].command \in Commands /\ now[r] \in 0..MaxTime
    BY DEF TypeOK, TypeRuns, AbandonPreparation
  <1>2. failures' \in [Commands -> 0..MaxPreparationFailures]
    BY <1>1, BudgetAssumption DEF TypeOK, TypeLedger, AbandonPreparation
  <1>3. TypeWorkflow' /\ TypeLedger' /\ TypeDispatch'
    <2>1. "not_called" \in Certainty
      BY DEF Certainty
    <2> QED BY <1>1, <1>2, <2>1, TypeClose DEF AbandonPreparation
  <1>4. TypeRuns'
    BY TypeEnd DEF AbandonPreparation
  <1>5. TypeRest'
    BY DEF TypeOK, TypeRest, AbandonPreparation, recVars, providerVars
  <1> QED BY <1>3, <1>4, <1>5 DEF TypeOK

LEMMA TypeFence == ASSUME NEW r \in Runs, TypeOK, FenceDispatch(r) PROVE TypeOK'
PROOF
  <1>1. claim[r].command \in Commands /\ now[r] \in 0..MaxTime /\ now[r] \in Time
    BY Bounds DEF TypeOK, TypeRuns, FenceDispatch
  <1>2. TypeLedger'
    BY <1>1 DEF TypeOK, TypeLedger, FenceDispatch, Active
  <1>3. TypeDispatch'
    BY <1>1 DEF TypeOK, TypeDispatch, FenceDispatch, outcomeVars
  <1>4. TypeRuns'
    BY DEF TypeOK, TypeRuns, FenceDispatch, RunStates
  <1>5. TypeWorkflow' /\ TypeRest'
    BY DEF TypeOK, TypeWorkflow, TypeRest, FenceDispatch, workflowVars, recVars,
       providerVars
  <1> QED BY <1>2, <1>3, <1>4, <1>5 DEF TypeOK

(* What one dispatch may do to the provider's counters and to the answer. *)
LEMMA DispatchCases ==
  ASSUME NEW r \in Runs, TypeOK, Dispatch(r)
  PROVE  LET c == claim[r].command IN
         /\ c \in Commands
         /\ answer' = [answer EXCEPT ![r] = answer'[r]]
         /\ answer'[r] \in Certainty \ {"not_called"}
         /\ \/ /\ calls' = [calls EXCEPT ![c] = @ + 1]
               /\ effects' = [effects EXCEPT ![c] = @ + 1]
               /\ answer'[r] # "called_no_effect"
            \/ /\ calls' = [calls EXCEPT ![c] = @ + 1]
               /\ effects' = effects
               /\ answer'[r] # "effect_confirmed"
            \/ /\ calls' = calls /\ effects' = effects
               /\ answer'[r] = "called_unknown"
PROOF
  <1> DEFINE c == claim[r].command
  <1>1. c \in Commands
    BY DEF TypeOK, TypeRuns, Dispatch
  <1>2. CASE \E made \in BOOLEAN : \E a \in ProviderAnswers(made) :
          /\ calls' = [calls EXCEPT ![c] = @ + 1]
          /\ effects' = [effects EXCEPT ![c] = IF made THEN @ + 1 ELSE @]
          /\ answer' = [answer EXCEPT ![r] = WorkerOutcome(a)]
    <2>0. PICK made \in BOOLEAN : \E a \in ProviderAnswers(made) :
          /\ calls' = [calls EXCEPT ![c] = @ + 1]
          /\ effects' = [effects EXCEPT ![c] = IF made THEN @ + 1 ELSE @]
          /\ answer' = [answer EXCEPT ![r] = WorkerOutcome(a)]
      BY <1>2
    <2>1. PICK a \in ProviderAnswers(made) :
          /\ calls' = [calls EXCEPT ![c] = @ + 1]
          /\ effects' = [effects EXCEPT ![c] = IF made THEN @ + 1 ELSE @]
          /\ answer' = [answer EXCEPT ![r] = WorkerOutcome(a)]
      BY <2>0
    <2>2. answer'[r] = WorkerOutcome(a)
      BY <2>1 DEF TypeOK, TypeRuns
    <2>3. CASE made
      <3>1. a \in {"called_unknown", "exception", "effect_confirmed"}
        BY <2>1, <2>3 DEF ProviderAnswers
      <3>2. WorkerOutcome(a) \in {"called_unknown", "effect_confirmed"}
        BY <3>1 DEF WorkerOutcome
      <3> QED BY <1>1, <2>1, <2>2, <2>3, <3>2 DEF Certainty
    <2>4. CASE ~made
      <3>1. a \in {"called_unknown", "exception", "called_no_effect"}
        BY <2>1, <2>4 DEF ProviderAnswers
      <3>2. WorkerOutcome(a) \in {"called_unknown", "called_no_effect"}
        BY <3>1 DEF WorkerOutcome
      <3>3. effects' = effects
        BY <1>1, <2>1, <2>4 DEF TypeOK, TypeRest
      <3> QED BY <1>1, <2>1, <2>2, <3>2, <3>3 DEF Certainty
    <2> QED BY <2>3, <2>4
  <1>3. CASE /\ answer' = [answer EXCEPT ![r] = WorkerOutcome("not_called")]
             /\ UNCHANGED providerVars
    BY <1>1, <1>3 DEF WorkerOutcome, Certainty, providerVars, TypeOK, TypeRuns
  <1> QED BY <1>2, <1>3 DEF Dispatch

LEMMA TypeDispatchStep ==
  ASSUME NEW r \in Runs, TypeOK, Dispatch(r) PROVE TypeOK'
PROOF
  <1> DEFINE c == claim[r].command
  <1>1. TypeRuns'
    BY DispatchCases DEF TypeOK, TypeRuns, Dispatch, RunStates
  <1>2. TypeRest'
    <2>1. calls' \in [Commands -> Nat] /\ effects' \in [Commands -> Nat]
      BY DispatchCases DEF TypeOK, TypeRest
    <2> QED BY <2>1 DEF TypeOK, TypeRest, Dispatch, recVars
  <1>3. TypeWorkflow' /\ TypeLedger' /\ TypeDispatch'
    BY DEF TypeOK, TypeWorkflow, TypeLedger, TypeDispatch, Dispatch,
       workflowVars, leaseVars, outcomeVars
  <1> QED BY <1>1, <1>2, <1>3 DEF TypeOK

LEMMA TypeRecord ==
  ASSUME NEW r \in Runs, TypeOK, RecordOutcome(r), answer[r] \in Certainty
  PROVE  TypeOK'
PROOF
  <1>1. claim[r].command \in Commands /\ now[r] \in 0..MaxTime
    BY DEF TypeOK, TypeRuns, RecordOutcome
  <1>2. TypeWorkflow' /\ TypeLedger' /\ TypeDispatch'
    BY <1>1, TypeClose DEF RecordOutcome, TypeOK, TypeLedger
  <1>3. TypeRuns'
    BY TypeEnd DEF RecordOutcome
  <1>4. TypeRest'
    BY DEF TypeOK, TypeRest, RecordOutcome, recVars, providerVars
  <1> QED BY <1>2, <1>3, <1>4 DEF TypeOK

LEMMA TypeReconcilerBegin ==
  ASSUME TypeOK, ReconcilerBegin \/ ReconcilerAborts PROVE TypeOK'
PROOF
  <1>1. TypeWorkflow' /\ TypeLedger' /\ TypeDispatch' /\ TypeRuns'
    BY DEF TypeOK, TypeWorkflow, TypeLedger, TypeDispatch, TypeRuns,
       ReconcilerBegin, ReconcilerAborts, workflowVars, leaseVars, outcomeVars,
       runVars
  <1>2. TypeRest'
    BY Bounds DEF TypeOK, TypeRest, ReconcilerBegin, ReconcilerAborts, providerVars
  <1> QED BY <1>1, <1>2 DEF TypeOK

LEMMA TypeRelease == ASSUME TypeOK, ReleaseExpiredPreDispatch PROVE TypeOK'
PROOF
  <1>1. recNow \in 0..MaxTime
    BY DEF TypeOK, TypeRest
  <1>2. TypeLedger'
    BY <1>1, Bounds DEF TypeOK, TypeLedger, ReleaseExpiredPreDispatch
  <1>3. TypeWorkflow' /\ TypeDispatch' /\ TypeRuns' /\ TypeRest'
    BY DEF TypeOK, TypeWorkflow, TypeDispatch, TypeRuns, TypeRest,
       ReleaseExpiredPreDispatch, workflowVars, outcomeVars, runVars, providerVars
  <1> QED BY <1>2, <1>3 DEF TypeOK

LEMMA TypeMark == ASSUME TypeOK, MarkExpiredFencedUnknown PROVE TypeOK'
PROOF
  <1>1. recNow \in 0..MaxTime
    BY DEF TypeOK, TypeRest
  <1>2. OutcomeEvents("called_unknown") \in Nat
    BY DEF OutcomeEvents
  <1>3. TypeWorkflow'
    BY <1>1, <1>2 DEF TypeOK, TypeWorkflow, MarkExpiredFencedUnknown, Phases
  <1>4. TypeLedger'
    <2>1. status' \in [Commands -> {"absent", "queued"} \cup Active \cup Settled]
      BY DEF TypeOK, TypeLedger, MarkExpiredFencedUnknown, Settled
    <2>2. lease' \in [Commands -> Lease]
      BY Bounds DEF TypeOK, TypeLedger, MarkExpiredFencedUnknown
    <2> QED BY <1>1, <2>1, <2>2 DEF TypeOK, TypeLedger, MarkExpiredFencedUnknown
  <1>5. TypeDispatch'
    <2>1. closedAt' \in [Commands -> Nat]
      BY <1>2 DEF TypeOK, TypeWorkflow, TypeDispatch, MarkExpiredFencedUnknown
    <2>2. outcome' \in [Commands -> Certainty \cup {"none"}]
      BY DEF TypeOK, TypeDispatch, MarkExpiredFencedUnknown, Certainty
    <2>3. messages' \subseteq [command : Commands, certainty : Certainty,
                              createdAt : 0..MaxTime]
      BY <1>1 DEF TypeOK, TypeDispatch, MarkExpiredFencedUnknown, FencesExpired,
         Certainty
    <2> QED BY <2>1, <2>2, <2>3 DEF TypeOK, TypeDispatch, MarkExpiredFencedUnknown
  <1>6. TypeRuns' /\ TypeRest'
    BY Bounds DEF TypeOK, TypeRuns, TypeRest, MarkExpiredFencedUnknown, runVars,
       providerVars
  <1> QED BY <1>3, <1>4, <1>5, <1>6 DEF TypeOK
-----------------------------------------------------------------------------
(* The part of the inductive invariant beyond the types. *)
Guarded ==
  /\ SlotOwner
  /\ AnswerTruthful
  /\ RowShape
  /\ PackageExclusive
  /\ ClaimCurrent
  /\ AtMostOneCall
  /\ OutcomeTruthful
  /\ PackageStop
  /\ BudgetSpentIsClosed

LEMMA InvSplit == InductiveInv <=> TypeOK /\ Guarded
PROOF
  BY DEF InductiveInv, Guarded

(* Everything Guarded speaks about. *)
guardedVars == <<status, slots, outcome, token, failures, pc, claim, answer,
                 calls, effects>>

LEMMA GuardedFrame == Guarded /\ UNCHANGED guardedVars => Guarded'
PROOF
  BY DEF Guarded, guardedVars, SlotOwner, AnswerTruthful, RowShape,
     PackageExclusive, ClaimCurrent, AtMostOneCall, OutcomeTruthful,
     PackageStop, BudgetSpentIsClosed, Siblings

LEMMA GuardedInit == Init => Guarded
PROOF
  <1> SUFFICES ASSUME Init PROVE Guarded
    OBVIOUS
  <1>1. SlotOwner /\ AnswerTruthful /\ ClaimCurrent
    BY DEF Init, SlotOwner, AnswerTruthful, ClaimCurrent, InCall
  <1>2. RowShape /\ PackageExclusive /\ PackageStop
    BY DEF Init, RowShape, PackageExclusive, PackageStop, Siblings, Active, Settled
  <1>3. AtMostOneCall /\ OutcomeTruthful /\ BudgetSpentIsClosed
    BY BudgetAssumption
    DEF Init, AtMostOneCall, OutcomeTruthful, BudgetSpentIsClosed
  <1> QED BY <1>1, <1>2, <1>3 DEF Guarded

LEMMA GuardedAccept ==
  ASSUME NEW d, TypeOK, Guarded, AcceptGroup(d) PROVE Guarded'
PROOF
  <1> DEFINE group == {c \in Commands : Draft[c] = d}
  <1>1. /\ \A c \in group : status[c] = "absent"
        /\ status' = [c \in Commands |-> IF c \in group THEN "queued" ELSE status[c]]
        /\ UNCHANGED <<slots, outcome, token, failures, pc, claim, answer, calls,
                       effects>>
    BY DEF AcceptGroup, outcomeVars, runVars, providerVars
  <1>2. \A r \in Runs : pc[r] \notin {"idle", "begun"} => claim[r].command \in Commands
    BY DEF TypeOK, TypeRuns
  <1> HIDE DEF group
  <1>3. SlotOwner' /\ AnswerTruthful'
    BY <1>1, <1>2 DEF Guarded, SlotOwner, AnswerTruthful, InCall
  <1>4. RowShape' /\ PackageExclusive' /\ PackageStop'
    BY <1>1 DEF Guarded, RowShape, PackageExclusive, PackageStop, Siblings,
       Active, Settled
  <1>5. ClaimCurrent'
    BY <1>1, <1>2 DEF Guarded, ClaimCurrent, Siblings
  <1>6. AtMostOneCall' /\ OutcomeTruthful' /\ BudgetSpentIsClosed'
    BY <1>1 DEF Guarded, AtMostOneCall, OutcomeTruthful, BudgetSpentIsClosed
  <1> QED BY <1>3, <1>4, <1>5, <1>6 DEF Guarded

(* A run that ends, or moves on before its fence, disturbs nothing but the
   facts about itself. *)
LEMMA GuardedRunOnly ==
  ASSUME NEW r \in Runs, NEW next \in RunStates \ InCall, TypeOK, Guarded,
         pc' = [pc EXCEPT ![r] = next],
         UNCHANGED <<status, slots, outcome, token, failures, calls, effects>>,
         \/ claim' = [claim EXCEPT ![r] = NoClaim] /\ next \in {"idle", "begun"}
         \/ claim' = claim /\ (next \in {"idle", "begun"} \/
                              /\ pc[r] \notin {"idle", "begun"}
                              /\ next = "prepared" =>
                                   \A o \in Siblings(claim[r].command) :
                                      status[o] # "manual_review"),
         \A q \in Runs \ {r} : answer'[q] = answer[q]
  PROVE  Guarded'
PROOF
  <1>1. /\ pc \in [Runs -> RunStates] /\ claim \in [Runs -> Claim]
        /\ pc'[r] = next
        /\ \A q \in Runs \ {r} : pc'[q] = pc[q] /\ claim'[q] = claim[q]
    BY DEF TypeOK, TypeRuns
  <1>2. SlotOwner'
    BY <1>1 DEF Guarded, SlotOwner, InCall
  <1>3. AnswerTruthful'
    BY <1>1 DEF Guarded, AnswerTruthful, InCall
  <1>4. ClaimCurrent'
    BY <1>1 DEF Guarded, ClaimCurrent, Siblings
  <1>5. OutcomeTruthful'
    BY <1>1 DEF Guarded, OutcomeTruthful, InCall
  <1>6. RowShape' /\ PackageExclusive' /\ PackageStop' /\ AtMostOneCall'
        /\ BudgetSpentIsClosed'
    BY DEF Guarded, RowShape, PackageExclusive, PackageStop, AtMostOneCall,
       BudgetSpentIsClosed, Siblings
  <1> QED BY <1>2, <1>3, <1>4, <1>5, <1>6 DEF Guarded

(* Claiming takes the package for one command: the query's NOT EXISTS is what
   keeps siblings apart, and the larger token retires older claims. *)
LEMMA GuardedClaim ==
  ASSUME NEW r \in Runs, NEW c \in Commands, TypeOK, Guarded,
         pc[r] = "begun", Claimable(c, now[r]), TakeClaim(r, c)
  PROVE  Guarded'
PROOF
  <1>1. /\ status' = [status EXCEPT ![c] = "preparing"]
        /\ token' = [token EXCEPT ![c] = @ + 1]
        /\ pc' = [pc EXCEPT ![r] = "claimed"]
        /\ claim'[r].command = c /\ claim'[r].token = token[c] + 1
        /\ \A q \in Runs \ {r} : claim'[q] = claim[q] /\ pc'[q] = pc[q]
        /\ UNCHANGED <<slots, outcome, failures, answer, calls, effects>>
    BY DEF TypeOK, TypeRuns, TakeClaim, outcomeVars, providerVars
  <1>2. /\ status[c] \in {"queued", "preparing"} /\ slots[c] = 0
        /\ \A o \in Siblings(c) : status[o] \notin Active
    BY DEF Claimable
  <1>3. /\ status \in [Commands -> {"absent", "queued"} \cup Active \cup Settled]
        /\ token \in [Commands -> Nat] /\ pc \in [Runs -> RunStates]
        /\ pc'[r] = "claimed"
        /\ \A q \in Runs : pc[q] \notin {"idle", "begun"} => claim[q].command \in Commands
        /\ \A q \in Runs : claim[q].token \in Nat
    BY <1>1 DEF TypeOK, TypeLedger, TypeRuns, Claim
  <1>4. SlotOwner'
    BY <1>1, <1>2, <1>3 DEF Guarded, SlotOwner, InCall
  <1>5. AnswerTruthful'
    BY <1>1, <1>2, <1>3 DEF Guarded, AnswerTruthful
  <1>6. RowShape'
    BY <1>1, <1>2, <1>3 DEF Guarded, RowShape, Settled
  <1>7. PackageExclusive' /\ PackageStop'
    BY <1>1, <1>2, <1>3 DEF Guarded, PackageExclusive, PackageStop, Siblings, Active
  <1>8. ClaimCurrent'
    BY <1>1, <1>2, <1>3 DEF Guarded, ClaimCurrent, Siblings
  <1>9. AtMostOneCall' /\ BudgetSpentIsClosed'
    BY <1>1 DEF Guarded, AtMostOneCall, BudgetSpentIsClosed
  <1>10. OutcomeTruthful'
    BY <1>1, <1>2, <1>3 DEF Guarded, OutcomeTruthful, RowShape, Settled
  <1> QED BY <1>4, <1>5, <1>6, <1>7, <1>8, <1>9, <1>10 DEF Guarded

LEMMA GuardedRenew ==
  ASSUME NEW r \in Runs, TypeOK, Guarded, RenewCommandLease(r) PROVE Guarded'
PROOF
  <1>1. /\ UNCHANGED <<status, slots, outcome, token, failures, pc, answer,
                       calls, effects>>
        /\ \A q \in Runs : claim'[q].command = claim[q].command
                          /\ claim'[q].token = claim[q].token
    BY DEF TypeOK, TypeRuns, Claim, RenewCommandLease, outcomeVars, providerVars
  <1> QED
    BY <1>1 DEF Guarded, SlotOwner, AnswerTruthful, RowShape, PackageExclusive,
       ClaimCurrent, AtMostOneCall, OutcomeTruthful, PackageStop,
       BudgetSpentIsClosed, Siblings

(* The facts about the ending run that the closing transactions share. *)
LEMMA EndFacts ==
  ASSUME NEW r \in Runs, TypeOK, EndRun(r)
  PROVE  /\ pc'[r] = "idle"
         /\ \A q \in Runs \ {r} : /\ pc'[q] = pc[q] /\ claim'[q] = claim[q]
                                  /\ answer'[q] = answer[q]
         /\ claim'[r].command = 0
PROOF
  BY DEF TypeOK, TypeRuns, EndRun, NoClaim

(* A live claim holds a row that was never fenced, so its budget is open. *)
LEMMA LiveBudget ==
  ASSUME NEW r \in Runs, TypeOK, Guarded, LiveClaim(r, now[r]),
         claim[r].command \in Commands
  PROVE  /\ failures[claim[r].command] < MaxPreparationFailures
         /\ outcome[claim[r].command] = "none"
         /\ calls[claim[r].command] = 0
PROOF
  <1> DEFINE c == claim[r].command
  <1>1. status[c] = "preparing" /\ slots[c] = 0
    BY DEF LiveClaim
  <1>2. outcome[c] = "none"
    BY <1>1 DEF Guarded, RowShape, Settled
  <1>3. failures[c] \in 0..MaxPreparationFailures /\ failures[c] # MaxPreparationFailures
    BY <1>2 DEF Guarded, BudgetSpentIsClosed, TypeOK, TypeLedger
  <1>4. calls[c] \in Nat /\ calls[c] <= 0
    BY <1>1 DEF Guarded, AtMostOneCall, TypeOK, TypeRest
  <1> QED BY <1>2, <1>3, <1>4, BudgetAssumption

LEMMA GuardedRequeue ==
  ASSUME NEW r \in Runs, TypeOK, Guarded, RequeuePreparation(r) PROVE Guarded'
PROOF
  <1> DEFINE c == claim[r].command
  <1>1. c \in Commands /\ status[c] = "preparing" /\ slots[c] = 0
    BY DEF TypeOK, TypeRuns, RequeuePreparation, LiveClaim
  <1>2. /\ status' = [status EXCEPT ![c] = "queued"]
        /\ failures' = [failures EXCEPT ![c] = @ + 1]
        /\ UNCHANGED <<slots, outcome, token, calls, effects>>
        /\ EndRun(r)
    BY DEF RequeuePreparation, outcomeVars, providerVars
  <1>3. /\ status \in [Commands -> {"absent", "queued"} \cup Active \cup Settled]
        /\ failures \in [Commands -> 0..MaxPreparationFailures]
        /\ failures[c] + 1 < MaxPreparationFailures
        /\ \A q \in Runs : pc[q] \notin {"idle", "begun"} => claim[q].command \in Commands
    BY DEF TypeOK, TypeLedger, TypeRuns, RequeuePreparation, Retryable
  <1> HIDE DEF c
  <1>4. SlotOwner'
    BY <1>1, <1>2, <1>3, EndFacts DEF Guarded, SlotOwner, InCall
  <1>5. AnswerTruthful'
    BY <1>2, EndFacts DEF Guarded, AnswerTruthful
  <1>6. RowShape' /\ PackageExclusive' /\ PackageStop'
    BY <1>1, <1>2, <1>3 DEF Guarded, RowShape, PackageExclusive, PackageStop,
       Siblings, Active, Settled
  <1>7. ClaimCurrent'
    BY <1>1, <1>2, <1>3, EndFacts DEF Guarded, ClaimCurrent, Siblings
  <1>8. AtMostOneCall' /\ OutcomeTruthful'
    BY <1>2, EndFacts, CommandsAssumption DEF Guarded, AtMostOneCall, OutcomeTruthful
  <1>9. BudgetSpentIsClosed'
    BY <1>1, <1>2, <1>3, BudgetAssumption DEF Guarded, BudgetSpentIsClosed
  <1> QED BY <1>4, <1>5, <1>6, <1>7, <1>8, <1>9 DEF Guarded

LEMMA GuardedAbandon ==
  ASSUME NEW r \in Runs, TypeOK, Guarded, AbandonPreparation(r) PROVE Guarded'
PROOF
  <1> DEFINE c == claim[r].command
  <1>1. c \in Commands /\ status[c] = "preparing" /\ slots[c] = 0
    BY DEF TypeOK, TypeRuns, AbandonPreparation, LiveClaim
  <1>2. calls[c] = 0
    BY <1>1, LiveBudget DEF AbandonPreparation
  <1>3. /\ status' = [status EXCEPT ![c] = "outcome_recorded"]
        /\ outcome' = [outcome EXCEPT ![c] = "not_called"]
        /\ failures' = [failures EXCEPT ![c] = @ + 1]
        /\ UNCHANGED <<slots, token, calls, effects>>
        /\ EndRun(r)
    BY DEF AbandonPreparation, Close, FinalStatus, providerVars
  <1>4. /\ status \in [Commands -> {"absent", "queued"} \cup Active \cup Settled]
        /\ outcome \in [Commands -> Certainty \cup {"none"}]
        /\ failures \in [Commands -> 0..MaxPreparationFailures]
        /\ \A q \in Runs : pc[q] \notin {"idle", "begun"} => claim[q].command \in Commands
    BY DEF TypeOK, TypeLedger, TypeDispatch, TypeRuns
  <1> HIDE DEF c
  <1>5. SlotOwner'
    BY <1>1, <1>3, <1>4, EndFacts DEF Guarded, SlotOwner, InCall
  <1>6. AnswerTruthful'
    BY <1>3, EndFacts DEF Guarded, AnswerTruthful
  <1>7. RowShape' /\ PackageExclusive' /\ PackageStop'
    BY <1>1, <1>3, <1>4 DEF Guarded, RowShape, PackageExclusive, PackageStop,
       Siblings, Active, Settled
  <1>8. ClaimCurrent'
    BY <1>1, <1>3, <1>4, EndFacts DEF Guarded, ClaimCurrent, Siblings
  <1>9. AtMostOneCall'
    BY <1>3 DEF Guarded, AtMostOneCall
  <1>10. OutcomeTruthful'
    BY <1>1, <1>2, <1>3, <1>4, EndFacts DEF Guarded, OutcomeTruthful, SlotOwner, InCall
  <1>11. BudgetSpentIsClosed'
    BY <1>1, <1>3, <1>4 DEF Guarded, BudgetSpentIsClosed
  <1> QED BY <1>5, <1>6, <1>7, <1>8, <1>9, <1>10, <1>11 DEF Guarded

(* The fence: the slot of a row nobody holds in a call, in a package that has
   no other active command and none under review. *)
LEMMA GuardedFence ==
  ASSUME NEW r \in Runs, TypeOK, Guarded, FenceDispatch(r) PROVE Guarded'
PROOF
  <1> DEFINE c == claim[r].command
  <1>1. /\ c \in Commands /\ status[c] = "preparing" /\ slots[c] = 0
        /\ token[c] = claim[r].token /\ pc[r] = "prepared"
    BY DEF TypeOK, TypeRuns, FenceDispatch, LiveClaim
  <1>2. calls[c] = 0 /\ outcome[c] = "none"
    BY <1>1, LiveBudget DEF FenceDispatch
  <1>3. \A o \in Siblings(c) : status[o] # "manual_review" /\ status[o] \notin Active
    BY <1>1 DEF Guarded, ClaimCurrent, PackageExclusive, Active
  <1>4. /\ status' = [status EXCEPT ![c] = "dispatch_fenced"]
        /\ slots' = [slots EXCEPT ![c] = 1]
        /\ pc' = [pc EXCEPT ![r] = "fenced"]
        /\ UNCHANGED <<outcome, token, failures, claim, answer, calls, effects>>
    BY DEF FenceDispatch, outcomeVars, providerVars
  <1>5. /\ status \in [Commands -> {"absent", "queued"} \cup Active \cup Settled]
        /\ slots \in [Commands -> 0..1] /\ pc \in [Runs -> RunStates]
        /\ \A q \in Runs : pc[q] \notin {"idle", "begun"} => claim[q].command \in Commands
        /\ \A q \in Runs \ {r} : pc'[q] = pc[q]
        /\ pc'[r] = "fenced"
    BY <1>4 DEF TypeOK, TypeLedger, TypeDispatch, TypeRuns
  <1>6. claim[r].command = c
    OBVIOUS
  <1> HIDE DEF c
  <1>7. SlotOwner'
    BY <1>1, <1>2, <1>4, <1>5, <1>6 DEF Guarded, SlotOwner, InCall
  <1>8. AnswerTruthful'
    BY <1>4, <1>5 DEF Guarded, AnswerTruthful
  <1>9. RowShape'
    BY <1>1, <1>2, <1>4, <1>5 DEF Guarded, RowShape, Settled
  <1>10. PackageExclusive' /\ PackageStop'
    BY <1>1, <1>3, <1>4, <1>5 DEF Guarded, PackageExclusive, PackageStop,
       Siblings, Active
  <1>11. ClaimCurrent'
    BY <1>1, <1>4, <1>5, <1>6 DEF Guarded, ClaimCurrent, Siblings
  <1>12. AtMostOneCall'
    BY <1>1, <1>2, <1>4, <1>5 DEF Guarded, AtMostOneCall
  <1>13. OutcomeTruthful'
    BY <1>1, <1>2, <1>4, <1>5, <1>6 DEF Guarded, OutcomeTruthful
  <1>14. BudgetSpentIsClosed'
    BY <1>4 DEF Guarded, BudgetSpentIsClosed
  <1> QED BY <1>7, <1>8, <1>9, <1>10, <1>11, <1>12, <1>13, <1>14 DEF Guarded

(* The call: the only step that moves the provider's counters. *)
LEMMA GuardedDispatch ==
  ASSUME NEW r \in Runs, TypeOK, Guarded, Dispatch(r) PROVE Guarded'
PROOF
  <1> DEFINE c == claim[r].command
  <1>1. c \in Commands /\ pc[r] = "fenced" /\ pc' = [pc EXCEPT ![r] = "called"]
        /\ UNCHANGED <<status, slots, outcome, token, failures, claim>>
    BY DEF TypeOK, TypeRuns, Dispatch, leaseVars, outcomeVars
  <1>2. slots[c] = 1 /\ calls[c] = 0 /\ effects[c] = 0
        /\ status[c] \in {"dispatch_fenced", "manual_review"}
    BY <1>1 DEF Guarded, SlotOwner, InCall, AtMostOneCall, TypeOK, TypeRest
  <1>3. outcome[c] \in {"none", "called_unknown"}
    BY <1>1, <1>2 DEF Guarded, RowShape, Settled
  <1>4. /\ answer'[r] \in Certainty \ {"not_called"}
        /\ answer'[r] = "effect_confirmed" => effects'[c] = 1
        /\ answer'[r] = "called_no_effect" => calls'[c] = 1 /\ effects'[c] = 0
        /\ calls'[c] \in {0, 1} /\ effects'[c] \in {0, 1} /\ effects'[c] <= calls'[c]
        /\ \A o \in Commands \ {c} : calls'[o] = calls[o] /\ effects'[o] = effects[o]
        /\ \A q \in Runs \ {r} : answer'[q] = answer[q]
    BY <1>1, <1>2, DispatchCases DEF TypeOK, TypeRest, TypeRuns
  <1>5. /\ pc \in [Runs -> RunStates]
        /\ \A q \in Runs : pc[q] \notin {"idle", "begun"} => claim[q].command \in Commands
        /\ \A q \in Runs \ {r} : pc'[q] = pc[q]
        /\ pc'[r] = "called"
    BY <1>1 DEF TypeOK, TypeRuns
  <1>6. claim[r].command = c
    OBVIOUS
  <1> HIDE DEF c
  <1>7. SlotOwner'
    BY <1>1, <1>2, <1>4, <1>5, <1>6 DEF Guarded, SlotOwner, InCall
  <1>8. AnswerTruthful'
    <2> SUFFICES ASSUME NEW q \in Runs, pc'[q] = "called"
        PROVE /\ answer'[q] \in Certainty \ {"not_called"}
              /\ answer'[q] = "effect_confirmed" => effects'[claim[q].command] = 1
              /\ answer'[q] = "called_no_effect" =>
                   calls'[claim[q].command] = 1 /\ effects'[claim[q].command] = 0
      BY <1>1 DEF AnswerTruthful
    <2>1. CASE q = r
      BY <2>1, <1>4, <1>6
    <2>2. CASE q # r
      <3>1. claim[q].command # c /\ claim[q].command \in Commands /\ pc[q] = "called"
        BY <2>2, <1>1, <1>5, <1>6 DEF Guarded, SlotOwner, InCall
      <3> QED BY <2>2, <3>1, <1>4 DEF Guarded, AnswerTruthful
    <2> QED BY <2>1, <2>2
  <1>9. RowShape' /\ PackageExclusive' /\ PackageStop' /\ BudgetSpentIsClosed'
    BY <1>1 DEF Guarded, RowShape, PackageExclusive, PackageStop, Siblings,
       BudgetSpentIsClosed
  <1>10. ClaimCurrent'
    BY <1>1, <1>5 DEF Guarded, ClaimCurrent, Siblings
  <1>11. AtMostOneCall'
    BY <1>1, <1>2, <1>4 DEF Guarded, AtMostOneCall
  <1>12. OutcomeTruthful'
    BY <1>1, <1>3, <1>4, <1>5, <1>6 DEF Guarded, OutcomeTruthful
  <1> QED BY <1>7, <1>8, <1>9, <1>10, <1>11, <1>12 DEF Guarded

LEMMA GuardedRecord ==
  ASSUME NEW r \in Runs, TypeOK, Guarded, RecordOutcome(r) PROVE Guarded'
PROOF
  <1> DEFINE c == claim[r].command
             x == answer[r]
  <1>1. /\ c \in Commands /\ pc[r] = "called" /\ slots[c] = 1
        /\ status[c] = "dispatch_fenced" /\ outcome[c] = "none"
    BY DEF TypeOK, TypeRuns, RecordOutcome, LivePermit
  <1>2. /\ x \in Certainty \ {"not_called"}
        /\ x = "effect_confirmed" => effects[c] = 1
        /\ x = "called_no_effect" => calls[c] = 1 /\ effects[c] = 0
    BY <1>1 DEF Guarded, AnswerTruthful
  <1>3. /\ status' = [status EXCEPT ![c] = FinalStatus(x)]
        /\ outcome' = [outcome EXCEPT ![c] = x]
        /\ UNCHANGED <<slots, token, failures, calls, effects>>
        /\ EndRun(r)
    BY DEF RecordOutcome, Close, providerVars
  <1>4. /\ FinalStatus(x) \in {"outcome_recorded", "manual_review"}
        /\ FinalStatus(x) = "manual_review" <=> x = "called_unknown"
    BY DEF FinalStatus
  <1>5. /\ status \in [Commands -> {"absent", "queued"} \cup Active \cup Settled]
        /\ outcome \in [Commands -> Certainty \cup {"none"}]
        /\ \A q \in Runs : pc[q] \notin {"idle", "begun"} => claim[q].command \in Commands
    BY DEF TypeOK, TypeLedger, TypeDispatch, TypeRuns
  <1>6. \A q \in Runs \ {r} : pc[q] \in InCall => claim[q].command # c
    BY <1>1 DEF Guarded, SlotOwner, InCall
  <1>7. \A o \in Siblings(c) : status[o] # "manual_review" /\ status[o] # "dispatch_fenced"
    BY <1>1 DEF Guarded, PackageExclusive, PackageStop, Siblings, Active
  <1>8. failures[c] # MaxPreparationFailures
    BY <1>1 DEF Guarded, BudgetSpentIsClosed
  <1> HIDE DEF c, x
  <1>9. SlotOwner'
    BY <1>1, <1>3, <1>5, <1>6, EndFacts DEF Guarded, SlotOwner, InCall
  <1>10. AnswerTruthful'
    BY <1>3, EndFacts DEF Guarded, AnswerTruthful
  <1>11. RowShape'
    BY <1>1, <1>2, <1>3, <1>4, <1>5 DEF Guarded, RowShape, Settled, Certainty
  <1>12. PackageExclusive'
    BY <1>3, <1>4, <1>5 DEF Guarded, PackageExclusive, Siblings, Active
  <1>13. PackageStop'
    BY <1>1, <1>3, <1>4, <1>5, <1>7 DEF Guarded, PackageStop, Siblings
  <1>14. ClaimCurrent'
    <2> SUFFICES ASSUME NEW q \in Runs, pc'[q] \notin {"idle", "begun"}
        PROVE /\ claim'[q].token <= token'[claim'[q].command]
              /\ /\ pc'[q] = "prepared" /\ status'[claim'[q].command] = "preparing"
                 /\ claim'[q].token = token'[claim'[q].command]
                 => \A o \in Siblings(claim'[q].command) : status'[o] # "manual_review"
      BY DEF ClaimCurrent, Siblings
    <2>1. q # r /\ pc'[q] = pc[q] /\ claim'[q] = claim[q] /\ claim[q].command \in Commands
      BY <1>3, <1>5, EndFacts
    <2>2. claim[q].token <= token[claim[q].command]
      BY <2>1 DEF Guarded, ClaimCurrent
    <2>3. ASSUME pc[q] = "prepared", status'[claim[q].command] = "preparing",
                 claim[q].token = token[claim[q].command],
                 NEW o \in Siblings(claim[q].command)
          PROVE  status'[o] # "manual_review"
      <3>1. status[claim[q].command] = "preparing" /\ claim[q].command # c
        BY <1>1, <1>3, <1>4, <1>5, <2>1, <2>3
      <3>2. status[o] # "manual_review" /\ o \in Commands
        BY <2>1, <2>3, <3>1 DEF Guarded, ClaimCurrent, Siblings
      <3>3. o # c
        BY <1>1, <2>1, <2>3, <3>1 DEF Guarded, PackageExclusive, Active
      <3> QED BY <1>3, <1>5, <3>2, <3>3
    <2> QED BY <1>3, <2>1, <2>2, <2>3
  <1>15. AtMostOneCall'
    BY <1>3 DEF Guarded, AtMostOneCall
  <1>16. OutcomeTruthful'
    BY <1>1, <1>2, <1>3, <1>5, EndFacts DEF Guarded, OutcomeTruthful
  <1>17. BudgetSpentIsClosed'
    BY <1>1, <1>3, <1>5, <1>8 DEF Guarded, BudgetSpentIsClosed
  <1> QED BY <1>9, <1>10, <1>11, <1>12, <1>13, <1>14, <1>15, <1>16, <1>17
          DEF Guarded

LEMMA GuardedRelease ==
  ASSUME TypeOK, Guarded, ReleaseExpiredPreDispatch PROVE Guarded'
PROOF
  <1>1. \A c \in Commands :
          \/ status'[c] = status[c]
          \/ status[c] = "preparing" /\ status'[c] = "queued"
    BY DEF ReleaseExpiredPreDispatch, ExpiredPreparation
  <1>2. UNCHANGED <<slots, outcome, token, failures, pc, claim, answer, calls,
                    effects>>
    BY DEF ReleaseExpiredPreDispatch, outcomeVars, runVars, providerVars
  <1>3. \A q \in Runs : pc[q] \notin {"idle", "begun"} => claim[q].command \in Commands
    BY DEF TypeOK, TypeRuns
  <1>4. SlotOwner' /\ AnswerTruthful'
    BY <1>1, <1>2, <1>3 DEF Guarded, SlotOwner, AnswerTruthful, InCall
  <1>5. RowShape'
    BY <1>1, <1>2 DEF Guarded, RowShape, Settled
  <1>6. PackageExclusive' /\ PackageStop'
    BY <1>1 DEF Guarded, PackageExclusive, PackageStop, Siblings, Active
  <1>7. ClaimCurrent'
    BY <1>1, <1>2, <1>3 DEF Guarded, ClaimCurrent, Siblings
  <1>8. AtMostOneCall' /\ OutcomeTruthful' /\ BudgetSpentIsClosed'
    BY <1>2 DEF Guarded, AtMostOneCall, OutcomeTruthful, BudgetSpentIsClosed
  <1> QED BY <1>4, <1>5, <1>6, <1>7, <1>8 DEF Guarded

(* Promotion keeps the slot spent; the call of a late run stays covered. *)
LEMMA GuardedMark ==
  ASSUME TypeOK, Guarded, MarkExpiredFencedUnknown PROVE Guarded'
PROOF
  <1>1. \A c \in Commands :
          \/ status'[c] = status[c] /\ outcome'[c] = outcome[c]
          \/ /\ status[c] = "dispatch_fenced" /\ slots[c] = 1
             /\ status'[c] = "manual_review" /\ outcome'[c] = "called_unknown"
    BY DEF MarkExpiredFencedUnknown, FencesExpired, ExpiredFence
  <1>2. UNCHANGED <<slots, token, failures, pc, claim, answer, calls, effects>>
    BY DEF MarkExpiredFencedUnknown, runVars, providerVars
  <1>3. \A q \in Runs : pc[q] \notin {"idle", "begun"} => claim[q].command \in Commands
    BY DEF TypeOK, TypeRuns
  <1>4. SlotOwner' /\ AnswerTruthful'
    BY <1>1, <1>2, <1>3 DEF Guarded, SlotOwner, AnswerTruthful, InCall
  <1>5. RowShape'
    BY <1>1, <1>2 DEF Guarded, RowShape, Settled
  <1>6. PackageExclusive'
    BY <1>1 DEF Guarded, PackageExclusive, Siblings, Active
  <1>7. PackageStop'
    BY <1>1 DEF Guarded, PackageExclusive, PackageStop, Siblings, Active
  <1>8. ClaimCurrent'
    <2> SUFFICES ASSUME NEW q \in Runs, pc[q] \notin {"idle", "begun"}
        PROVE /\ claim[q].token <= token[claim[q].command]
              /\ /\ pc[q] = "prepared" /\ status'[claim[q].command] = "preparing"
                 /\ claim[q].token = token[claim[q].command]
                 => \A o \in Siblings(claim[q].command) : status'[o] # "manual_review"
      BY <1>2 DEF ClaimCurrent, Siblings
    <2>1. claim[q].token <= token[claim[q].command]
      BY DEF Guarded, ClaimCurrent
    <2>2. ASSUME pc[q] = "prepared", status'[claim[q].command] = "preparing",
                 claim[q].token = token[claim[q].command],
                 NEW o \in Siblings(claim[q].command)
          PROVE  status'[o] # "manual_review"
      <3>1. status[claim[q].command] = "preparing" /\ o \in Commands
        BY <1>1, <1>3, <2>2 DEF Siblings
      <3>2. status[o] # "manual_review" /\ status[o] # "dispatch_fenced"
        BY <1>3, <2>2, <3>1 DEF Guarded, ClaimCurrent, PackageExclusive, Active
      <3> QED BY <1>1, <3>1, <3>2
    <2> QED BY <2>1, <2>2
  <1>9. AtMostOneCall'
    BY <1>2 DEF Guarded, AtMostOneCall
  <1>10. OutcomeTruthful'
    BY <1>1, <1>2 DEF Guarded, OutcomeTruthful
  <1>11. BudgetSpentIsClosed'
    BY <1>1, <1>2 DEF Guarded, BudgetSpentIsClosed, RowShape, Settled
  <1> QED BY <1>4, <1>5, <1>6, <1>7, <1>8, <1>9, <1>10, <1>11 DEF Guarded
-----------------------------------------------------------------------------
LEMMA InvInit == Init => InductiveInv
PROOF
  BY TypeInit, GuardedInit, InvSplit

LEMMA InvRunStep ==
  ASSUME NEW r \in Runs, InductiveInv, RunStep(r) PROVE InductiveInv'
PROOF
  <1>0. TypeOK /\ Guarded
    BY InvSplit
  <1> SUFFICES TypeOK' /\ Guarded'
    BY DEF InductiveInv, Guarded
  <1> DEFINE Ends == EndRun(r) /\ StoreUnchanged
  <1>e. ASSUME Ends PROVE TypeOK' /\ Guarded'
    <2>1. TypeOK'
      BY <1>0, <1>e, TypeEnd, TypeStore DEF TypeOK
    <2>2. Guarded'
      <3>1. /\ pc' = [pc EXCEPT ![r] = "idle"]
            /\ claim' = [claim EXCEPT ![r] = NoClaim]
            /\ UNCHANGED <<status, slots, outcome, token, failures, calls, effects>>
            /\ \A q \in Runs \ {r} : answer'[q] = answer[q]
        BY <1>0, <1>e DEF EndRun, StoreUnchanged, leaseVars, outcomeVars,
           providerVars, TypeOK, TypeRuns
      <3>2. "idle" \in RunStates \ InCall
        BY DEF RunStates, InCall
      <3> QED BY <1>0, <3>1, <3>2, GuardedRunOnly
    <2> QED BY <2>1, <2>2
  <1>1. CASE BeginRun(r)
    <2>1. /\ pc' = [pc EXCEPT ![r] = "begun"] /\ claim' = claim /\ answer' = answer
          /\ UNCHANGED <<status, slots, outcome, token, failures, calls, effects>>
      BY <1>1 DEF BeginRun, StoreUnchanged, leaseVars, outcomeVars, providerVars
    <2>2. "begun" \in RunStates \ InCall
      BY DEF RunStates, InCall
    <2> QED BY <1>0, <1>1, <2>1, <2>2, TypeBegin, GuardedRunOnly
  <1>2. CASE ClaimNothing(r)
    BY <1>2, <1>e DEF ClaimNothing
  <1>3. CASE ClaimCommand(r)
    <2>1. PICK c \in Commands : Claimable(c, now[r]) /\ TakeClaim(r, c)
      BY <1>3 DEF ClaimCommand, IsHead
    <2>2. pc[r] = "begun"
      BY <1>3 DEF ClaimCommand
    <2> QED BY <1>0, <2>1, <2>2, TypeClaim, GuardedClaim
  <1>4. CASE Prepare(r)
    <2>1. PICK next \in {"prepared", "retry_later", "give_up"} :
            /\ Blocked(claim[r].command) => next = "give_up"
            /\ pc' = [pc EXCEPT ![r] = next]
      BY <1>4 DEF Prepare
    <2>2. /\ pc[r] = "claimed" /\ claim' = claim /\ answer' = answer
          /\ UNCHANGED <<status, slots, outcome, token, failures, calls, effects>>
      BY <1>4 DEF Prepare, StoreUnchanged, leaseVars, outcomeVars, providerVars
    <2>3. next \in RunStates \ InCall
      BY DEF RunStates, InCall
    <2>4. next = "prepared" =>
            \A o \in Siblings(claim[r].command) : status[o] # "manual_review"
      BY <2>1 DEF Blocked
    <2> QED BY <1>0, <1>4, <2>1, <2>2, <2>3, <2>4, TypePrepare, GuardedRunOnly
  <1>5. CASE RequeuePreparation(r)
    BY <1>0, <1>5, TypeRequeue, GuardedRequeue
  <1>6. CASE AbandonPreparation(r)
    <2>1. claim[r].command \in Commands /\ LiveClaim(r, now[r])
      BY <1>0, <1>6 DEF AbandonPreparation, TypeOK, TypeRuns
    <2> QED BY <1>0, <1>6, <2>1, LiveBudget, TypeAbandon, GuardedAbandon
  <1>7. CASE FenceDispatch(r)
    BY <1>0, <1>7, TypeFence, GuardedFence
  <1>8. CASE StaleClaim(r)
    BY <1>8, <1>e DEF StaleClaim
  <1>9. CASE Dispatch(r)
    BY <1>0, <1>9, TypeDispatchStep, GuardedDispatch
  <1>10. CASE RecordOutcome(r)
    <2>1. answer[r] \in Certainty
      BY <1>0, <1>10 DEF RecordOutcome, Guarded, AnswerTruthful
    <2> QED BY <1>0, <1>10, <2>1, TypeRecord, GuardedRecord
  <1>11. CASE OutcomeRefused(r)
    BY <1>11, <1>e DEF OutcomeRefused
  <1> QED BY <1>1, <1>2, <1>3, <1>4, <1>5, <1>6, <1>7, <1>8, <1>9, <1>10,
             <1>11 DEF RunStep

LEMMA InvNext == InductiveInv /\ [Next]_vars => InductiveInv'
PROOF
  <1> SUFFICES ASSUME InductiveInv, [Next]_vars PROVE InductiveInv'
    OBVIOUS
  <1>0. TypeOK /\ Guarded
    BY InvSplit
  <1> SUFFICES TypeOK' /\ Guarded'
    BY DEF InductiveInv, Guarded
  <1>1. CASE Tick
    <2>1. UNCHANGED guardedVars
      BY <1>1 DEF Tick, guardedVars, leaseVars, outcomeVars, runVars, providerVars
    <2> QED BY <1>0, <1>1, <2>1, TypeTick, GuardedFrame
  <1>2. CASE \E d \in {Draft[c] : c \in Commands} : AcceptGroup(d)
    BY <1>0, <1>2, TypeAccept, GuardedAccept
  <1>3. CASE \E c \in Commands, t \in 0..clock : ApplyEvent(c, t)
    <2>1. PICK c \in Commands, t \in 0..clock : ApplyEvent(c, t)
      BY <1>3
    <2>2. UNCHANGED guardedVars
      BY <2>1 DEF ApplyEvent, guardedVars, leaseVars, outcomeVars, runVars,
         providerVars
    <2> QED BY <1>0, <2>1, <2>2, TypeApply, GuardedFrame
  <1>4. CASE \E r \in Runs : RunStep(r)
    <2>1. InductiveInv'
      BY <1>4, InvRunStep
    <2> QED BY <2>1 DEF InductiveInv, Guarded
  <1>5. CASE \E r \in Runs : RenewCommandLease(r)
    BY <1>0, <1>5, TypeRenew, GuardedRenew
  <1>6. CASE \E r \in Runs : Crash(r)
    <2>1. PICK r \in Runs : Crash(r)
      BY <1>6
    <2>2. TypeOK'
      BY <1>0, <2>1, TypeEnd, TypeStore DEF TypeOK, Crash
    <2>3. /\ pc' = [pc EXCEPT ![r] = "idle"]
          /\ claim' = [claim EXCEPT ![r] = NoClaim]
          /\ UNCHANGED <<status, slots, outcome, token, failures, calls, effects>>
          /\ \A q \in Runs \ {r} : answer'[q] = answer[q]
      BY <1>0, <2>1 DEF Crash, EndRun, StoreUnchanged, leaseVars, outcomeVars,
         providerVars, TypeOK, TypeRuns
    <2>4. "idle" \in RunStates \ InCall
      BY DEF RunStates, InCall
    <2> QED BY <1>0, <2>2, <2>3, <2>4, GuardedRunOnly
  <1>7. CASE ReconcilerBegin \/ ReconcilerAborts
    <2>1. UNCHANGED guardedVars
      BY <1>7 DEF ReconcilerBegin, ReconcilerAborts, guardedVars, leaseVars,
         outcomeVars, runVars, providerVars
    <2> QED BY <1>0, <1>7, <2>1, TypeReconcilerBegin, GuardedFrame
  <1>8. CASE ReleaseExpiredPreDispatch
    BY <1>0, <1>8, TypeRelease, GuardedRelease
  <1>9. CASE MarkExpiredFencedUnknown
    BY <1>0, <1>9, TypeMark, GuardedMark
  <1>10. CASE UNCHANGED vars
    <2>1. UNCHANGED guardedVars
      BY <1>10 DEF vars, guardedVars, leaseVars, outcomeVars, runVars, providerVars
    <2>2. TypeOK'
      BY <1>0, <1>10 DEF TypeOK, TypeWorkflow, TypeLedger, TypeDispatch, TypeRuns,
         TypeRest, vars, workflowVars, leaseVars, outcomeVars, runVars, recVars,
         providerVars
    <2> QED BY <1>0, <2>1, <2>2, GuardedFrame
  <1> QED BY <1>1, <1>2, <1>3, <1>4, <1>5, <1>6, <1>7, <1>8, <1>9, <1>10
          DEF Next, Reconcile

(* The inductive invariant holds in every reachable state of the store. *)
THEOREM Inductive == Spec => []InductiveInv
PROOF
  BY InvInit, InvNext, PTL DEF Spec

(* Every table and every run keeps its type. *)
THEOREM TypeCorrect == Spec => []TypeOK
PROOF
  <1>1. InductiveInv => TypeOK
    BY DEF InductiveInv
  <1> QED BY <1>1, Inductive, PTL

(* At most one provider execution per authorized command, for any number of
   concurrent runs, crashes, expiries and ignored events. *)
THEOREM SingleExecution == Spec => []AtMostOneCall
PROOF
  <1>1. InductiveInv => AtMostOneCall
    BY DEF InductiveInv
  <1> QED BY <1>1, Inductive, PTL

(* No recorded outcome contradicts what the provider did. *)
THEOREM TruthfulOutcomes == Spec => []OutcomeTruthful
PROOF
  <1>1. InductiveInv => OutcomeTruthful
    BY DEF InductiveInv
  <1> QED BY <1>1, Inductive, PTL

(* Nothing of a package is fenced once one of its commands is under review. *)
THEOREM PackagesStop == Spec => []PackageStop
PROOF
  <1>1. InductiveInv => PackageStop
    BY DEF InductiveInv
  <1> QED BY <1>1, Inductive, PTL

(* Calls of one package never overlap, not even calls that outlive a lease. *)
THEOREM PackagesSerial == Spec => []PackageSerial
PROOF
  <1>1. InductiveInv => PackageSerial
    <2> SUFFICES ASSUME InductiveInv, NEW c \in Commands, NEW o \in Siblings(c),
                        InFlight(c), InFlight(o)
                 PROVE  FALSE
      BY DEF PackageSerial
    <2>1. /\ status[c] \in {"dispatch_fenced", "manual_review"}
          /\ status[o] \in {"dispatch_fenced", "manual_review"}
      BY DEF InductiveInv, SlotOwner, InFlight, InCall
    <2>2. o \in Commands /\ c \in Siblings(o)
      BY DEF Siblings
    <2> QED BY <2>1, <2>2 DEF InductiveInv, PackageExclusive, PackageStop, Active
  <1> QED BY <1>1, Inductive, PTL

(* An exhausted preparation budget always closes the command. *)
THEOREM BudgetCloses == Spec => []BudgetSpentIsClosed
PROOF
  <1>1. InductiveInv => BudgetSpentIsClosed
    BY DEF InductiveInv
  <1> QED BY <1>1, Inductive, PTL

(* A spent slot stays spent and a settled row never changes again. *)
THEOREM FenceOneWay == Spec => FenceIsOneWay
PROOF
  <1> DEFINE OneWay ==
        \A c \in Commands :
          /\ slots[c] = 1 => slots'[c] = 1 /\ status'[c] \notin {"queued", "preparing"}
          /\ status[c] \in Settled =>
               /\ status'[c] = status[c]
               /\ outcome'[c] = outcome[c]
               /\ updatedAt'[c] = updatedAt[c]
  <1>1. InductiveInv /\ [Next]_vars => [OneWay]_vars
    <2> SUFFICES ASSUME InductiveInv, Next, NEW c \in Commands
                 PROVE /\ slots[c] = 1 => slots'[c] = 1 /\ status'[c] \notin {"queued", "preparing"}
                       /\ status[c] \in Settled =>
                            /\ status'[c] = status[c]
                            /\ outcome'[c] = outcome[c]
                            /\ updatedAt'[c] = updatedAt[c]
      OBVIOUS
    <2> DEFINE Same == /\ slots'[c] = slots[c] /\ status'[c] = status[c]
                       /\ outcome'[c] = outcome[c] /\ updatedAt'[c] = updatedAt[c]
               Moves == /\ status[c] \notin Settled
                        /\ slots[c] = 1 => slots'[c] = 1
                                          /\ status'[c] \notin {"queued", "preparing"}
    <2> SUFFICES Same \/ Moves
      BY DEF InductiveInv, RowShape
    <2>0. TypeLedger /\ TypeDispatch /\ TypeRuns /\ RowShape
      BY DEF InductiveInv, TypeOK
    <2>1. CASE UNCHANGED <<slots, status, outcome, updatedAt>>
      BY <2>1
    <2>2. CASE \E d \in {Draft[o] : o \in Commands} : AcceptGroup(d)
      <3>1. /\ slots' = slots /\ outcome' = outcome
            /\ \/ status[c] = "absent"
               \/ status'[c] = status[c] /\ updatedAt'[c] = updatedAt[c]
        BY <2>2 DEF AcceptGroup, outcomeVars
      <3>2. status[c] = "absent" => slots[c] = 0
        BY <2>0 DEF RowShape
      <3> QED BY <3>1, <3>2 DEF Settled
    <2>3. CASE \E r \in Runs : ClaimCommand(r)
      <3>1. PICK r \in Runs, o \in Commands : Claimable(o, now[r]) /\ TakeClaim(r, o)
        BY <2>3 DEF ClaimCommand, IsHead
      <3> QED BY <2>0, <3>1 DEF Claimable, TakeClaim, outcomeVars, TypeLedger, Settled
    <2>4. CASE \E r \in Runs : RequeuePreparation(r) \/ FenceDispatch(r) \/ RenewCommandLease(r)
      <3>1. PICK r \in Runs : RequeuePreparation(r) \/ FenceDispatch(r) \/ RenewCommandLease(r)
        BY <2>4
      <3>2. status[claim[r].command] = "preparing" /\ slots[claim[r].command] = 0
        BY <3>1 DEF RequeuePreparation, FenceDispatch, RenewCommandLease, LiveClaim
      <3> QED BY <2>0, <3>1, <3>2 DEF RequeuePreparation, FenceDispatch,
              RenewCommandLease, outcomeVars, TypeLedger, TypeDispatch, Settled
    <2>5. CASE \E r \in Runs : AbandonPreparation(r) \/ RecordOutcome(r)
      <3>1. PICK r \in Runs : AbandonPreparation(r) \/ RecordOutcome(r)
        BY <2>5
      <3>2. status[claim[r].command] \in Active
        BY <3>1 DEF AbandonPreparation, RecordOutcome, LiveClaim, LivePermit, Active
      <3>3. \A x : FinalStatus(x) \in Settled
        BY DEF FinalStatus, Settled
      <3> QED BY <2>0, <3>1, <3>2, <3>3 DEF AbandonPreparation, RecordOutcome, Close,
              TypeLedger, TypeDispatch, Settled, Active
    <2>6. CASE ReleaseExpiredPreDispatch
      <3>1. status[c] = "preparing" => slots[c] = 0
        BY <2>0 DEF RowShape
      <3> QED BY <2>6, <3>1 DEF ReleaseExpiredPreDispatch, ExpiredPreparation,
              outcomeVars, Settled
    <2>7. CASE MarkExpiredFencedUnknown
      BY <2>7 DEF MarkExpiredFencedUnknown, FencesExpired, ExpiredFence, Settled
    <2> QED
      BY <2>1, <2>2, <2>3, <2>4, <2>5, <2>6, <2>7
      DEF Next, RunStep, Reconcile, Tick, ApplyEvent, BeginRun, ClaimNothing,
          Prepare, StaleClaim, Dispatch, OutcomeRefused, Crash, ReconcilerBegin,
          ReconcilerAborts, StoreUnchanged, leaseVars, outcomeVars
  <1> QED BY <1>1, Inductive, PTL DEF Spec, FenceIsOneWay
-----------------------------------------------------------------------------
(* The row of a command, its workflow and its messages agree; what an event
   from outside may spoil is asked only while there was none.  An absent row
   is blank, and a claimed one has failed less often than it was claimed. *)
OwnMessages(c) == {m \in messages : m.command = c}

RowConsistent(c) ==
  /\ status[c] = "absent" => token[c] = 0 /\ failures[c] = 0
  /\ status[c] # "absent" => LedgerReadable(c) /\ PhaseMatchesLedger(c)
  /\ status[c] \in Active => failures[c] < token[c]
  /\ outcome[c] = "none" => OwnMessages(c) = {}
  /\ outcome[c] # "none" =>
       /\ phase[c] = TerminalPhase(outcome[c])
       /\ OwnMessages(c) = {[command |-> c, certainty |-> outcome[c],
                             createdAt |-> updatedAt[c]]}
  /\ foreign = 0 /\ outcome[c] # "none" =>
       lastEventAt[c] = updatedAt[c] /\ closedAt[c] = revision[c]

RowsConsistent == \A c \in Commands : RowConsistent(c)

(* What RowConsistent reads of one row; a step that keeps it keeps the row. *)
SameRow(c) ==
  /\ status'[c] = status[c] /\ token'[c] = token[c] /\ failures'[c] = failures[c]
  /\ slots'[c] = slots[c] /\ lease'[c] = lease[c] /\ fencedAt'[c] = fencedAt[c]
  /\ outcome'[c] = outcome[c] /\ updatedAt'[c] = updatedAt[c]
  /\ createdAt'[c] = createdAt[c] /\ phase'[c] = phase[c]
  /\ {m \in messages' : m.command = c} = OwnMessages(c)
  /\ foreign' = 0 => /\ foreign = 0 /\ lastEventAt'[c] = lastEventAt[c]
                     /\ closedAt'[c] = closedAt[c] /\ revision'[c] = revision[c]

LEMMA RowFrame ==
  ASSUME NEW c \in Commands, RowConsistent(c), SameRow(c) PROVE RowConsistent(c)'
PROOF
  <1>1. LedgerReadable(c)' <=> LedgerReadable(c)
    BY DEF SameRow, LedgerReadable
  <1>2. PhaseMatchesLedger(c)' <=> PhaseMatchesLedger(c)
    BY DEF SameRow, PhaseMatchesLedger
  <1>3. OwnMessages(c)' = OwnMessages(c)
    BY DEF SameRow, OwnMessages
  <1> QED BY <1>1, <1>2, <1>3 DEF SameRow, RowConsistent

(* The types of one row, as the steps below need them. *)
LEMMA RowTypes ==
  ASSUME TypeOK, NEW c \in Commands
  PROVE  /\ status[c] \in {"absent", "queued", "preparing", "dispatch_fenced",
                           "outcome_recorded", "manual_review"}
         /\ token[c] \in Nat /\ failures[c] \in Nat /\ revision[c] \in Nat
         /\ slots[c] \in {0, 1} /\ lease[c] \in Lease /\ fencedAt[c] \in Nat
         /\ updatedAt[c] \in Nat /\ createdAt[c] \in Nat /\ lastEventAt[c] \in Nat
         /\ phase[c] \in Phases /\ outcome[c] \in Certainty \cup {"none"}
         /\ lease[c].acquired \in Nat /\ lease[c].expires \in Nat
PROOF
  <1>1. /\ lease[c] \in Lease /\ fencedAt[c] \in Time
    BY DEF TypeOK, TypeLedger, TypeDispatch
  <1>2. lease[c].acquired \in Time /\ lease[c].expires \in Time
    BY <1>1 DEF Lease
  <1>3. \A t \in Time : t \in Nat
    BY Bounds DEF Time
  <1>4. /\ status[c] \in {"absent", "queued", "preparing", "dispatch_fenced",
                          "outcome_recorded", "manual_review"}
        /\ token[c] \in Nat /\ revision[c] \in Nat /\ slots[c] \in 0..1
        /\ phase[c] \in Phases /\ outcome[c] \in Certainty \cup {"none"}
    BY DEF TypeOK, TypeLedger, TypeDispatch, TypeWorkflow, Active, Settled
  <1>5. /\ failures[c] \in 0..MaxPreparationFailures
        /\ updatedAt[c] \in 0..MaxTime /\ createdAt[c] \in 0..MaxTime
        /\ lastEventAt[c] \in 0..MaxTime
    BY DEF TypeOK, TypeLedger, TypeWorkflow
  <1> QED BY <1>1, <1>2, <1>3, <1>4, <1>5

(* A row that is claimed or fenced belongs to an executing workflow. *)
LEMMA ActiveExecutes ==
  ASSUME TypeOK, Guarded, NEW c \in Commands, RowConsistent(c), status[c] \in Active
  PROVE  /\ phase[c] = "executing" /\ token[c] > 0 /\ failures[c] < token[c]
         /\ LedgerReadable(c)
         /\ outcome[c] = "none" /\ OwnMessages(c) = {}
         /\ status[c] = "preparing" => slots[c] = 0
PROOF
  <1>1. status[c] # "absent" /\ status[c] \notin Settled
    BY DEF Active, Settled
  <1>2. outcome[c] = "none" /\ (status[c] = "preparing" => slots[c] = 0)
    BY <1>1 DEF Guarded, RowShape
  <1>3. phase[c] = "executing" /\ token[c] > 0
    BY <1>1, RowTypes DEF RowConsistent, PhaseMatchesLedger, Phases, Active
  <1> QED BY <1>1, <1>2, <1>3 DEF RowConsistent

LEMMA ConsistentInit == ASSUME Init PROVE RowsConsistent
PROOF
  BY DEF Init, RowsConsistent, RowConsistent, OwnMessages, Active

LEMMA ConsistentAccept ==
  ASSUME NEW d, TypeOK, Guarded, RowsConsistent, AcceptGroup(d) PROVE RowsConsistent'
PROOF
  <1> SUFFICES ASSUME NEW c \in Commands PROVE RowConsistent(c)'
    BY DEF RowsConsistent
  <1>1. RowConsistent(c)
    BY DEF RowsConsistent
  <1>2. /\ token'[c] = token[c] /\ failures'[c] = failures[c] /\ slots'[c] = slots[c]
        /\ lease'[c] = lease[c] /\ fencedAt'[c] = fencedAt[c]
        /\ outcome' = outcome /\ closedAt' = closedAt /\ messages' = messages
        /\ foreign' = foreign
    BY DEF AcceptGroup, outcomeVars
  <1>3. CASE Draft[c] # d
    <2>1. SameRow(c)
      BY <1>2, <1>3 DEF AcceptGroup, SameRow, OwnMessages, TypeOK, TypeLedger, TypeWorkflow
    <2> QED BY <1>1, <2>1, RowFrame
  <1>4. CASE Draft[c] = d
    <2>1. /\ status[c] = "absent" /\ status'[c] = "queued"
          /\ phase'[c] = "execution_queued" /\ updatedAt'[c] = createdAt'[c]
          /\ updatedAt'[c] \in 0..clock
      BY <1>4 DEF AcceptGroup
    <2>2. outcome[c] = "none" /\ slots[c] = 0 /\ token[c] = 0 /\ failures[c] = 0
      BY <1>1, <2>1 DEF Guarded, RowShape, Settled, RowConsistent
    <2>3. OwnMessages(c)' = {}
      BY <1>1, <1>2, <2>2 DEF RowConsistent, OwnMessages
    <2>4. updatedAt'[c] \in Nat
      BY <2>1 DEF TypeOK, TypeRest
    <2>5. LedgerReadable(c)'
      BY <1>2, <2>1, <2>2, <2>4 DEF LedgerReadable, Active
    <2>6. PhaseMatchesLedger(c)'
      BY <1>2, <2>1, <2>2 DEF PhaseMatchesLedger
    <2> QED BY <1>2, <2>1, <2>2, <2>3, <2>5, <2>6 DEF RowConsistent, Active
  <1> QED BY <1>3, <1>4

(* ExecutionStarted is recorded with the first claim, so that a claimed row
   is of an executing workflow whatever claim it is. *)
LEMMA ConsistentClaim ==
  ASSUME NEW r \in Runs, NEW d \in Commands, TypeOK, Guarded, RowsConsistent,
         Claimable(d, now[r]), ClaimTimeValid(d, now[r]), TakeClaim(r, d)
  PROVE  RowsConsistent'
PROOF
  <1> SUFFICES ASSUME NEW c \in Commands PROVE RowConsistent(c)'
    BY DEF RowsConsistent
  <1>1. RowConsistent(c)
    BY DEF RowsConsistent
  <1>2. /\ failures' = failures /\ slots' = slots /\ fencedAt' = fencedAt
        /\ outcome' = outcome /\ closedAt' = closedAt /\ messages' = messages
        /\ createdAt' = createdAt /\ foreign' = foreign
    BY DEF TakeClaim, outcomeVars
  <1>3. CASE c # d
    <2>1. SameRow(c)
      BY <1>2, <1>3 DEF TakeClaim, SameRow, OwnMessages, TypeOK, TypeLedger, TypeWorkflow
    <2> QED BY <1>1, <2>1, RowFrame
  <1>4. CASE c = d
    <2>1. status[c] \in {"queued", "preparing"} /\ slots[c] = 0 /\ now[r] >= createdAt[c]
      BY <1>4 DEF Claimable, ClaimTimeValid
    <2>2. /\ status'[c] = "preparing" /\ token'[c] = token[c] + 1
          /\ lease'[c].acquired = now[r] /\ lease'[c].expires = now[r] + LeaseTTL
          /\ updatedAt'[c] = now[r] /\ phase'[c] = "executing"
      BY <1>4 DEF TakeClaim, TypeOK, TypeLedger, TypeWorkflow
    <2>3. outcome[c] = "none"
      BY <2>1 DEF Guarded, RowShape, Settled
    <2>4. now[r] \in Nat /\ now[r] < now[r] + LeaseTTL
      BY Bounds DEF TypeOK, TypeRuns
    <2>5. failures[c] <= token[c]
      BY <1>1, <2>1 DEF RowConsistent, PhaseMatchesLedger
    <2>6. LedgerReadable(c)'
      BY <1>2, <2>1, <2>2, <2>3, <2>4, RowTypes DEF LedgerReadable, Active
    <2>7. failures'[c] < token'[c] /\ token'[c] > 0
      BY <1>2, <2>2, <2>5, RowTypes
    <2>8. PhaseMatchesLedger(c)'
      BY <1>2, <2>2, <2>5, <2>7, RowTypes DEF PhaseMatchesLedger, Active
    <2>9. OwnMessages(c)' = {}
      BY <1>1, <1>2, <2>3 DEF RowConsistent, OwnMessages
    <2> QED BY <1>2, <2>2, <2>3, <2>6, <2>7, <2>8, <2>9 DEF RowConsistent
  <1> QED BY <1>3, <1>4

(* A renewal keeps the row's time inside its lease. *)
LEMMA ConsistentRenew ==
  ASSUME NEW r \in Runs, TypeOK, Guarded, RowsConsistent, RenewCommandLease(r)
  PROVE  RowsConsistent'
PROOF
  <1> SUFFICES ASSUME NEW c \in Commands PROVE RowConsistent(c)'
    BY DEF RowsConsistent
  <1>1. RowConsistent(c)
    BY DEF RowsConsistent
  <1>2. /\ UNCHANGED <<phase, revision, lastEventAt, status, token, failures, slots,
                       fencedAt, outcome, closedAt, messages, createdAt, foreign>>
        /\ lease' = [lease EXCEPT ![claim[r].command].expires = clock + LeaseTTL]
        /\ updatedAt' = [updatedAt EXCEPT ![claim[r].command] = clock]
    BY DEF RenewCommandLease, workflowVars, outcomeVars
  <1>3. CASE c # claim[r].command
    <2>1. SameRow(c)
      BY <1>2, <1>3 DEF SameRow, OwnMessages, TypeOK, TypeLedger
    <2> QED BY <1>1, <2>1, RowFrame
  <1>4. CASE c = claim[r].command
    <2>1. /\ status[c] = "preparing" /\ updatedAt[c] <= clock
          /\ lease[c] = [owner |-> WorkerId[r], acquired |-> claim[r].acquired,
                         expires |-> claim[r].expires]
          /\ claim[r].acquired <= clock
      BY <1>4 DEF RenewCommandLease, LiveClaim
    <2>2. /\ updatedAt'[c] = clock /\ lease'[c].expires = clock + LeaseTTL
          /\ lease'[c].acquired = lease[c].acquired /\ lease[c].acquired <= clock
      BY <1>2, <1>4, <2>1 DEF TypeOK, TypeLedger, Lease
    <2>3. clock \in Nat /\ clock < clock + LeaseTTL
      BY Bounds DEF TypeOK, TypeRest
    <2>4. /\ phase[c] = "executing" /\ outcome[c] = "none" /\ slots[c] = 0
          /\ LedgerReadable(c)
      BY <1>1, <2>1, ActiveExecutes DEF Active
    <2>5. LedgerReadable(c)'
      BY <1>2, <2>1, <2>2, <2>3, <2>4, RowTypes DEF LedgerReadable, Active
    <2>6. PhaseMatchesLedger(c)'
      BY <1>1, <1>2, <2>1 DEF RowConsistent, PhaseMatchesLedger
    <2> QED BY <1>1, <1>2, <2>4, <2>5, <2>6 DEF RowConsistent, OwnMessages
  <1> QED BY <1>3, <1>4

LEMMA ConsistentRequeue ==
  ASSUME NEW r \in Runs, TypeOK, Guarded, RowsConsistent, RequeuePreparation(r)
  PROVE  RowsConsistent'
PROOF
  <1> SUFFICES ASSUME NEW c \in Commands PROVE RowConsistent(c)'
    BY DEF RowsConsistent
  <1>1. RowConsistent(c)
    BY DEF RowsConsistent
  <1>2. /\ UNCHANGED <<phase, revision, lastEventAt, token, slots, fencedAt, outcome,
                       closedAt, messages, createdAt, foreign>>
    BY DEF RequeuePreparation, workflowVars, outcomeVars
  <1>3. CASE c # claim[r].command
    <2>1. SameRow(c)
      BY <1>2, <1>3 DEF RequeuePreparation, SameRow, OwnMessages, TypeOK, TypeLedger
    <2> QED BY <1>1, <2>1, RowFrame
  <1>4. CASE c = claim[r].command
    <2>1. /\ status[c] = "preparing" /\ slots[c] = 0 /\ updatedAt[c] <= now[r]
          /\ status'[c] = "queued" /\ updatedAt'[c] = now[r]
          /\ failures'[c] = failures[c] + 1
      BY <1>4 DEF RequeuePreparation, LiveClaim, TypeOK, TypeLedger
    <2>2. /\ phase[c] = "executing" /\ outcome[c] = "none" /\ LedgerReadable(c)
          /\ token[c] > 0 /\ failures[c] < token[c]
      BY <1>1, <2>1, ActiveExecutes DEF Active
    <2>3. now[r] \in Nat
      BY DEF TypeOK, TypeRuns
    <2>4. LedgerReadable(c)'
      BY <1>2, <2>1, <2>2, <2>3, RowTypes DEF LedgerReadable, Active
    <2>5. failures'[c] <= token'[c] /\ token'[c] > 0
      BY <1>2, <2>1, <2>2, RowTypes
    <2>6. PhaseMatchesLedger(c)'
      BY <1>2, <2>1, <2>2, <2>5 DEF PhaseMatchesLedger
    <2> QED BY <1>1, <1>2, <2>1, <2>2, <2>4, <2>6 DEF RowConsistent, OwnMessages, Active
  <1> QED BY <1>3, <1>4

LEMMA ConsistentFence ==
  ASSUME NEW r \in Runs, TypeOK, Guarded, RowsConsistent, FenceDispatch(r)
  PROVE  RowsConsistent'
PROOF
  <1> SUFFICES ASSUME NEW c \in Commands PROVE RowConsistent(c)'
    BY DEF RowsConsistent
  <1>1. RowConsistent(c)
    BY DEF RowsConsistent
  <1>2. /\ UNCHANGED <<phase, revision, lastEventAt, lease, token, failures, outcome,
                       closedAt, messages, createdAt, foreign>>
    BY DEF FenceDispatch, workflowVars, outcomeVars
  <1>3. CASE c # claim[r].command
    <2>1. SameRow(c)
      BY <1>2, <1>3 DEF FenceDispatch, SameRow, OwnMessages, TypeOK, TypeLedger, TypeDispatch
    <2> QED BY <1>1, <2>1, RowFrame
  <1>4. CASE c = claim[r].command
    <2>1. /\ status[c] = "preparing" /\ updatedAt[c] <= now[r]
          /\ lease[c] = [owner |-> WorkerId[r], acquired |-> claim[r].acquired,
                         expires |-> claim[r].expires]
          /\ claim[r].acquired <= now[r] /\ now[r] < claim[r].expires
      BY <1>4 DEF FenceDispatch, LiveClaim
    <2>2. lease[c].acquired <= now[r] /\ now[r] < lease[c].expires
      BY <2>1
    <2>3. /\ status'[c] = "dispatch_fenced" /\ slots'[c] = 1
          /\ fencedAt'[c] = now[r] /\ updatedAt'[c] = now[r]
      BY <1>4 DEF FenceDispatch, TypeOK, TypeLedger, TypeDispatch
    <2>4. /\ phase[c] = "executing" /\ outcome[c] = "none" /\ LedgerReadable(c)
          /\ token[c] > 0 /\ failures[c] < token[c]
      BY <1>1, <2>1, ActiveExecutes DEF Active
    <2>5. now[r] \in Nat
      BY DEF TypeOK, TypeRuns
    <2>6. LedgerReadable(c)'
      BY <1>2, <2>1, <2>2, <2>3, <2>4, <2>5, RowTypes DEF LedgerReadable, Active
    <2>7. PhaseMatchesLedger(c)'
      BY <1>2, <2>3, <2>4, RowTypes DEF PhaseMatchesLedger, Active
    <2> QED BY <1>1, <1>2, <2>3, <2>4, <2>6, <2>7 DEF RowConsistent, OwnMessages
  <1> QED BY <1>3, <1>4

(* What the three transactions that close a command write into its row, from
   the row they found active. *)
LEMMA ConsistentClosed ==
  ASSUME TypeOK, Guarded, NEW c \in Commands, RowConsistent(c), status[c] \in Active,
         NEW x \in Certainty, NEW t \in Nat, updatedAt[c] <= t,
         (slots[c] = 0) <=> (x = "not_called"),
         phase'[c] = TerminalPhase(x), outcome'[c] = x, status'[c] = FinalStatus(x),
         updatedAt'[c] = t, lastEventAt'[c] = t, closedAt'[c] = revision'[c],
         {m \in messages' : m.command = c}
           = {[command |-> c, certainty |-> x, createdAt |-> t]},
         failures'[c] = failures[c] \/ (x = "not_called" /\ failures'[c] = failures[c] + 1),
         x = "not_called" => failures'[c] = failures[c] + 1,
         UNCHANGED <<token, slots, fencedAt, createdAt>>
  PROVE  RowConsistent(c)'
PROOF
  <1>1. /\ token[c] > 0 /\ failures[c] < token[c] /\ LedgerReadable(c)
    BY ActiveExecutes
  <1>2. x \in {"effect_confirmed", "called_no_effect", "called_unknown", "not_called"}
        /\ x # "none"
    BY DEF Certainty
  <1>3. /\ TerminalPhase(x) = CASE x = "effect_confirmed" -> "succeeded"
                               [] x = "called_no_effect" -> "failed_no_effect"
                               [] x = "called_unknown"   -> "manual_review"
                               [] x = "not_called"       -> "failed_before_provider"
        /\ FinalStatus(x) = IF x = "called_unknown" THEN "manual_review"
                                                    ELSE "outcome_recorded"
    BY DEF TerminalPhase, FinalStatus
  <1>4. slots[c] = 1 => fencedAt[c] <= updatedAt[c]
    BY <1>1 DEF LedgerReadable
  <1>5. LedgerReadable(c)'
    <2>1. status'[c] \notin Active /\ status'[c] # "queued"
      BY <1>3 DEF Active
    <2>2. createdAt[c] <= t /\ (slots[c] = 1 => fencedAt[c] <= t)
      BY <1>1, <1>4, RowTypes DEF LedgerReadable
    <2> QED BY <1>2, <2>1, <2>2 DEF LedgerReadable, Active
  <1>6. failures'[c] <= token'[c] /\ (x = "not_called" => failures'[c] > 0)
    BY <1>1, RowTypes
  <1>7. PhaseMatchesLedger(c)'
    BY <1>1, <1>2, <1>3, <1>6, RowTypes DEF PhaseMatchesLedger
  <1>8. OwnMessages(c)' = {[command |-> c, certainty |-> x, createdAt |-> t]}
    BY DEF OwnMessages
  <1>9. status'[c] # "absent" /\ status'[c] \notin Active
    BY <1>3 DEF Active
  <1> QED BY <1>2, <1>5, <1>7, <1>8, <1>9 DEF RowConsistent

LEMMA ConsistentClose ==
  ASSUME NEW d \in Commands, TypeOK, Guarded, RowsConsistent, status[d] \in Active,
         NEW x \in Certainty, NEW t \in Nat, updatedAt[d] <= t,
         (slots[d] = 0) <=> (x = "not_called"), Close(d, x, t),
         IF x = "not_called" THEN failures' = [failures EXCEPT ![d] = @ + 1]
                             ELSE failures' = failures,
         UNCHANGED <<token, slots, fencedAt, createdAt, foreign>>
  PROVE  RowsConsistent'
PROOF
  <1> SUFFICES ASSUME NEW c \in Commands PROVE RowConsistent(c)'
    BY DEF RowsConsistent
  <1>1. RowConsistent(c)
    BY DEF RowsConsistent
  <1>2. messages' = messages \cup {[command |-> d, certainty |-> x, createdAt |-> t]}
    BY DEF Close
  <1>3. CASE c # d
    <2>1. {m \in messages' : m.command = c} = OwnMessages(c)
      BY <1>2, <1>3 DEF OwnMessages
    <2>2. SameRow(c)
      BY <1>3, <2>1 DEF Close, SameRow, TypeOK, TypeLedger, TypeWorkflow, TypeDispatch
    <2> QED BY <1>1, <2>2, RowFrame
  <1>4. CASE c = d
    <2>1. OwnMessages(c) = {}
      BY <1>1, <1>4, ActiveExecutes
    <2>2. {m \in messages' : m.command = c}
            = {[command |-> c, certainty |-> x, createdAt |-> t]}
      BY <1>2, <1>4, <2>1 DEF OwnMessages
    <2>3. /\ phase'[c] = TerminalPhase(x) /\ outcome'[c] = x /\ status'[c] = FinalStatus(x)
          /\ updatedAt'[c] = t /\ lastEventAt'[c] = t /\ closedAt'[c] = revision'[c]
      BY <1>4 DEF Close, TypeOK, TypeLedger, TypeWorkflow, TypeDispatch
    <2>4. IF x = "not_called" THEN failures'[c] = failures[c] + 1
                              ELSE failures'[c] = failures[c]
      BY <1>4 DEF TypeOK, TypeLedger
    <2> QED BY <1>1, <1>4, <2>2, <2>3, <2>4, ConsistentClosed
  <1> QED BY <1>3, <1>4

LEMMA ConsistentAbandon ==
  ASSUME NEW r \in Runs, TypeOK, Guarded, RowsConsistent, AbandonPreparation(r)
  PROVE  RowsConsistent'
PROOF
  <1> DEFINE c == claim[r].command
  <1>1. c \in Commands /\ now[r] \in Nat
    BY DEF AbandonPreparation, TypeOK, TypeRuns
  <1>2. /\ status[c] \in Active /\ slots[c] = 0 /\ updatedAt[c] <= now[r]
    BY DEF AbandonPreparation, LiveClaim, Active
  <1>3. /\ Close(c, "not_called", now[r]) /\ failures' = [failures EXCEPT ![c] = @ + 1]
        /\ UNCHANGED <<token, slots, fencedAt, createdAt, foreign>>
    BY DEF AbandonPreparation
  <1> QED BY <1>1, <1>2, <1>3, ConsistentClose DEF Certainty

(* The answer a run records is never not_called: its slot is spent. *)
LEMMA ConsistentRecord ==
  ASSUME NEW r \in Runs, TypeOK, Guarded, RowsConsistent, RecordOutcome(r)
  PROVE  RowsConsistent'
PROOF
  <1> DEFINE c == claim[r].command
  <1>1. c \in Commands /\ now[r] \in Nat
    BY DEF RecordOutcome, TypeOK, TypeRuns
  <1>2. /\ status[c] \in Active /\ slots[c] = 1 /\ updatedAt[c] <= now[r]
    BY DEF RecordOutcome, LivePermit, Active
  <1>3. answer[r] \in Certainty /\ answer[r] # "not_called"
    BY DEF RecordOutcome, Guarded, AnswerTruthful
  <1>4. /\ Close(c, answer[r], now[r]) /\ failures' = failures
        /\ UNCHANGED <<token, slots, fencedAt, createdAt, foreign>>
    BY DEF RecordOutcome
  <1> QED BY <1>1, <1>2, <1>3, <1>4, ConsistentClose

(* An expired claim was last written before it expired, so that the time of
   the reconciler is later than every time of the row. *)
LEMMA ConsistentRelease ==
  ASSUME TypeOK, Guarded, RowsConsistent, ReleaseExpiredPreDispatch
  PROVE  RowsConsistent'
PROOF
  <1> SUFFICES ASSUME NEW c \in Commands PROVE RowConsistent(c)'
    BY DEF RowsConsistent
  <1>1. RowConsistent(c)
    BY DEF RowsConsistent
  <1>2. UNCHANGED <<phase, revision, lastEventAt, token, failures, slots, fencedAt,
                    outcome, closedAt, messages, createdAt, foreign>>
    BY DEF ReleaseExpiredPreDispatch, workflowVars, outcomeVars
  <1>3. CASE ~ExpiredPreparation(c)
    <2>1. SameRow(c)
      BY <1>2, <1>3 DEF ReleaseExpiredPreDispatch, SameRow, OwnMessages
    <2> QED BY <1>1, <2>1, RowFrame
  <1>4. CASE ExpiredPreparation(c)
    <2>1. /\ status[c] = "preparing" /\ slots[c] = 0 /\ lease[c].expires <= recNow
          /\ status'[c] = "queued" /\ updatedAt'[c] = recNow
      BY <1>4 DEF ExpiredPreparation, ReleaseExpiredPreDispatch
    <2>2. /\ phase[c] = "executing" /\ outcome[c] = "none" /\ LedgerReadable(c)
          /\ token[c] > 0 /\ failures[c] < token[c]
      BY <1>1, <2>1, ActiveExecutes DEF Active
    <2>3. recNow \in Nat
      BY DEF TypeOK, TypeRest
    <2>4. LedgerReadable(c)'
      BY <1>2, <2>1, <2>2, <2>3, RowTypes DEF LedgerReadable, Active
    <2>5. PhaseMatchesLedger(c)'
      BY <1>2, <2>1, <2>2, RowTypes DEF PhaseMatchesLedger
    <2> QED BY <1>1, <1>2, <2>1, <2>2, <2>4, <2>5 DEF RowConsistent, OwnMessages, Active
  <1> QED BY <1>3, <1>4

LEMMA ConsistentMark ==
  ASSUME TypeOK, Guarded, RowsConsistent, MarkExpiredFencedUnknown
  PROVE  RowsConsistent'
PROOF
  <1> DEFINE news == {[command |-> o, certainty |-> "called_unknown", createdAt |-> recNow] :
                        o \in FencesExpired}
  <1> SUFFICES ASSUME NEW c \in Commands PROVE RowConsistent(c)'
    BY DEF RowsConsistent
  <1>1. RowConsistent(c)
    BY DEF RowsConsistent
  <1>2. /\ UNCHANGED <<token, failures, slots, fencedAt, createdAt, foreign>>
        /\ messages' = messages \cup news
    BY DEF MarkExpiredFencedUnknown
  <1>3. CASE c \notin FencesExpired
    <2>1. {m \in messages' : m.command = c} = OwnMessages(c)
      BY <1>2, <1>3 DEF OwnMessages
    <2>2. SameRow(c)
      BY <1>2, <1>3, <2>1 DEF MarkExpiredFencedUnknown, SameRow
    <2> QED BY <1>1, <2>2, RowFrame
  <1>4. CASE c \in FencesExpired
    <2>1. status[c] \in Active /\ slots[c] = 1 /\ lease[c].expires <= recNow
      BY <1>4 DEF FencesExpired, ExpiredFence, Active
    <2>2. OwnMessages(c) = {} /\ LedgerReadable(c)
      BY <1>1, <2>1, ActiveExecutes
    <2>3. recNow \in Nat
      BY DEF TypeOK, TypeRest
    <2>4. updatedAt[c] <= recNow
      BY <2>1, <2>2, <2>3, RowTypes DEF LedgerReadable
    <2>5. {m \in messages' : m.command = c}
            = {[command |-> c, certainty |-> "called_unknown", createdAt |-> recNow]}
      BY <1>2, <1>4, <2>2 DEF OwnMessages
    <2>6. /\ phase'[c] = "manual_review" /\ outcome'[c] = "called_unknown"
          /\ status'[c] = "manual_review" /\ updatedAt'[c] = recNow
          /\ lastEventAt'[c] = recNow /\ closedAt'[c] = revision'[c]
      BY <1>4 DEF MarkExpiredFencedUnknown
    <2>7. /\ TerminalPhase("called_unknown") = "manual_review"
          /\ FinalStatus("called_unknown") = "manual_review"
          /\ "called_unknown" \in Certainty
      BY DEF TerminalPhase, FinalStatus, Certainty
    <2> QED BY <1>1, <1>2, <2>1, <2>3, <2>4, <2>5, <2>6, <2>7, ConsistentClosed
  <1> QED BY <1>3, <1>4

(* Steps that leave the rows alone: the clock, an event on the workflow, the
   beginning and the end of runs, and the provider's call. *)
LEMMA ConsistentRest ==
  ASSUME RowsConsistent,
         UNCHANGED <<status, token, failures, slots, lease, fencedAt, outcome, updatedAt,
                     createdAt, phase, messages, closedAt>>,
         foreign' = 0 => foreign = 0 /\ UNCHANGED <<lastEventAt, revision>>
  PROVE  RowsConsistent'
PROOF
  <1> SUFFICES ASSUME NEW c \in Commands PROVE RowConsistent(c)'
    BY DEF RowsConsistent
  <1>1. SameRow(c)
    BY DEF SameRow, OwnMessages
  <1> QED BY <1>1, RowFrame DEF RowsConsistent

LEMMA ConsistentStep ==
  ASSUME InductiveInv, RowsConsistent, [Next]_vars PROVE RowsConsistent'
PROOF
  <1>0. TypeOK /\ Guarded
    BY InvSplit
  <1>1. CASE \E d \in {Draft[c] : c \in Commands} : AcceptGroup(d)
    BY <1>0, <1>1, ConsistentAccept
  <1>2. CASE \E c \in Commands, t \in 0..clock : ApplyEvent(c, t)
    <2>1. PICK c \in Commands, t \in 0..clock : ApplyEvent(c, t)
      BY <1>2
    <2>2. /\ UNCHANGED <<status, token, failures, slots, lease, fencedAt, outcome,
                         updatedAt, createdAt, phase, messages, closedAt>>
          /\ foreign' = foreign + 1
      BY <2>1 DEF ApplyEvent, leaseVars, outcomeVars
    <2>3. foreign' # 0
      BY <1>0, <2>2 DEF TypeOK, TypeRest
    <2> QED BY <2>2, <2>3, ConsistentRest
  <1>3. CASE \E r \in Runs : ClaimCommand(r)
    <2>1. PICK r \in Runs, d \in Commands :
            Claimable(d, now[r]) /\ ClaimTimeValid(d, now[r]) /\ TakeClaim(r, d)
      BY <1>3 DEF ClaimCommand, IsHead
    <2> QED BY <1>0, <2>1, ConsistentClaim
  <1>4. CASE \E r \in Runs : \/ RenewCommandLease(r) \/ RequeuePreparation(r)
                             \/ FenceDispatch(r) \/ AbandonPreparation(r)
                             \/ RecordOutcome(r)
    BY <1>0, <1>4, ConsistentRenew, ConsistentRequeue, ConsistentFence,
       ConsistentAbandon, ConsistentRecord
  <1>5. CASE ReleaseExpiredPreDispatch \/ MarkExpiredFencedUnknown
    BY <1>0, <1>5, ConsistentRelease, ConsistentMark
  <1>6. CASE \/ Tick \/ ReconcilerBegin \/ ReconcilerAborts \/ UNCHANGED vars
             \/ \E r \in Runs : \/ BeginRun(r) \/ ClaimNothing(r) \/ Prepare(r)
                                \/ StaleClaim(r) \/ Dispatch(r) \/ OutcomeRefused(r)
                                \/ Crash(r)
    <2>1. UNCHANGED <<status, token, failures, slots, lease, fencedAt, outcome, updatedAt,
                      createdAt, phase, messages, closedAt, foreign, lastEventAt, revision>>
      BY <1>6 DEF Tick, ReconcilerBegin, ReconcilerAborts, vars, BeginRun, ClaimNothing,
         Prepare, StaleClaim, Dispatch, OutcomeRefused, Crash, StoreUnchanged,
         workflowVars, leaseVars, outcomeVars
    <2> QED BY <2>1, ConsistentRest
  <1> QED BY <1>1, <1>2, <1>3, <1>4, <1>5, <1>6 DEF Next, RunStep, Reconcile

(* assert_execution_consistency, which every reconciliation starts with, never
   raises on what the store's own transactions wrote: the times of a row lie
   inside its lease and after its creation, its workflow state, counters and
   slot agree, and a closed row has exactly one message, of its outcome and
   time.  Only an event that another caller applies to the workflow can make
   the reconciler refuse. *)
THEOREM ReconcilerWorks == Spec => []ReconcilerNeverRefuses
PROOF
  <1>1. Init => RowsConsistent
    BY ConsistentInit
  <1>2. InductiveInv /\ RowsConsistent /\ [Next]_vars => RowsConsistent'
    BY ConsistentStep
  <1>3. RowsConsistent => ReconcilerNeverRefuses
    BY DEF RowsConsistent, RowConsistent, ReconcilerNeverRefuses, ExecutionConsistent,
       OutcomeMatchesHistory, OwnMessages, Accepted
  <1> QED BY <1>1, <1>2, <1>3, Inductive, PTL DEF Spec
-----------------------------------------------------------------------------
(* The initial store promises nothing yet. *)
LEMMA PromiseInit == Init => Promise!Init
PROOF
  BY DEF Init, Promise!Init, Stage

(* Steps that touch neither status, slot nor outcome, nor the provider, do
   not show. *)
LEMMA Hidden ==
  ASSUME UNCHANGED <<status, slots, outcome, calls, effects>>
  PROVE  UNCHANGED Promise!promiseVars
PROOF
  BY DEF Promise!promiseVars, Stage

(* A group is accepted whole. *)
LEMMA PromiseAccept ==
  ASSUME NEW d, InductiveInv, AcceptGroup(d)
  PROVE  Promise!Next
PROOF
  <1> DEFINE G == {c \in Commands : Draft[c] = d}
  <1>1. /\ \A c \in G : status[c] = "absent"
        /\ status' = [c \in Commands |-> IF c \in G THEN "queued" ELSE status[c]]
        /\ UNCHANGED <<slots, outcome, calls, effects>>
    BY DEF AcceptGroup, outcomeVars, providerVars
  <1>2. \A c \in G : slots[c] = 0
    BY <1>1 DEF InductiveInv, RowShape
  <1>3. Promise!Accept(G)
    BY <1>1, <1>2 DEF Promise!Accept, Stage
  <1> QED BY <1>3 DEF Promise!Next

(* A claim moves a row of the queue that nobody has committed. *)
LEMMA PromiseClaim ==
  ASSUME NEW r \in Runs, InductiveInv, ClaimCommand(r)
  PROVE  UNCHANGED Promise!promiseVars
PROOF
  <1>1. PICK c \in Commands : Claimable(c, now[r]) /\ TakeClaim(r, c)
    BY DEF ClaimCommand, IsHead
  <1>2. /\ status[c] \in {"queued", "preparing"}
        /\ status' = [status EXCEPT ![c] = "preparing"]
        /\ UNCHANGED <<slots, outcome, calls, effects>>
    BY <1>1 DEF Claimable, TakeClaim, outcomeVars, providerVars
  <1>3. status \in [Commands -> {"absent", "queued"} \cup Active \cup Settled]
    BY DEF InductiveInv, TypeOK, TypeLedger
  <1>4. Stage' = Stage
    BY <1>2, <1>3 DEF Stage
  <1> QED BY <1>2, <1>4 DEF Promise!promiseVars

(* So does a preparation that failed and may be tried again. *)
LEMMA PromiseRequeue ==
  ASSUME NEW r \in Runs, InductiveInv, RequeuePreparation(r)
  PROVE  UNCHANGED Promise!promiseVars
PROOF
  <1>1. /\ status[claim[r].command] = "preparing"
        /\ status' = [status EXCEPT ![claim[r].command] = "queued"]
        /\ UNCHANGED <<slots, outcome, calls, effects>>
    BY DEF RequeuePreparation, LiveClaim, outcomeVars, providerVars
  <1>2. status \in [Commands -> {"absent", "queued"} \cup Active \cup Settled]
    BY DEF InductiveInv, TypeOK, TypeLedger
  <1>3. Stage' = Stage
    BY <1>1, <1>2 DEF Stage
  <1> QED BY <1>1, <1>3 DEF Promise!promiseVars

(* A preparation given up reports not_called for a command that is pending. *)
LEMMA PromiseAbandon ==
  ASSUME NEW r \in Runs, InductiveInv, AbandonPreparation(r)
  PROVE  Promise!Next
PROOF
  <1> DEFINE c == claim[r].command
  <1>1. c \in Commands /\ status[c] = "preparing" /\ slots[c] = 0
    BY DEF AbandonPreparation, LiveClaim, InductiveInv, TypeOK, TypeRuns
  <1>2. outcome[c] = "none"
    BY <1>1 DEF InductiveInv, RowShape, Settled
  <1>3. /\ status \in [Commands -> {"absent", "queued"} \cup Active \cup Settled]
        /\ outcome \in [Commands -> Certainty \cup {"none"}]
    BY DEF InductiveInv, TypeOK, TypeLedger, TypeDispatch
  <1>4. /\ status' = [status EXCEPT ![c] = "outcome_recorded"]
        /\ outcome' = [outcome EXCEPT ![c] = "not_called"]
        /\ UNCHANGED <<slots, calls, effects>>
    BY DEF AbandonPreparation, Close, FinalStatus, providerVars
  <1>5. Stage' = Stage /\ Stage[c] = "pending"
    BY <1>1, <1>3, <1>4 DEF Stage
  <1>6. outcome' = [o \in Commands |-> IF o \in {c} THEN "not_called" ELSE outcome[o]]
    BY <1>3, <1>4
  <1>7. Promise!Report({c}, "not_called")
    BY <1>2, <1>4, <1>5, <1>6 DEF Promise!Report, Promise!Truthful
  <1>8. {c} \in SUBSET Commands /\ "not_called" \in Promise!Results
    BY <1>1 DEF Promise!Results
  <1> QED BY <1>7, <1>8 DEF Promise!Next

(* The fence commits.  No sibling is fenced or under review: the claim query
   excludes active siblings for as long as the claim is current, and the
   package stop read before the preparation still stands. *)
LEMMA PromiseFence ==
  ASSUME NEW r \in Runs, InductiveInv, FenceDispatch(r)
  PROVE  Promise!Next
PROOF
  <1> DEFINE c == claim[r].command
  <1>1. /\ c \in Commands /\ status[c] = "preparing" /\ slots[c] = 0
        /\ claim[r].token = token[c] /\ pc[r] = "prepared"
    BY DEF FenceDispatch, LiveClaim, InductiveInv, TypeOK, TypeRuns
  <1>2. outcome[c] = "none"
    BY <1>1 DEF InductiveInv, RowShape, Settled
  <1>3. /\ status \in [Commands -> {"absent", "queued"} \cup Active \cup Settled]
        /\ slots \in [Commands -> 0..1]
        /\ outcome \in [Commands -> Certainty \cup {"none"}]
    BY DEF InductiveInv, TypeOK, TypeLedger, TypeDispatch
  <1>4. /\ status' = [status EXCEPT ![c] = "dispatch_fenced"]
        /\ slots' = [slots EXCEPT ![c] = 1]
        /\ UNCHANGED <<outcome, calls, effects>>
    BY DEF FenceDispatch, outcomeVars, providerVars
  <1>5. Stage[c] = "pending" /\ Stage' = [Stage EXCEPT ![c] = "committed"]
    BY <1>1, <1>3, <1>4 DEF Stage
  <1>6. ASSUME NEW o \in Commands \ {c}, Draft[o] = Draft[c], Stage[o] = "committed"
        PROVE  outcome[o] \in {"effect_confirmed", "called_no_effect"}
    <2>1. slots[o] = 1 /\ o \in Siblings(c)
      BY <1>6 DEF Stage, Siblings
    <2>2. status[o] # "manual_review"
      BY <1>1, <2>1 DEF InductiveInv, ClaimCurrent
    <2>3. status[o] \notin Active
      BY <1>1, <2>1 DEF InductiveInv, PackageExclusive, Active
    <2>4. status[o] = "outcome_recorded"
      BY <1>3, <2>1, <2>2, <2>3 DEF InductiveInv, RowShape, Settled
    <2> QED BY <1>3, <2>1, <2>4 DEF InductiveInv, RowShape, Certainty
  <1>7. Promise!Commit(c)
    BY <1>2, <1>4, <1>5, <1>6 DEF Promise!Commit
  <1> QED BY <1>1, <1>7 DEF Promise!Next

(* The call is the one request of a committed command, or is never made. *)
LEMMA PromiseDispatch ==
  ASSUME NEW r \in Runs, InductiveInv, Dispatch(r)
  PROVE  Promise!Next \/ UNCHANGED Promise!promiseVars
PROOF
  <1> DEFINE c == claim[r].command
  <1>1. /\ c \in Commands /\ slots[c] = 1 /\ calls[c] = 0 /\ effects[c] = 0
        /\ status[c] \in {"dispatch_fenced", "manual_review"}
    <2>1. c \in Commands /\ pc[r] = "fenced"
      BY DEF Dispatch, InductiveInv, TypeOK, TypeRuns
    <2>2. calls[c] = 0
      BY <2>1 DEF InductiveInv, SlotOwner
    <2>3. effects[c] = 0
      BY <2>1, <2>2 DEF InductiveInv, AtMostOneCall, TypeOK, TypeRest
    <2> QED BY <2>1, <2>2, <2>3 DEF InductiveInv, SlotOwner, InCall
  <1>2. Stage[c] = "committed" /\ outcome[c] \in {"none", "called_unknown"}
    BY <1>1 DEF Stage, InductiveInv, RowShape, Settled
  <1>3. UNCHANGED <<status, slots, outcome>>
    BY DEF Dispatch, leaseVars, outcomeVars
  <1>4. Stage' = Stage
    BY <1>3 DEF Stage
  <1>5. CASE UNCHANGED providerVars
    BY <1>3, <1>5, Hidden DEF providerVars
  <1>6. CASE ~UNCHANGED providerVars
    <2>1. PICK made \in BOOLEAN :
            /\ calls' = [calls EXCEPT ![c] = @ + 1]
            /\ effects' = [effects EXCEPT ![c] = IF made THEN @ + 1 ELSE @]
      BY <1>6 DEF Dispatch
    <2>2. /\ calls \in [Commands -> Nat] /\ effects \in [Commands -> Nat]
      BY DEF InductiveInv, TypeOK, TypeRest
    <2>3. calls' = [calls EXCEPT ![c] = 1]
      BY <1>1, <2>1, <2>2
    <2>4. \/ effects' = [effects EXCEPT ![c] = 1]
          \/ effects' = [effects EXCEPT ![c] = 0]
      <3>1. CASE made
        BY <1>1, <2>1, <2>2, <3>1
      <3>2. CASE ~made
        BY <1>1, <2>1, <2>2, <3>2
      <3> QED BY <3>1, <3>2
    <2>5. Promise!Call(c, 1) \/ Promise!Call(c, 0)
      BY <1>1, <1>2, <1>3, <1>4, <2>3, <2>4 DEF Promise!Call
    <2> QED BY <1>1, <2>5 DEF Promise!Next
  <1> QED BY <1>5, <1>6

(* The worker reports what the provider's answer proves. *)
LEMMA PromiseRecord ==
  ASSUME NEW r \in Runs, InductiveInv, RecordOutcome(r)
  PROVE  Promise!Next
PROOF
  <1> DEFINE c == claim[r].command
             v == answer[r]
  <1>1. /\ c \in Commands /\ status[c] = "dispatch_fenced" /\ slots[c] = 1
        /\ outcome[c] = "none" /\ pc[r] = "called"
    BY DEF RecordOutcome, LivePermit, InductiveInv, TypeOK, TypeRuns
  <1>2. /\ v \in Certainty \ {"not_called"}
        /\ v = "effect_confirmed" => effects[c] = 1
        /\ v = "called_no_effect" => calls[c] = 1 /\ effects[c] = 0
    BY <1>1 DEF InductiveInv, AnswerTruthful
  <1>3. /\ status \in [Commands -> {"absent", "queued"} \cup Active \cup Settled]
        /\ outcome \in [Commands -> Certainty \cup {"none"}]
    BY DEF InductiveInv, TypeOK, TypeLedger, TypeDispatch
  <1>4. /\ status' = [status EXCEPT ![c] = FinalStatus(v)]
        /\ outcome' = [outcome EXCEPT ![c] = v]
        /\ UNCHANGED <<slots, calls, effects>>
    BY DEF RecordOutcome, Close, providerVars
  <1>5. FinalStatus(v) # "absent"
    BY DEF FinalStatus
  <1>6. Stage' = Stage /\ Stage[c] = "committed"
    BY <1>1, <1>3, <1>4, <1>5 DEF Stage
  <1>7. outcome' = [o \in Commands |-> IF o \in {c} THEN v ELSE outcome[o]]
    BY <1>3, <1>4
  <1>8. Promise!Report({c}, v)
    BY <1>1, <1>2, <1>4, <1>6, <1>7 DEF Promise!Report, Promise!Truthful, Certainty
  <1>9. {c} \in SUBSET Commands /\ v \in Promise!Results
    BY <1>1, <1>2 DEF Promise!Results, Certainty
  <1> QED BY <1>8, <1>9 DEF Promise!Next

(* An expired lease of a preparation goes back to the queue, still pending. *)
LEMMA PromiseRelease ==
  ASSUME InductiveInv, ReleaseExpiredPreDispatch
  PROVE  UNCHANGED Promise!promiseVars
PROOF
  <1>1. /\ status' = [c \in Commands |-> IF ExpiredPreparation(c) THEN "queued" ELSE status[c]]
        /\ UNCHANGED <<slots, outcome, calls, effects>>
    BY DEF ReleaseExpiredPreDispatch, outcomeVars, providerVars
  <1>2. \A c \in Commands : (status'[c] = "absent") = (status[c] = "absent")
    BY <1>1 DEF ExpiredPreparation
  <1>3. Stage' = Stage
    BY <1>1, <1>2 DEF Stage
  <1> QED BY <1>1, <1>3 DEF Promise!promiseVars

(* The reconciler reports all expired fences as unknown, in one step. *)
LEMMA PromiseMark ==
  ASSUME InductiveInv, MarkExpiredFencedUnknown
  PROVE  Promise!Next
PROOF
  <1>1. \A c \in FencesExpired : /\ c \in Commands
                                 /\ status[c] = "dispatch_fenced" /\ slots[c] = 1
    BY DEF FencesExpired, ExpiredFence
  <1>2. \A c \in FencesExpired : outcome[c] = "none"
    BY <1>1 DEF InductiveInv, RowShape, Settled
  <1>3. /\ status' = [c \in Commands |-> IF c \in FencesExpired THEN "manual_review" ELSE status[c]]
        /\ outcome' = [c \in Commands |-> IF c \in FencesExpired THEN "called_unknown" ELSE outcome[c]]
        /\ UNCHANGED <<slots, calls, effects>>
    BY DEF MarkExpiredFencedUnknown, providerVars
  <1>4. Stage' = Stage /\ \A c \in FencesExpired : Stage[c] = "committed"
    BY <1>1, <1>3 DEF Stage
  <1>5. Promise!Report(FencesExpired, "called_unknown")
    BY <1>2, <1>3, <1>4 DEF Promise!Report, Promise!Truthful
  <1>6. FencesExpired \in SUBSET Commands /\ "called_unknown" \in Promise!Results
    BY <1>1 DEF Promise!Results
  <1> QED BY <1>5, <1>6 DEF Promise!Next

LEMMA PromiseStep == InductiveInv /\ [Next]_vars => [Promise!Next]_(Promise!promiseVars)
PROOF
  <1> SUFFICES ASSUME InductiveInv, [Next]_vars
               PROVE  Promise!Next \/ UNCHANGED Promise!promiseVars
    OBVIOUS
  <1>1. CASE \E d \in {Draft[c] : c \in Commands} : AcceptGroup(d)
    BY <1>1, PromiseAccept
  <1>2. CASE \E r \in Runs : ClaimCommand(r) \/ RequeuePreparation(r)
    BY <1>2, PromiseClaim, PromiseRequeue
  <1>3. CASE \E r \in Runs : AbandonPreparation(r) \/ FenceDispatch(r) \/ RecordOutcome(r)
    BY <1>3, PromiseAbandon, PromiseFence, PromiseRecord
  <1>4. CASE \E r \in Runs : Dispatch(r)
    BY <1>4, PromiseDispatch
  <1>5. CASE ReleaseExpiredPreDispatch
    BY <1>5, PromiseRelease
  <1>6. CASE MarkExpiredFencedUnknown
    BY <1>6, PromiseMark
  <1>7. CASE UNCHANGED <<status, slots, outcome, calls, effects>>
    BY <1>7, Hidden
  <1> QED
    BY <1>1, <1>2, <1>3, <1>4, <1>5, <1>6, <1>7
    DEF Next, RunStep, Reconcile, Tick, ApplyEvent, BeginRun, ClaimNothing,
        Prepare, StaleClaim, OutcomeRefused, Crash, RenewCommandLease,
        ReconcilerBegin, ReconcilerAborts, StoreUnchanged, vars, leaseVars,
        outcomeVars, providerVars

(* The durable ledger with its workers and its reconciler implements the
   promise made to the boundary and the customer, for any number of commands,
   packages and runs and whatever the leases, budgets and events. *)
THEOREM ImplementsPromise == Spec => KeepsPromise
PROOF
  BY PromiseInit, PromiseStep, Inductive, PTL DEF Spec, KeepsPromise, Promise!Spec
=============================================================================
