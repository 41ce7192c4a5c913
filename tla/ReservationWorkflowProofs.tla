--------------------- MODULE ReservationWorkflowProofs ---------------------
(***************************************************************************)
(* Proofs about ReservationWorkflow for every set of queries, offers and   *)
(* terms and every bound: the invariant is inductive, so a command is      *)
(* always an authorized one and reduce always returns a valid state.       *)
(***************************************************************************)
EXTENDS ReservationWorkflow, TLAPS

(* The phase sets, expanded once. *)
USE DEF DraftPhases, SearchPhases, ResultPhases, CommandPhases, ClosedPhases

(* Times are numbers, and advancing to a time of the model stays in it. *)
LEMMA AdvanceFacts ==
  ASSUME TypeOK, NEW t \in Times, Advance(t)
  PROVE  /\ lastEventAt \in Nat /\ lastEventAt' \in Times /\ lastEventAt' \in Nat
         /\ t \in Nat /\ lastEventAt' >= t /\ lastEventAt' >= lastEventAt
PROOF
  BY WorkflowBounds DEF TypeOK, Times, Advance, Later

LEMMA NoneIsStamp == None \in Stamp
PROOF
  BY WorkflowBounds DEF None, Stamp, Times

LEMMA InitInductive == Init => InductiveInv
PROOF
  <1> SUFFICES ASSUME Init PROVE InductiveInv
    OBVIOUS
  <1>1. TypeOK
    BY NoneIsStamp, WorkflowBounds DEF Init, TypeOK, Times, Phases
  <1>2. phase \notin CommandPhases \cup DraftPhases \cup {"offered", "selected"}
    BY DEF Init
  <1> QED
    BY <1>1, <1>2 DEF Init, InductiveInv, StateConsistent, CommandAuthorized,
       OrderAnswersRequest, PresentationCurrent

(* An event without effect: only the time moves, and it moves forward. *)
LEMMA UnappliedPreserves ==
  ASSUME InductiveInv, NEW t \in Times, Unapplied(t)
  PROVE  InductiveInv'
PROOF
  <1>1. TypeOK /\ lastEventAt' \in Times
    BY AdvanceFacts DEF InductiveInv, Unapplied
  <1>2. TypeOK'
    BY <1>1 DEF TypeOK, Unapplied, lookupVars, orderVars
  <1>3. UNCHANGED <<phase, query, found, freshUntil, offer, draft, summary,
                    decision, command, shown, issued>>
    BY DEF Unapplied, lookupVars, orderVars
  <1>4. lastEventAt' >= lastEventAt /\ lastEventAt \in Nat /\ lastEventAt' \in Nat
    BY <1>1, AdvanceFacts DEF Unapplied
  <1>5. /\ draft.at \in Nat /\ summary.at \in Nat /\ decision.at \in Nat
        /\ command.at \in Nat
    BY <1>1, WorkflowBounds DEF TypeOK, Stamp, Times
  <1>6. StateConsistent'
    BY <1>3, <1>4, <1>5 DEF InductiveInv, StateConsistent, SummaryBinds,
       DecisionBinds, Later
  <1>7. CommandAuthorized' /\ OrderAnswersRequest'
    BY <1>3 DEF InductiveInv, CommandAuthorized, OrderAnswersRequest
  <1>8. PresentationCurrent'
    BY <1>3, <1>4, <1>5 DEF InductiveInv, PresentationCurrent
  <1> QED BY <1>2, <1>6, <1>7, <1>8 DEF InductiveInv

(* A workflow without lookup, draft and command satisfies all that is said of
   those; it is what searching, cancelling and expiring leave behind. *)
LEMMA ForgetPreserves ==
  ASSUME InductiveInv, NEW t \in Times, Advance(t), ForgetOrder,
         phase \in PreCommand, query' \in Queries \cup {"none"},
         phase' \in {"searching", "cancelled", "expired"}
  PROVE  InductiveInv'
PROOF
  <1>1. lastEventAt' \in Times
    BY AdvanceFacts DEF InductiveInv
  <1>2. TypeOK'
    BY <1>1, NoneIsStamp, WorkflowBounds DEF InductiveInv, TypeOK, ForgetOrder, Phases
  <1>3. issued' = 0
    BY DEF InductiveInv, StateConsistent, ForgetOrder, PreCommand
  <1> QED
    BY <1>2, <1>3 DEF InductiveInv, StateConsistent, CommandAuthorized,
       OrderAnswersRequest, PresentationCurrent

LEMMA SearchPreserves ==
  ASSUME InductiveInv, NEW t \in Times, SearchStep(t)
  PROVE  InductiveInv'
PROOF
  <1>1. CASE \E q \in Queries : StartSearch(t, q)
    BY <1>1, ForgetPreserves DEF StartSearch
  <1>2. CASE \E q \in Queries, until \in 0..(MaxTime + 1), offers \in SUBSET Offers :
               LookupRecorded(t, q, until, offers)
    <2>1. PICK q \in Queries, until \in 0..(MaxTime + 1), offers \in SUBSET Offers :
            LookupRecorded(t, q, until, offers)
      BY <1>2
    <2>2. lastEventAt' \in Times
      BY <2>1, AdvanceFacts DEF InductiveInv, LookupRecorded
    <2>3. TypeOK'
      BY <2>1, <2>2 DEF InductiveInv, TypeOK, LookupRecorded, Phases, orderVars
    <2>4. issued' = 0 /\ phase' = "offered" /\ found' # {} /\ query' = query
          /\ \A o \in found' : OfferQuery[o] = query'
      BY <2>1 DEF InductiveInv, StateConsistent, LookupRecorded, LookupValid, orderVars
    <2> QED
      BY <2>3, <2>4 DEF InductiveInv, StateConsistent, CommandAuthorized,
         OrderAnswersRequest, PresentationCurrent
  <1>3. CASE \E o \in Offers : OfferChosen(t, o)
    <2>1. PICK o \in Offers : OfferChosen(t, o)
      BY <1>3
    <2>2. lastEventAt' \in Times
      BY <2>1, AdvanceFacts DEF InductiveInv, OfferChosen
    <2>3. TypeOK'
      BY <2>1, <2>2 DEF InductiveInv, TypeOK, OfferChosen, Phases, orderVars
    <2>4. issued' = 0 /\ phase' = "selected" /\ OfferQuery[offer'] = query'
          /\ offer' \in Offers
      BY <2>1 DEF InductiveInv, StateConsistent, OfferChosen, orderVars
    <2> QED
      BY <2>3, <2>4 DEF InductiveInv, StateConsistent, CommandAuthorized,
         OrderAnswersRequest, PresentationCurrent
  <1> QED BY <1>1, <1>2, <1>3 DEF SearchStep

(* Any step that leaves a fresh draft waiting for its summary. *)
LEMMA NewDraftPreserves ==
  ASSUME InductiveInv, NEW t \in Times, Advance(t), phase \in PreCommand,
         phase' = "ready_to_summarize", NEW s \in Subjects, NEW v \in Nat,
         draft' = [subject |-> s, version |-> v, at |-> t], v > 0,
         summary' \in Stamp, decision' \in Stamp,
         OfferQuery[s.offer] = query, v = 1 => t < freshUntil,
         UNCHANGED <<lookupVars, command, shown, issued>>
  PROVE  InductiveInv'
PROOF
  <1>1. lastEventAt' \in Times /\ lastEventAt' \in Nat /\ t \in Nat /\ lastEventAt' >= t
    BY AdvanceFacts DEF InductiveInv
  <1>2. draft' \in Stamp /\ draft'.subject = s /\ draft'.version = v /\ draft'.at = t
    BY DEF Stamp
  <1>3. TypeOK'
    BY <1>1, <1>2 DEF InductiveInv, TypeOK, Phases, lookupVars
  <1>4. issued' = 0
    BY DEF InductiveInv, StateConsistent, PreCommand
  <1>5. StateConsistent'
    BY <1>1, <1>2, <1>4 DEF StateConsistent
  <1>6. CommandAuthorized' /\ PresentationCurrent'
    BY <1>2 DEF CommandAuthorized, PresentationCurrent
  <1>7. OrderAnswersRequest'
    BY <1>2 DEF OrderAnswersRequest, lookupVars
  <1> QED BY <1>3, <1>5, <1>6, <1>7 DEF InductiveInv

LEMMA DraftPreserves ==
  ASSUME InductiveInv, NEW t \in Times, DraftStep(t)
  PROVE  InductiveInv'
PROOF
  <1>1. CASE \E terms \in Terms : DraftRequested(t, terms)
    <2>1. PICK terms \in Terms : DraftRequested(t, terms)
      BY <1>1
    <2> DEFINE s == [offer |-> offer, terms |-> terms]
    <2>2. s \in Subjects /\ OfferQuery[s.offer] = query
      BY <2>1 DEF InductiveInv, PresentationCurrent, StateConsistent,
         DraftRequested, Subjects
    <2>3. draft' = [subject |-> s, version |-> 1, at |-> t] /\ t < freshUntil
          /\ phase \in PreCommand /\ phase' = "ready_to_summarize"
      BY <2>1 DEF DraftRequested, EvidenceFresh, PreCommand
    <2>4. summary' \in Stamp /\ decision' \in Stamp
      BY <2>1 DEF InductiveInv, TypeOK, DraftRequested
    <2>5. UNCHANGED <<lookupVars, command, shown, issued>> /\ Advance(t)
      BY <2>1 DEF DraftRequested
    <2> HIDE DEF s
    <2> QED BY <2>2, <2>3, <2>4, <2>5, NewDraftPreserves
  <1>2. CASE \E terms \in Terms : DraftAdjusted(t, terms)
    <2>1. PICK terms \in Terms : DraftAdjusted(t, terms)
      BY <1>2
    <2> DEFINE s == [offer |-> draft.subject.offer, terms |-> terms]
               v == draft.version + 1
    <2>2. draft.subject \in Subjects /\ OfferQuery[draft.subject.offer] = query
      BY <2>1 DEF InductiveInv, PresentationCurrent, OrderAnswersRequest, DraftAdjusted
    <2>3. s \in Subjects /\ OfferQuery[s.offer] = query
      BY <2>2 DEF Subjects
    <2>4. v \in Nat /\ (v = 1 => draft.version = 0)
      BY DEF InductiveInv, TypeOK, Stamp
    <2>5. draft.version # 0 /\ v > 0
      BY <2>1, <2>4 DEF InductiveInv, TypeOK, Stamp, PresentationCurrent, DraftAdjusted
    <2>6. draft' = [subject |-> s, version |-> v, at |-> t]
          /\ phase \in PreCommand /\ phase' = "ready_to_summarize"
      BY <2>1 DEF DraftAdjusted, PreCommand
    <2>7. summary' \in Stamp /\ decision' \in Stamp
      BY <2>1, NoneIsStamp DEF DraftAdjusted
    <2>8. UNCHANGED <<lookupVars, command, shown, issued>> /\ Advance(t)
      BY <2>1 DEF DraftAdjusted
    <2> HIDE DEF s, v
    <2> QED BY <2>3, <2>4, <2>5, <2>6, <2>7, <2>8, NewDraftPreserves
  <1>3. CASE WorkflowCancelled(t) \/ WorkflowExpired(t)
    BY <1>3, ForgetPreserves DEF WorkflowCancelled, WorkflowExpired, InductiveInv, TypeOK
  <1> QED BY <1>1, <1>2, <1>3 DEF DraftStep
-----------------------------------------------------------------------------
(* A summary is recorded: it is the one the lead is sent, of this draft. *)
LEMMA SummaryPreserves ==
  ASSUME InductiveInv, NEW t \in Times, NEW version \in 1..MaxVersion,
         NEW subject \in Subjects, SummaryRecorded(t, version, subject)
  PROVE  InductiveInv'
PROOF
  <1>1. lastEventAt' \in Times /\ lastEventAt' \in Nat /\ t \in Nat
        /\ lastEventAt' >= t /\ lastEventAt' >= lastEventAt /\ lastEventAt \in Nat
    BY AdvanceFacts DEF InductiveInv, SummaryRecorded
  <1>2. /\ version = draft.version /\ subject = draft.subject /\ t >= draft.at
        /\ phase = "ready_to_summarize" /\ phase' = "awaiting_confirmation"
        /\ summary' = [subject |-> draft.subject, version |-> draft.version, at |-> t]
        /\ shown' = [subject |-> subject, version |-> version, at |-> t]
        /\ UNCHANGED <<query, found, freshUntil, offer, draft, decision, command, issued>>
    BY DEF SummaryRecorded, SummaryMatches, lookupVars
  <1>3. /\ draft.at \in Nat /\ draft.version \in Nat
        /\ draft.subject \in Subjects /\ version > 0
    BY <1>2, WorkflowBounds DEF InductiveInv, TypeOK, Stamp, Times, PresentationCurrent
  <1>4. shown' = summary'
    BY <1>2
  <1>5. summary' \in Stamp /\ shown' \in Stamp
    BY <1>2, <1>3 DEF Stamp
  <1>6. /\ summary'.subject = draft.subject /\ summary'.version = draft.version
        /\ summary'.at = t
    BY <1>2
  <1>7. TypeOK'
    BY <1>1, <1>2, <1>5 DEF InductiveInv, TypeOK, Phases
  <1>8. StateConsistent'
    BY <1>1, <1>2, <1>3, <1>6 DEF InductiveInv, StateConsistent, SummaryBinds
  <1>9. CommandAuthorized' /\ PresentationCurrent'
    BY <1>1, <1>2, <1>3, <1>4, <1>6 DEF CommandAuthorized, PresentationCurrent
  <1>10. OrderAnswersRequest'
    BY <1>2 DEF InductiveInv, OrderAnswersRequest
  <1> QED BY <1>7, <1>8, <1>9, <1>10 DEF InductiveInv

(* What any answer of the lead that reaches its handler is known to be: an
   answer to the summary the lead was sent last. *)
LEMMA AnswerFacts ==
  ASSUME InductiveInv, NEW t \in Times, NEW version \in 1..MaxVersion,
         NEW subject \in Subjects, ConfirmationReceived(t, version, subject)
  PROVE  /\ lastEventAt' \in Times /\ lastEventAt' \in Nat /\ lastEventAt \in Nat
         /\ t \in Nat /\ lastEventAt' >= t /\ lastEventAt' >= lastEventAt
         /\ phase = "awaiting_confirmation" /\ issued = 0
         /\ version = draft.version /\ subject = draft.subject /\ version \in Nat
         /\ shown = summary /\ SummaryBinds /\ t > summary.at
         /\ draft.at \in Nat /\ summary.at \in Nat
         /\ draft.at <= lastEventAt /\ summary.at <= lastEventAt
         /\ query' = query /\ shown' = shown
PROOF
  <1>1. TypeOK /\ Advance(t)
    BY DEF InductiveInv, ConfirmationReceived
  <1>2. phase = "awaiting_confirmation"
    BY DEF ConfirmationReceived
  <1>3. /\ draft.at \in Nat /\ summary.at \in Nat
        /\ draft.version \in Nat
    BY <1>1, WorkflowBounds DEF TypeOK, Stamp, Times
  <1>4. issued = 0 /\ SummaryBinds /\ draft.at <= lastEventAt
    BY <1>2 DEF InductiveInv, StateConsistent
  <1>5. shown = summary /\ summary.at <= lastEventAt
    BY <1>2 DEF InductiveInv, PresentationCurrent
  <1>6. version = draft.version /\ subject = draft.subject /\ t > summary.at
        /\ query' = query /\ shown' = shown
    BY DEF ConfirmationReceived, AnswersSummary
  <1> QED BY <1>1, <1>2, <1>3, <1>4, <1>5, <1>6, AdvanceFacts

LEMMA AdjustmentPreserves ==
  ASSUME InductiveInv, NEW t \in Times, NEW version \in 1..MaxVersion,
         NEW subject \in Subjects, AskAdjustment(t, version, subject)
  PROVE  InductiveInv'
PROOF
  <1> DEFINE d == [subject |-> subject, version |-> version, at |-> t]
  <1>1. ConfirmationReceived(t, version, subject)
    BY DEF AskAdjustment
  <1>2. phase' = "awaiting_adjustment" /\ decision' = d
        /\ UNCHANGED <<found, freshUntil, offer, draft, summary, command, issued>>
    BY DEF AskAdjustment
  <1>3. d \in Stamp /\ d.subject = subject /\ d.version = version /\ d.at = t
    BY <1>1, AnswerFacts DEF Stamp
  <1> HIDE DEF d
  <1>4. TypeOK'
    BY <1>1, <1>2, <1>3, AnswerFacts DEF InductiveInv, TypeOK, Phases
  <1>5. SummaryBinds' /\ DecisionBinds'
    BY <1>1, <1>2, <1>3, AnswerFacts DEF SummaryBinds, DecisionBinds
  <1>6. StateConsistent'
    BY <1>1, <1>2, <1>3, <1>5, AnswerFacts DEF StateConsistent, Later
  <1>7. CommandAuthorized' /\ PresentationCurrent'
    BY <1>1, <1>2, AnswerFacts DEF InductiveInv, CommandAuthorized, PresentationCurrent
  <1>8. OrderAnswersRequest'
    BY <1>1, <1>2, AnswerFacts DEF InductiveInv, OrderAnswersRequest
  <1> QED BY <1>4, <1>6, <1>7, <1>8 DEF InductiveInv

(* The step that creates the command. *)
LEMMA AcceptPreserves ==
  ASSUME InductiveInv, NEW t \in Times, NEW version \in 1..MaxVersion,
         NEW subject \in Subjects, AcceptDraft(t, version, subject)
  PROVE  InductiveInv'
PROOF
  <1> DEFINE d == [subject |-> subject, version |-> version, at |-> t]
  <1>1. ConfirmationReceived(t, version, subject)
    BY DEF AcceptDraft
  <1>2. phase' = "execution_queued" /\ decision' = d /\ command' = d
        /\ issued' = issued + 1
        /\ UNCHANGED <<found, freshUntil, offer, draft, summary>>
    BY <1>1, AnswerFacts DEF AcceptDraft
  <1>3. d \in Stamp /\ d.subject = subject /\ d.version = version /\ d.at = t
    BY <1>1, AnswerFacts DEF Stamp
  <1> HIDE DEF d
  <1>4. TypeOK'
    BY <1>1, <1>2, <1>3, AnswerFacts DEF InductiveInv, TypeOK, Phases
  <1>5. SummaryBinds' /\ DecisionBinds'
    BY <1>1, <1>2, <1>3, AnswerFacts DEF SummaryBinds, DecisionBinds
  <1>6. StateConsistent'
    BY <1>1, <1>2, <1>3, <1>5, AnswerFacts DEF StateConsistent, Later
  <1>7. CommandAuthorized'
    BY <1>1, <1>2, <1>3, AnswerFacts DEF CommandAuthorized, SummaryBinds
  <1>8. OrderAnswersRequest' /\ PresentationCurrent'
    BY <1>1, <1>2, AnswerFacts DEF InductiveInv, OrderAnswersRequest, PresentationCurrent
  <1> QED BY <1>4, <1>6, <1>7, <1>8 DEF InductiveInv

LEMMA LeadPreserves ==
  ASSUME InductiveInv, NEW t \in Times, LeadStep(t)
  PROVE  InductiveInv'
PROOF
  <1>1. PICK version \in 1..MaxVersion, subject \in Subjects :
          \/ SummaryRecorded(t, version, subject)
          \/ RejectDraft(t, version, subject)
          \/ AskAdjustment(t, version, subject)
          \/ AnswerAmbiguously(t, version, subject)
          \/ AcceptDraft(t, version, subject)
    BY DEF LeadStep
  <1>2. CASE SummaryRecorded(t, version, subject)
    BY <1>2, SummaryPreserves
  <1>3. CASE RejectDraft(t, version, subject)
    <2>1. Advance(t) /\ ForgetOrder /\ phase = "awaiting_confirmation"
          /\ query' = query /\ phase' = "cancelled"
      BY <1>3 DEF RejectDraft, ConfirmationReceived
    <2>2. phase \in PreCommand /\ query' \in Queries \cup {"none"}
      BY <2>1 DEF InductiveInv, TypeOK, PreCommand
    <2> QED BY <2>1, <2>2, ForgetPreserves
  <1>4. CASE AskAdjustment(t, version, subject)
    BY <1>4, AdjustmentPreserves
  <1>5. CASE AnswerAmbiguously(t, version, subject)
    BY <1>5, UnappliedPreserves DEF AnswerAmbiguously, ConfirmationReceived, Unapplied
  <1>6. CASE AcceptDraft(t, version, subject)
    BY <1>6, AcceptPreserves
  <1> QED BY <1>1, <1>2, <1>3, <1>4, <1>5, <1>6

(* The operational events move a command's phase and nothing else of it. *)
LEMMA ExecutionPreserves ==
  ASSUME InductiveInv, NEW t \in Times, ExecutionStep(t)
  PROVE  InductiveInv'
PROOF
  <1>1. Advance(t) /\ UNCHANGED <<lookupVars, orderVars>>
    BY DEF ExecutionStep, ExecutionStarted, ExecutionFinished, ManualReviewRequested
  <1>2. /\ phase \in CommandPhases
        /\ \/ phase = "execution_queued" /\ phase' = "executing"
           \/ phase' \in ResultPhases
    BY DEF ExecutionStep, ExecutionStarted, ExecutionFinished,
       ManualReviewRequested, Finishable
  <1>3. UNCHANGED <<query, found, freshUntil, offer, draft, summary,
                    decision, command, shown, issued>>
    BY <1>1 DEF lookupVars, orderVars
  <1>4. /\ lastEventAt' \in Times /\ lastEventAt' \in Nat
        /\ lastEventAt \in Nat /\ lastEventAt' >= lastEventAt
    BY <1>1, AdvanceFacts DEF InductiveInv
  <1>5. /\ draft.at \in Nat /\ summary.at \in Nat /\ decision.at \in Nat
        /\ command.at \in Nat
    BY WorkflowBounds DEF InductiveInv, TypeOK, Stamp, Times
  <1>6. TypeOK'
    BY <1>2, <1>3, <1>4 DEF InductiveInv, TypeOK, Phases
  <1>7. issued = 1 /\ command.at <= lastEventAt
    BY <1>2 DEF InductiveInv, StateConsistent
  <1>8. CASE phase = "execution_queued" /\ phase' = "executing"
    <2>1. StateConsistent'
      BY <1>3, <1>4, <1>5, <1>7, <1>8 DEF InductiveInv, StateConsistent,
         SummaryBinds, DecisionBinds, Later
    <2> QED
      BY <1>3, <1>6, <1>8, <2>1 DEF InductiveInv, CommandAuthorized,
         OrderAnswersRequest, PresentationCurrent
  <1>9. CASE phase' \in ResultPhases
    <2>1. StateConsistent'
      BY <1>3, <1>4, <1>5, <1>7, <1>9 DEF StateConsistent
    <2> QED
      BY <1>2, <1>3, <1>6, <1>9, <2>1 DEF InductiveInv, CommandAuthorized,
         OrderAnswersRequest, PresentationCurrent
  <1> QED BY <1>2, <1>8, <1>9

(* Every event preserves the invariant. *)
LEMMA NextPreserves == InductiveInv /\ [Next]_vars => InductiveInv'
PROOF
  <1> SUFFICES ASSUME InductiveInv, [Next]_vars PROVE InductiveInv'
    OBVIOUS
  <1>1. CASE Next
    BY <1>1, UnappliedPreserves, SearchPreserves, DraftPreserves,
       LeadPreserves, ExecutionPreserves DEF Next
  <1>2. CASE UNCHANGED vars
    <2>1. UNCHANGED <<phase, lastEventAt, query, found, freshUntil, offer, draft,
                      summary, decision, command, shown, issued>>
      BY <1>2 DEF vars, lookupVars, orderVars
    <2> QED
      BY <2>1 DEF InductiveInv, TypeOK, StateConsistent, SummaryBinds, DecisionBinds,
         CommandAuthorized, OrderAnswersRequest, PresentationCurrent
  <1> QED BY <1>1, <1>2
-----------------------------------------------------------------------------
(* The strengthened invariant of the reducer holds for every event history. *)
THEOREM WorkflowInductive == Spec => []InductiveInv
PROOF
  BY InitInductive, NextPreserves, PTL DEF Spec

(* Every field of a workflow keeps its type, whatever events arrive. *)
THEOREM WorkflowTypeCorrect == Spec => []TypeOK
PROOF
  <1>1. InductiveInv => TypeOK BY DEF InductiveInv
  <1> QED BY <1>1, WorkflowInductive, PTL

(* reduce never returns a state its validators refuse: no handler can be made
   to raise by the order, the age or the contents of the events before it. *)
THEOREM ReducerNeverInvalid == Spec => []StateConsistent
PROOF
  <1>1. InductiveInv => StateConsistent BY DEF InductiveInv
  <1> QED BY <1>1, WorkflowInductive, PTL

(* A command always stands for the summary the lead was sent last and for an
   answer to that very version, given after it. *)
THEOREM CommandsAuthorized == Spec => []CommandAuthorized
PROOF
  <1>1. InductiveInv => CommandAuthorized BY DEF InductiveInv
  <1> QED BY <1>1, WorkflowInductive, PTL

(* What is drafted or ordered is an offer for the lead's last request. *)
THEOREM OrdersAnswerRequests == Spec => []OrderAnswersRequest
PROOF
  <1>1. InductiveInv => OrderAnswersRequest BY DEF InductiveInv
  <1> QED BY <1>1, WorkflowInductive, PTL

(* No event revokes, alters or repeats a command, or revives a workflow that
   was cancelled or has expired. *)
THEOREM CommandsFinal == Spec => CommittedIsFinal
PROOF
  <1> DEFINE Final ==
        /\ phase \in CommandPhases =>
             /\ UNCHANGED <<query, draft, summary, decision, command, shown, issued>>
             /\ \/ phase' = phase
                \/ phase = "execution_queued" /\ phase' = "executing"
                \/ phase = "executing" /\ phase' \in ResultPhases \ {"manual_review"}
                \/ phase = "uncertain" /\ phase' = "manual_review"
        /\ phase \in ClosedPhases => phase' = phase /\ issued' = issued
  <1>1. ASSUME NEW t \in Times, Unapplied(t) PROVE Final
    BY <1>1 DEF Unapplied, lookupVars, orderVars
  <1>2. ASSUME NEW t \in Times, SearchStep(t) PROVE Final
    BY <1>2 DEF SearchStep, StartSearch, LookupRecorded, OfferChosen, PreCommand
  <1>3. ASSUME NEW t \in Times, DraftStep(t) PROVE Final
    BY <1>3 DEF DraftStep, DraftRequested, DraftAdjusted, WorkflowCancelled,
       WorkflowExpired, PreCommand
  <1>4. ASSUME NEW t \in Times, LeadStep(t) PROVE Final
    BY <1>4 DEF LeadStep, SummaryRecorded, RejectDraft, AskAdjustment,
       AnswerAmbiguously, AcceptDraft, ConfirmationReceived
  <1>5. ASSUME NEW t \in Times, ExecutionStep(t) PROVE Final
    BY <1>5 DEF ExecutionStep, ExecutionStarted, ExecutionFinished,
       ManualReviewRequested, Finishable, lookupVars, orderVars
  <1>6. [Next]_vars => [Final]_vars
    <2>1. Next => Final
      BY <1>1, <1>2, <1>3, <1>4, <1>5 DEF Next
    <2> HIDE DEF Final
    <2> QED BY <2>1
  <1> QED BY <1>6, PTL DEF Spec, CommittedIsFinal
=============================================================================
