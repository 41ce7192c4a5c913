------------------------ MODULE ReservationWorkflow ------------------------
(***************************************************************************)
(* The commercial workflow of one reservation: reservation_domain's pure   *)
(* reduce(state, event), as SQLiteUnitOfWork.apply_event persists it.      *)
(*                                                                         *)
(* One action below is one event taken by its handler; the event carries   *)
(* any time, version and signature, so late, replayed and out-of-order     *)
(* deliveries are all included.  An event whose id was seen before leaves  *)
(* the state as it is, which is a stuttering step.  The revision counts    *)
(* recorded events and is left out; no handler reads it.                   *)
(***************************************************************************)
EXTENDS Naturals, FiniteSets

CONSTANTS
  Queries,      \* what a lead may ask for: service, dates, time, party
  Offers,       \* offer ids
  OfferQuery,   \* [Offers -> Queries]: _offer_matches_query
  Terms,        \* customer facts and economic terms of a draft
  MaxTime,      \* bound: last instant an event may carry
  MaxVersion    \* bound: last version of a draft

ASSUME OfferQueryAssumption == OfferQuery \in [Offers -> Queries]
ASSUME WorkflowBounds == MaxTime \in Nat /\ MaxVersion \in Nat \ {0}

VARIABLES
  phase, lastEventAt,
  query,             \* SearchQuery of the last StartSearch
  found, freshUntil, \* offers and expiry of the lookup evidence
  offer,             \* the chosen offer
  \* stamps; kept as history by the result phases, which carry the command
  draft, summary, decision, command,
  shown,             \* history: the summary the lead was really sent
  issued             \* number of command ids in StateMeta.command_ids

lookupVars == <<query, found, freshUntil, offer>>
orderVars  == <<draft, summary, decision, command, shown, issued>>
vars == <<phase, lastEventAt, lookupVars, orderVars>>

Times == 0..MaxTime
(* The signature is a hash of offer, customer and terms, without the lookup
   that found the offer and without draft id and version. *)
Subjects  == [offer : Offers, terms : Terms]
NoSubject == [offer |-> "none", terms |-> "none"]
Stamp     == [subject : Subjects \cup {NoSubject}, version : Nat, at : Times]
None      == [subject |-> NoSubject, version |-> 0, at |-> 0]
Later(s, t) == IF s < t THEN t ELSE s

DraftPhases   == {"ready_to_summarize", "awaiting_confirmation",
                  "awaiting_adjustment"}
SearchPhases  == {"collecting", "searching", "offered", "selected"}
ResultPhases  == {"succeeded", "failed_before_provider", "failed_no_effect",
                  "uncertain", "manual_review"}
CommandPhases == {"execution_queued", "executing"} \cup ResultPhases
ClosedPhases  == {"cancelled", "expired"}
Phases == SearchPhases \cup DraftPhases \cup CommandPhases \cup ClosedPhases

PreCommand == SearchPhases \cup DraftPhases
-----------------------------------------------------------------------------
(* new_workflow; time is counted from started_at *)
Init ==
  /\ phase = "collecting"
  /\ lastEventAt = 0
  /\ query = "none" /\ offer = "none"
  /\ found = {} /\ freshUntil = 0
  /\ draft = None /\ summary = None /\ decision = None /\ command = None
  /\ shown = None
  /\ issued = 0

(* Mutant: last_event_at keeps the time of the first event. *)
AdvanceNot(t) == lastEventAt' = lastEventAt

(* _advance_meta *)
Advance(t) == lastEventAt' = Later(lastEventAt, t)

(* An event that reaches its handler: not older than the last one. *)
InOrder(t) == t >= lastEventAt

(* The new state carries no lookup, draft, summary or decision. *)
ForgetOrder ==
  /\ found' = {} /\ freshUntil' = 0 /\ offer' = "none"
  /\ draft' = None /\ summary' = None /\ decision' = None
  /\ UNCHANGED <<command, shown, issued>>

(* Out of order, without a handler in this phase, or rejected by its handler:
   the event is recorded and only the metadata moves.  apply_event refuses a
   SummaryRecorded that is not applied, and nothing is written. *)
Unapplied(t) ==
  /\ Advance(t)
  /\ UNCHANGED <<phase, lookupVars, orderVars>>

StartSearch(t, q) ==
  /\ InOrder(t)
  /\ phase \in PreCommand
  /\ phase' = "searching"
  /\ query' = q
  /\ Advance(t)
  /\ ForgetOrder

(* Positive evidence for the current query, fresh, with offers that match.  It
   was observed before this event, and time moves forward, so that only its
   expiry can end its freshness. *)
LookupValid(t, q, until, offers) ==
  /\ q = query
  /\ t < until
  /\ offers # {}
  /\ \A o \in offers : OfferQuery[o] = q

LookupRecorded(t, q, until, offers) ==
  /\ InOrder(t)
  /\ phase = "searching"
  /\ LookupValid(t, q, until, offers)
  /\ phase' = "offered"
  /\ found' = offers
  /\ freshUntil' = until
  /\ Advance(t)
  /\ UNCHANGED <<query, offer, orderVars>>

OfferChosen(t, o) ==
  /\ InOrder(t)
  /\ phase = "offered"
  /\ t < freshUntil
  /\ o \in found
  /\ phase' = "selected"
  /\ offer' = o
  /\ Advance(t)
  /\ UNCHANGED <<query, found, freshUntil, orderVars>>

(* Mutant: freshness was checked when the offer was chosen, so not again. *)
EvidenceOnceFresh(t) == TRUE

(* LookupEvidence.is_fresh for the evidence of the selected offer *)
EvidenceFresh(t) == t < freshUntil

DraftRequested(t, terms) ==
  /\ InOrder(t)
  /\ phase = "selected"
  /\ EvidenceFresh(t)
  /\ phase' = "ready_to_summarize"
  /\ draft' = [subject |-> [offer |-> offer, terms |-> terms],
               version |-> 1, at |-> t]
  /\ Advance(t)
  /\ UNCHANGED <<lookupVars, summary, decision, command, shown, issued>>

(* A new version for other terms; the lookup evidence is not consulted. *)
DraftAdjusted(t, terms) ==
  LET subject == [offer |-> draft.subject.offer, terms |-> terms] IN
  /\ InOrder(t)
  /\ phase \in DraftPhases
  /\ draft.version < MaxVersion
  /\ subject # draft.subject
  /\ phase' = "ready_to_summarize"
  /\ draft' = [subject |-> subject, version |-> draft.version + 1, at |-> t]
  /\ summary' = None /\ decision' = None
  /\ Advance(t)
  /\ UNCHANGED <<lookupVars, command, shown, issued>>

(* Mutant: a summary rendered from an older version is taken for this one. *)
SummaryMatchesAny(t, version, subject) == t >= draft.at

SummaryMatches(t, version, subject) ==
  /\ version = draft.version
  /\ subject = draft.subject
  /\ t >= draft.at

SummaryRecorded(t, version, subject) ==
  /\ InOrder(t)
  /\ phase = "ready_to_summarize"
  /\ SummaryMatches(t, version, subject)
  /\ phase' = "awaiting_confirmation"
  /\ summary' = [subject |-> draft.subject, version |-> draft.version, at |-> t]
  /\ shown' = [subject |-> subject, version |-> version, at |-> t]
  /\ Advance(t)
  /\ UNCHANGED <<lookupVars, draft, decision, command, issued>>
-----------------------------------------------------------------------------
(* A confirmation of exactly the presented draft, strictly after it *)
AnswersSummary(t, version, subject) ==
  /\ version = draft.version
  /\ subject = draft.subject
  /\ subject = summary.subject
  /\ t > summary.at

(* What the four decisions of a ConfirmationReceived share *)
ConfirmationReceived(t, version, subject) ==
  /\ InOrder(t)
  /\ phase = "awaiting_confirmation"
  /\ AnswersSummary(t, version, subject)
  /\ Advance(t)
  /\ UNCHANGED <<query, shown>>

RejectDraft(t, version, subject) ==
  /\ ConfirmationReceived(t, version, subject)
  /\ phase' = "cancelled"
  /\ ForgetOrder

AskAdjustment(t, version, subject) ==
  /\ ConfirmationReceived(t, version, subject)
  /\ phase' = "awaiting_adjustment"
  /\ decision' = [subject |-> subject, version |-> version, at |-> t]
  /\ UNCHANGED <<found, freshUntil, offer, draft, summary, command, issued>>

AnswerAmbiguously(t, version, subject) ==
  /\ ConfirmationReceived(t, version, subject)
  /\ UNCHANGED <<phase, lookupVars, orderVars>>

(* The only handler that returns a command: its subject is the current draft *)
AcceptDraft(t, version, subject) ==
  /\ ConfirmationReceived(t, version, subject)
  /\ phase' = "execution_queued"
  /\ decision' = [subject |-> subject, version |-> version, at |-> t]
  /\ command' = [subject |-> draft.subject, version |-> draft.version, at |-> t]
  /\ issued' = issued + 1
  /\ UNCHANGED <<found, freshUntil, offer, draft, summary>>

WorkflowCancelled(t) ==
  /\ InOrder(t)
  /\ phase \in PreCommand
  /\ phase' = "cancelled"
  /\ Advance(t)
  /\ ForgetOrder
  /\ UNCHANGED query

WorkflowExpired(t) ==
  /\ InOrder(t)
  /\ phase \in PreCommand
  /\ phase' = "expired"
  /\ Advance(t)
  /\ ForgetOrder
  /\ UNCHANGED query
-----------------------------------------------------------------------------
(* The operational events come from claim_command, record_outcome and the
   other store methods, always for the workflow's own command id. *)
ExecutionStarted(t) ==
  /\ InOrder(t)
  /\ phase = "execution_queued"
  /\ phase' = "executing"
  /\ Advance(t)
  /\ UNCHANGED <<lookupVars, orderVars>>

(* Mutant: a late answer still replaces an uncertain outcome. *)
FinishableUncertain == {"executing", "uncertain"}
Finishable == {"executing"}

ExecutionFinished(t) ==
  /\ InOrder(t)
  /\ phase \in Finishable
  /\ phase' \in {"succeeded", "uncertain", "failed_before_provider",
                 "failed_no_effect"}
  /\ Advance(t)
  /\ UNCHANGED <<lookupVars, orderVars>>

ManualReviewRequested(t) ==
  /\ InOrder(t)
  /\ phase = "uncertain"
  /\ phase' = "manual_review"
  /\ Advance(t)
  /\ UNCHANGED <<lookupVars, orderVars>>
-----------------------------------------------------------------------------
SearchStep(t) ==
  \/ \E q \in Queries : StartSearch(t, q)
  \/ \E q \in Queries, until \in 0..(MaxTime + 1), offers \in SUBSET Offers :
       LookupRecorded(t, q, until, offers)
  \/ \E o \in Offers : OfferChosen(t, o)

DraftStep(t) ==
  \/ \E terms \in Terms : DraftRequested(t, terms) \/ DraftAdjusted(t, terms)
  \/ WorkflowCancelled(t)
  \/ WorkflowExpired(t)

LeadStep(t) ==
  \E version \in 1..MaxVersion, subject \in Subjects :
    \/ SummaryRecorded(t, version, subject)
    \/ RejectDraft(t, version, subject)
    \/ AskAdjustment(t, version, subject)
    \/ AnswerAmbiguously(t, version, subject)
    \/ AcceptDraft(t, version, subject)

ExecutionStep(t) ==
  \/ ExecutionStarted(t)
  \/ ExecutionFinished(t)
  \/ ManualReviewRequested(t)

Next ==
  \E t \in Times :
    Unapplied(t) \/ SearchStep(t) \/ DraftStep(t) \/ LeadStep(t) \/ ExecutionStep(t)

Spec == Init /\ [][Next]_vars
-----------------------------------------------------------------------------
(* Every field of the workflow holds a value of its type. *)
TypeOK ==
  /\ phase \in Phases
  /\ lastEventAt \in Times
  /\ query \in Queries \cup {"none"}
  /\ found \subseteq Offers
  /\ freshUntil \in 0..(MaxTime + 1)
  /\ offer \in Offers \cup {"none"}
  /\ draft \in Stamp /\ summary \in Stamp /\ decision \in Stamp
  /\ command \in Stamp /\ shown \in Stamp
  /\ issued \in Nat

(* _validate_summary_binding *)
SummaryBinds ==
  /\ summary.version = draft.version
  /\ summary.subject = draft.subject
  /\ summary.at >= draft.at

(* A decision taken on the presented draft, strictly after the summary *)
DecisionBinds ==
  /\ decision.version = draft.version
  /\ decision.subject = draft.subject
  /\ decision.at > summary.at

(* validate_state_consistency and the __post_init__ of the state types hold
   in every state reduce returns: whatever the order and the times of the
   events, reduce never raises after a handler has run, so no event history
   leaves a workflow that can no longer be loaded. *)
StateConsistent ==
  /\ issued = IF phase \in CommandPhases THEN 1 ELSE 0
  /\ phase = "offered" => found # {} /\ \A o \in found : OfferQuery[o] = query
  /\ phase = "selected" => OfferQuery[offer] = query
  /\ phase \in DraftPhases => draft.at <= lastEventAt
  /\ phase \in {"awaiting_confirmation", "awaiting_adjustment"} => SummaryBinds
  /\ phase = "awaiting_adjustment" =>
       /\ DecisionBinds
       /\ Later(summary.at, decision.at) <= lastEventAt
  /\ phase \in {"execution_queued", "executing"} =>
       /\ SummaryBinds
       /\ DecisionBinds
       /\ command.subject = draft.subject /\ command.version = draft.version
       /\ command.at = decision.at
       /\ Later(draft.at, summary.at) <= lastEventAt
  /\ phase \in CommandPhases => command.at <= lastEventAt

(* Whatever was adjusted, searched again or delivered late in between, a
   command stands for the very summary the lead was sent last and for a
   confirmation of that version, given strictly after it was presented. *)
CommandAuthorized ==
  phase \in CommandPhases =>
    /\ command.subject = shown.subject /\ command.version = shown.version
    /\ decision.subject = shown.subject /\ decision.version = shown.version
    /\ shown.at < decision.at
    /\ command.at = decision.at

(* What is drafted, shown or ordered is an offer for what the lead asked for
   last: the answer to an earlier search never becomes a draft, and a first
   draft was made while its evidence was fresh. *)
OrderAnswersRequest ==
  phase \in DraftPhases \cup CommandPhases =>
    /\ OfferQuery[draft.subject.offer] = query
    /\ draft.version = 1 => draft.at < freshUntil

(* A command is final: once it exists no event changes its contents or what
   it was based on, no second one is issued, and its phase only moves forward
   to one result, which stays (an uncertain one is only handed to review); a
   cancelled or expired workflow never orders anything. *)
CommittedIsFinal ==
  [][/\ phase \in CommandPhases =>
          /\ UNCHANGED <<query, draft, summary, decision, command, shown, issued>>
          /\ \/ phase' = phase
             \/ phase = "execution_queued" /\ phase' = "executing"
             \/ phase = "executing" /\ phase' \in ResultPhases \ {"manual_review"}
             \/ phase = "uncertain" /\ phase' = "manual_review"
     /\ phase \in ClosedPhases => phase' = phase /\ issued' = issued]_vars
-----------------------------------------------------------------------------
(* What the properties rest on: outside the search phases the draft is a real
   one, and while an answer is awaited the lead's last summary is the current
   one. *)
PresentationCurrent ==
  /\ phase = "selected" => offer \in Offers
  /\ phase \in DraftPhases \cup CommandPhases =>
       draft.subject \in Subjects /\ draft.version > 0
  /\ phase \in {"awaiting_confirmation", "awaiting_adjustment"} =>
       /\ shown = summary
       /\ summary.at <= lastEventAt

(* The inductive strengthening that TLAPS proves: every handler, and every
   event that has none, preserves it. *)
InductiveInv ==
  /\ TypeOK
  /\ StateConsistent
  /\ CommandAuthorized
  /\ OrderAnswersRequest
  /\ PresentationCurrent
=============================================================================
