----------------------- MODULE PaymentSettlementProofs -----------------------
(* Money moves at most once, only for what was confirmed, and is reported     *)
(* truthfully, for any number of payments, evidences and runs.                *)
EXTENDS PaymentSettlement, TLAPS

(* A run past the fence may call the provider or has called it. *)
Past(r) == pc[r] \in {"fenced", "posting", "answered"}

(* A payment without a ledger row has no outcome; the provider hears only of
   spent slots; evidence is awaited for a confirmed summary. *)
Blank ==
  \A p \in Payments :
    /\ lstatus[p] = "absent" => /\ slots[p] = 0 /\ outcome[p] = None
                                /\ evidence[p] = None /\ expires[p] = Never
    /\ slots[p] = 0 => posts[p] = 0
    /\ pstatus[p] = "awaiting_evidence" => confirmed[p] = summary[p] /\ summary[p] # 0

(* No claim is newer than its row, and no two runs hold the same one. *)
TokensFresh ==
  \A r \in Runs : pc[r] # "idle" => claim[r].token <= claims[claim[r].payment]

SameClaim(r, s) ==
  claim[r].payment = claim[s].payment /\ claim[r].token = claim[s].token

TokensUnique ==
  \A r, s \in Runs : pc[r] # "idle" /\ pc[s] # "idle" /\ SameClaim(r, s) => r = s

(* The slot of a payment belongs to the run whose claim is its last. *)
FenceOwned ==
  \A r \in Runs : Past(r) =>
    slots[claim[r].payment] = 1 /\ claims[claim[r].payment] = claim[r].token

(* Who has not posted yet is the only one who will. *)
PostPending ==
  \A r \in Runs : pc[r] \in {"fenced", "posting"} => posts[claim[r].payment] = 0

(* The certainty c is true of payment p. *)
Backed(p, c) ==
  /\ c = "settled" => applied[p] = 1
  /\ c = "dispatched_no_effect" => posts[p] = 1 /\ applied[p] = 0

AnswersBacked ==
  \A r \in Runs : pc[r] = "answered" =>
    answer[r] \in Dispatched /\ Backed(claim[r].payment, answer[r])

OutcomesBacked == \A p \in Payments : Backed(p, outcome[p])

SettlementInv ==
  /\ TypeOK /\ RecordsAgree /\ Blank
  /\ TokensFresh /\ TokensUnique /\ FenceOwned
  /\ PostPending /\ PaidAtMostOnce /\ AnswersBacked /\ OutcomesBacked
  /\ SettlementAuthorised
-----------------------------------------------------------------------------
(* Only payments without a ledger row are open, and a row that may still be
   claimed has spent nothing. *)
LEMMA RowFacts ==
  ASSUME TypeOK, RecordsAgree, NEW p \in Payments
  PROVE  /\ pstatus[p] \in Open => lstatus[p] = "absent" /\ jobs[p] = {}
         /\ lstatus[p] \in {"queued", "leased"} =>
              /\ slots[p] = 0 /\ outcome[p] = None /\ jobs[p] = {}
              /\ pstatus[p] = "settlement_queued"
         /\ lstatus[p] = "dispatch_fenced" =>
              slots[p] = 1 /\ outcome[p] = None /\ jobs[p] = {} /\ pstatus[p] = "settling"
PROOF
  BY DEF TypeOK, RecordsAgree, Agree, Open

(* The records of a payment. *)
Records(p) ==
  <<pstatus[p], estatus[p], lstatus[p], slots[p], outcome[p], jobs[p], expires[p]>>

(* It is enough to look at the payment a step is about. *)
LEMMA OthersAgree ==
  ASSUME RecordsAgree, NEW p \in Payments, Agree(p)',
         \A q \in Payments \ {p} : UNCHANGED Records(q)
  PROVE  RecordsAgree'
PROOF
  <1> SUFFICES ASSUME NEW q \in Payments PROVE Agree(q)'
    BY DEF RecordsAgree
  <1>1. CASE q # p
    <2>1. /\ pstatus'[q] = pstatus[q] /\ estatus'[q] = estatus[q] /\ lstatus'[q] = lstatus[q]
          /\ slots'[q] = slots[q] /\ outcome'[q] = outcome[q] /\ jobs'[q] = jobs[q]
          /\ expires'[q] = expires[q]
      BY <1>1 DEF Records
    <2>2. Agree(q)
      BY DEF RecordsAgree
    <2>3. Agree(q)' = Agree(q)
      BY <2>1 DEF Agree
    <2> QED BY <2>2, <2>3
  <1> QED BY <1>1

(* Initially there is no command and no run. *)
LEMMA SettlementInit == Init => SettlementInv
PROOF
  <1> SUFFICES ASSUME Init PROVE SettlementInv
    OBVIOUS
  <1> USE DEF Init
  <1>1. TypeOK
    BY ClaimsAssumption, SettlementLeaseAssumption, PaymentBounds
       DEF TypeOK, Open, None, Never, NoClaim
  <1>2. RecordsAgree
    BY DEF RecordsAgree, Agree, Open
  <1>3. Blank /\ TokensFresh /\ TokensUnique /\ FenceOwned /\ PostPending
    BY DEF Blank, TokensFresh, TokensUnique, FenceOwned, PostPending, Past
  <1>4. PaidAtMostOnce /\ AnswersBacked /\ OutcomesBacked /\ SettlementAuthorised
    BY DEF PaidAtMostOnce, AnswersBacked, OutcomesBacked, Backed, SettlementAuthorised, None
  <1> QED BY <1>1, <1>2, <1>3, <1>4 DEF SettlementInv

(* A step of the customer on a payment without a command. *)
CustomerStep(p) ==
  /\ pstatus[p] \in Open
  /\ \E s \in Open \cup {"expired", "cancelled"}, n, m \in 0..MaxSummary :
       /\ s = "awaiting_evidence" => n = m /\ n # 0
       /\ pstatus' = [pstatus EXCEPT ![p] = s]
       /\ summary' = [summary EXCEPT ![p] = n]
       /\ confirmed' = [confirmed EXCEPT ![p] = m]
  /\ UNCHANGED <<clock, evidenceVars, ledgerVars, runVars, providerVars>>

(* The four events a customer or the deadline can cause. *)
LEMMA CustomerSteps ==
  ASSUME SettlementInv, NEW p \in Payments,
         \/ SelectMethod(p)
         \/ \E s \in 1..MaxSummary : RecordSummary(p, s) \/ ConfirmSummary(p, s)
         \/ \E s \in {"expired", "cancelled"} : ClosePayment(p, s)
  PROVE  CustomerStep(p)
PROOF
  <1>1. /\ pstatus \in [Payments -> Open \cup {"settlement_queued", "settling", "paid",
                                    "retryable", "manual_review", "expired", "cancelled"}]
        /\ summary \in [Payments -> 0..MaxSummary]
        /\ confirmed \in [Payments -> 0..MaxSummary]
    BY DEF SettlementInv, TypeOK
  <1>2. 0 \in 0..MaxSummary /\ \A s \in 1..MaxSummary : s \in 0..MaxSummary /\ s # 0
    BY PaymentBounds
  <1>3. CASE SelectMethod(p)
    BY <1>1, <1>2, <1>3 DEF SelectMethod, CustomerStep, Open
  <1>4. ASSUME NEW s \in 1..MaxSummary, RecordSummary(p, s) PROVE CustomerStep(p)
    BY <1>1, <1>2, <1>4 DEF RecordSummary, CustomerStep, Open
  <1>5. ASSUME NEW s \in 1..MaxSummary, ConfirmSummary(p, s) PROVE CustomerStep(p)
    <2>1. summary = [summary EXCEPT ![p] = s]
      BY <1>1, <1>5 DEF ConfirmSummary
    <2> QED BY <1>1, <1>2, <1>5, <2>1 DEF ConfirmSummary, CustomerStep, Open
  <1>6. ASSUME NEW s \in {"expired", "cancelled"}, ClosePayment(p, s) PROVE CustomerStep(p)
    <2>1. /\ summary = [summary EXCEPT ![p] = summary[p]]
          /\ confirmed = [confirmed EXCEPT ![p] = confirmed[p]]
          /\ summary[p] \in 0..MaxSummary /\ confirmed[p] \in 0..MaxSummary
      BY <1>1
    <2> QED BY <1>6, <2>1 DEF ClosePayment, CustomerStep
  <1> QED BY <1>3, <1>4, <1>5, <1>6

(* Nothing is bound to the economics while the customer may still change them. *)
LEMMA CustomerKeeps ==
  ASSUME SettlementInv, NEW p \in Payments, CustomerStep(p)
  PROVE  SettlementInv'
PROOF
  <1>1. lstatus[p] = "absent" /\ jobs[p] = {}
    BY RowFacts DEF SettlementInv, CustomerStep
  <1>2. PICK s \in Open \cup {"expired", "cancelled"}, n \in 0..MaxSummary, m \in 0..MaxSummary :
          /\ s = "awaiting_evidence" => n = m /\ n # 0
          /\ pstatus' = [pstatus EXCEPT ![p] = s]
          /\ summary' = [summary EXCEPT ![p] = n]
          /\ confirmed' = [confirmed EXCEPT ![p] = m]
    BY DEF CustomerStep
  <1>3. UNCHANGED <<clock, evidence, commandFor, estatus, lstatus, claims, expires, slots,
                    outcome, jobs, pc, claim, answer, posts, applied>>
    BY DEF CustomerStep, evidenceVars, ledgerVars, runVars, providerVars
  <1>4. TypeOK'
    BY <1>2, <1>3 DEF SettlementInv, TypeOK
  <1>5. RecordsAgree'
    <2>1. Agree(p)'
      BY <1>1, <1>2, <1>3 DEF SettlementInv, TypeOK, Agree
    <2>2. \A q \in Payments \ {p} : UNCHANGED Records(q)
      BY <1>2, <1>3 DEF SettlementInv, TypeOK, Records
    <2> QED BY <2>1, <2>2, OthersAgree DEF SettlementInv
  <1>6. Blank'
    BY <1>1, <1>2, <1>3 DEF SettlementInv, TypeOK, Blank
  <1>7. (TokensFresh /\ TokensUnique /\ FenceOwned /\ PostPending)'
    BY <1>3 DEF SettlementInv, TokensFresh, TokensUnique, SameClaim, FenceOwned, PostPending, Past
  <1>8. (PaidAtMostOnce /\ AnswersBacked /\ OutcomesBacked)'
    BY <1>3 DEF SettlementInv, PaidAtMostOnce, AnswersBacked, OutcomesBacked, Backed
  <1>9. SettlementAuthorised'
    BY <1>1, <1>2, <1>3 DEF SettlementInv, TypeOK, SettlementAuthorised
  <1> QED BY <1>4, <1>5, <1>6, <1>7, <1>8, <1>9 DEF SettlementInv

(* claim_payment_evidence binds one unclaimed evidence to the confirmed summary. *)
LEMMA EvidenceKeeps ==
  ASSUME SettlementInv, NEW p \in Payments, NEW e \in Evidence, ClaimEvidence(p, e)
  PROVE  SettlementInv'
PROOF
  <1>1. /\ pstatus[p] = "awaiting_evidence" /\ Unclaimed(e)
        /\ pstatus' = [pstatus EXCEPT ![p] = "settlement_queued"]
        /\ evidence' = [evidence EXCEPT ![p] = e]
        /\ estatus' = [estatus EXCEPT ![p] = "in_progress"]
        /\ commandFor' = [commandFor EXCEPT ![p] = summary[p]]
        /\ lstatus' = [lstatus EXCEPT ![p] = "queued"]
        /\ UNCHANGED <<clock, summary, confirmed, claims, expires, slots, outcome, jobs, pc,
                       claim, answer, posts, applied>>
    BY DEF ClaimEvidence, runVars, providerVars
  <1>2. lstatus[p] = "absent" /\ jobs[p] = {}
    BY <1>1, RowFacts DEF SettlementInv, Open
  <1>3. /\ slots[p] = 0 /\ outcome[p] = None /\ expires[p] = Never
        /\ confirmed[p] = summary[p] /\ summary[p] # 0
    BY <1>1, <1>2 DEF SettlementInv, Blank
  <1>4. TypeOK'
    BY <1>1 DEF SettlementInv, TypeOK
  <1>5. RecordsAgree'
    <2>1. Agree(p)'
      BY <1>1, <1>2, <1>3 DEF SettlementInv, TypeOK, Agree
    <2>2. \A q \in Payments \ {p} : UNCHANGED Records(q)
      BY <1>1 DEF SettlementInv, TypeOK, Records
    <2> QED BY <2>1, <2>2, OthersAgree DEF SettlementInv
  <1>6. Blank'
    BY <1>1, <1>3 DEF SettlementInv, TypeOK, Blank
  <1>7. (TokensFresh /\ TokensUnique /\ FenceOwned /\ PostPending)'
    BY <1>1 DEF SettlementInv, TokensFresh, TokensUnique, SameClaim, FenceOwned, PostPending, Past
  <1>8. (PaidAtMostOnce /\ AnswersBacked /\ OutcomesBacked)'
    BY <1>1 DEF SettlementInv, PaidAtMostOnce, AnswersBacked, OutcomesBacked, Backed
  <1>9. SettlementAuthorised'
    BY <1>1, <1>3 DEF SettlementInv, TypeOK, SettlementAuthorised, Unclaimed
  <1> QED BY <1>4, <1>5, <1>6, <1>7, <1>8, <1>9 DEF SettlementInv
-----------------------------------------------------------------------------
(* What the invariant says of runs, and what it says of rows. *)
RunPart == /\ TokensFresh /\ TokensUnique /\ FenceOwned
           /\ PostPending /\ PaidAtMostOnce /\ AnswersBacked
RowPart == RecordsAgree /\ Blank /\ OutcomesBacked /\ SettlementAuthorised

(* The invariant is the types and the two parts. *)
LEMMA InvParts == SettlementInv <=> TypeOK /\ RunPart /\ RowPart
PROOF
  BY DEF SettlementInv, RunPart, RowPart

(* A run that ends takes nothing with it. *)
LEMMA RunEnds ==
  ASSUME TypeOK, RunPart, NEW r \in Runs, EndRun(r), UNCHANGED <<claims, slots, posts, applied>>
  PROVE  /\ RunPart'
         /\ pc' \in [Runs -> {"idle", "preparing", "prepared", "fenced", "posting", "answered"}]
         /\ claim' \in [Runs -> [payment : Payments \cup {None}, token : 0..MaxClaims,
                                 expires : 0..Never]]
         /\ answer' \in [Runs -> Dispatched \cup {None, "prepared", "retryable", "terminal"}]
         /\ \A s \in Runs : pc'[s] # "idle" => claim'[s].payment \in Payments
PROOF
  <1>1. /\ pc'[r] = "idle" /\ claim'[r] = NoClaim /\ answer'[r] = None
        /\ \A s \in Runs \ {r} : pc'[s] = pc[s] /\ claim'[s] = claim[s] /\ answer'[s] = answer[s]
    BY DEF EndRun, TypeOK
  <1>2. NoClaim \in [payment : Payments \cup {None}, token : 0..MaxClaims, expires : 0..Never]
    BY ClaimsAssumption, SettlementLeaseAssumption, PaymentBounds DEF NoClaim, Never
  <1>3. (TokensFresh /\ TokensUnique)'
    BY <1>1 DEF RunPart, TokensFresh, TokensUnique, SameClaim
  <1>4. (FenceOwned /\ PostPending)'
    BY <1>1 DEF RunPart, FenceOwned, PostPending, Past
  <1>5. (PaidAtMostOnce /\ AnswersBacked)'
    BY <1>1 DEF RunPart, PaidAtMostOnce, AnswersBacked, Backed
  <1>6. /\ pc' \in [Runs -> {"idle", "preparing", "prepared", "fenced", "posting", "answered"}]
        /\ claim' \in [Runs -> [payment : Payments \cup {None}, token : 0..MaxClaims,
                                 expires : 0..Never]]
        /\ answer' \in [Runs -> Dispatched \cup {None, "prepared", "retryable", "terminal"}]
    BY <1>2 DEF EndRun, TypeOK
  <1>7. \A s \in Runs : pc'[s] # "idle" => claim'[s].payment \in Payments
    BY <1>1 DEF TypeOK
  <1> QED BY <1>3, <1>4, <1>5, <1>6, <1>7 DEF RunPart

(* The columns that CloseLedger and Requeue write keep their types. *)
RowTypes ==
  /\ pstatus \in [Payments -> Open \cup {"settlement_queued", "settling", "paid", "retryable",
                                         "manual_review", "expired", "cancelled"}]
  /\ estatus \in [Payments -> {None, "in_progress", "retryable", "completed", "manual_review"}]
  /\ lstatus \in [Payments -> {"absent", "queued", "leased", "dispatch_fenced",
                               "outcome_recorded", "manual_review"}]
  /\ expires \in [Payments -> 0..Never]
  /\ outcome \in [Payments -> Dispatched \cup {"not_dispatched", None}]
  /\ jobs \in [Payments -> SUBSET {"paid_state_transition", "customer_payment_confirmation",
                                   "manual_review"}]

(* A settlement may be closed before the fence without, and after it with a
   certainty of the provider's answer, if that is true. *)
LEMMA CloseKeeps ==
  ASSUME TypeOK, RowPart, NEW p \in Payments, NEW c, CloseLedger(p, c), Backed(p, c),
         \/ lstatus[p] = "leased" /\ c = "not_dispatched"
         \/ lstatus[p] = "dispatch_fenced" /\ c \in Dispatched,
         UNCHANGED <<summary, confirmed, evidence, commandFor, slots, posts, applied>>
  PROVE  RowPart' /\ RowTypes'
PROOF
  <1> DEFINE final == c \in {"settled", "not_dispatched"}
  <1>1. /\ pstatus' = [pstatus EXCEPT ![p] = ProjectedStatus(c)]
        /\ lstatus' = [lstatus EXCEPT ![p] = IF final THEN "outcome_recorded" ELSE "manual_review"]
        /\ estatus' = [estatus EXCEPT ![p] = IF final THEN "completed" ELSE "manual_review"]
        /\ expires' = [expires EXCEPT ![p] = Never]
        /\ outcome' = [outcome EXCEPT ![p] = c]
        /\ jobs' = [jobs EXCEPT ![p] = @ \cup EffectsOf(c)]
    BY DEF CloseLedger
  <1>2. /\ jobs[p] = {}
        /\ slots[p] = IF lstatus[p] = "leased" THEN 0 ELSE 1
    BY RowFacts DEF RowPart
  <1>3. ProjectedStatus(c) = CASE c = "settled" -> "paid"
                               [] c = "not_dispatched" -> "retryable"
                               [] OTHER -> "manual_review"
    BY DEF ProjectedStatus
  <1>4. Agree(p)'
    <2>1. /\ pstatus'[p] = ProjectedStatus(c) /\ outcome'[p] = c /\ slots'[p] = slots[p]
          /\ lstatus'[p] = IF final THEN "outcome_recorded" ELSE "manual_review"
          /\ estatus'[p] = IF final THEN "completed" ELSE "manual_review"
          /\ expires'[p] = Never
      BY <1>1 DEF TypeOK
    <2>2. jobs'[p] = EffectsOf(outcome'[p])
      BY <1>1, <1>2, <2>1 DEF TypeOK
    <2>3. CASE c = "settled"
      BY <1>2, <1>3, <2>1, <2>2, <2>3 DEF Agree
    <2>4. CASE c = "not_dispatched"
      BY <1>2, <1>3, <2>1, <2>2, <2>4 DEF Agree, Dispatched, Uncertain
    <2>5. CASE c \in Uncertain
      BY <1>2, <1>3, <2>1, <2>2, <2>5 DEF Agree, Uncertain
    <2> QED BY <2>3, <2>4, <2>5 DEF Dispatched
  <1>5. RecordsAgree'
    <2>1. \A q \in Payments \ {p} : UNCHANGED Records(q)
      BY <1>1 DEF TypeOK, Records
    <2> QED BY <1>4, <2>1, OthersAgree DEF RowPart
  <1>6. Blank'
    <2>1. /\ lstatus'[p] # "absent" /\ pstatus'[p] # "awaiting_evidence"
          /\ \A q \in Payments \ {p} : /\ lstatus'[q] = lstatus[q] /\ pstatus'[q] = pstatus[q]
                                       /\ outcome'[q] = outcome[q] /\ expires'[q] = expires[q]
      BY <1>1, <1>3 DEF TypeOK
    <2> QED BY <2>1 DEF RowPart, Blank
  <1>7. OutcomesBacked'
    BY <1>1 DEF RowPart, OutcomesBacked, Backed, TypeOK
  <1>8. SettlementAuthorised'
    <2>1. \A q \in Payments : lstatus'[q] # "absent" => lstatus[q] # "absent"
      BY <1>1 DEF TypeOK
    <2> QED BY <2>1 DEF RowPart, SettlementAuthorised
  <1>9. RowTypes'
    <2>1. c \in Dispatched \cup {"not_dispatched"}
      OBVIOUS
    <2>2. EffectsOf(c) \subseteq {"paid_state_transition", "customer_payment_confirmation",
                                  "manual_review"}
      BY DEF EffectsOf
    <2>3. Never \in 0..Never
      BY SettlementLeaseAssumption, PaymentBounds DEF Never
    <2>4. jobs' \in [Payments -> SUBSET {"paid_state_transition",
                                         "customer_payment_confirmation", "manual_review"}]
      BY <1>1, <2>2 DEF TypeOK
    <2> HIDE DEF final
    <2> QED BY <1>1, <1>3, <2>1, <2>3, <2>4 DEF TypeOK, RowTypes
  <1> QED BY <1>5, <1>6, <1>7, <1>8, <1>9 DEF RowPart

(* A claim that was given back leaves a row that can be claimed again. *)
LEMMA RequeueKeeps ==
  ASSUME TypeOK, RowPart, NEW p \in Payments, Requeue(p), lstatus[p] = "leased",
         UNCHANGED <<summary, confirmed, evidence, commandFor, slots, posts, applied>>
  PROVE  RowPart' /\ RowTypes'
PROOF
  <1>1. /\ lstatus' = [lstatus EXCEPT ![p] = "queued"]
        /\ estatus' = [estatus EXCEPT ![p] = "retryable"]
        /\ expires' = [expires EXCEPT ![p] = Never]
        /\ UNCHANGED <<pstatus, outcome, jobs>>
    BY DEF Requeue
  <1>2. slots[p] = 0 /\ outcome[p] = None /\ jobs[p] = {} /\ pstatus[p] = "settlement_queued"
    BY RowFacts DEF RowPart
  <1>3. RecordsAgree'
    <2>1. Agree(p)'
      BY <1>1, <1>2 DEF TypeOK, Agree
    <2>2. \A q \in Payments \ {p} : UNCHANGED Records(q)
      BY <1>1 DEF TypeOK, Records
    <2> QED BY <2>1, <2>2, OthersAgree DEF RowPart
  <1>4. (Blank /\ OutcomesBacked)'
    BY <1>1, <1>2 DEF RowPart, Blank, OutcomesBacked, Backed, TypeOK
  <1>5. SettlementAuthorised'
    BY <1>1 DEF RowPart, SettlementAuthorised, TypeOK
  <1>6. RowTypes'
    BY <1>1, SettlementLeaseAssumption, PaymentBounds DEF TypeOK, RowTypes, Never
  <1> QED BY <1>3, <1>4, <1>5, <1>6 DEF RowPart

(* Types of the columns that settlement steps never write. *)
LEMMA TypesTogether ==
  ASSUME TypeOK, RowTypes',
         UNCHANGED <<clock, summary, confirmed, evidence, commandFor, claims, slots>>,
         UNCHANGED <<pc, claim, answer, posts, applied>> \/
         (\E r \in Runs : EndRun(r) /\ UNCHANGED <<posts, applied>> /\ RunPart)
  PROVE  TypeOK'
PROOF
  <1>1. CASE UNCHANGED <<pc, claim, answer, posts, applied>>
    BY <1>1 DEF TypeOK, RowTypes
  <1>2. ASSUME NEW r \in Runs, EndRun(r), UNCHANGED <<posts, applied>>, RunPart PROVE TypeOK'
    BY <1>2, RunEnds DEF TypeOK, RowTypes
  <1> QED BY <1>1, <1>2
-----------------------------------------------------------------------------
(* A new claim is newer than every other and finds the slot unspent. *)
LEMMA ClaimKeeps ==
  ASSUME SettlementInv, NEW r \in Runs, ClaimSettlement(r)
  PROVE  SettlementInv'
PROOF
  <1>1. TypeOK /\ RunPart /\ RowPart
    BY InvParts
  <1>2. PICK p \in Payments :
          /\ Claimable(p)
          /\ lstatus' = [lstatus EXCEPT ![p] = "leased"]
          /\ claims' = [claims EXCEPT ![p] = @ + 1]
          /\ expires' = [expires EXCEPT ![p] = clock + LeaseTTL]
          /\ estatus' = [estatus EXCEPT ![p] = "in_progress"]
          /\ claim' = [claim EXCEPT ![r] = [payment |-> p, token |-> claims[p] + 1,
                                            expires |-> clock + LeaseTTL]]
    BY DEF ClaimSettlement
  <1>3. /\ pc[r] = "idle" /\ pc' = [pc EXCEPT ![r] = "preparing"]
        /\ UNCHANGED <<clock, pstatus, summary, confirmed, evidence, commandFor, slots, outcome,
                       jobs, answer, posts, applied>>
    BY DEF ClaimSettlement, workflowVars, evidenceVars, providerVars
  <1>4. lstatus[p] \in {"queued", "leased"} /\ claims[p] < MaxClaims
    BY <1>2 DEF Claimable
  <1>5. slots[p] = 0 /\ outcome[p] = None /\ jobs[p] = {} /\ pstatus[p] = "settlement_queued"
    BY <1>1, <1>4, RowFacts DEF RowPart
  <1>6. \A s \in Runs : Past(s) => s # r /\ claim[s].payment # p
    BY <1>1, <1>3, <1>5 DEF RunPart, FenceOwned, Past
  <1>7. /\ claim'[r].payment = p /\ claim'[r].token = claims[p] + 1 /\ pc'[r] = "preparing"
        /\ claims'[p] = claims[p] + 1
        /\ \A s \in Runs \ {r} : pc'[s] = pc[s] /\ claim'[s] = claim[s]
        /\ \A q \in Payments \ {p} : claims'[q] = claims[q]
    BY <1>1, <1>2, <1>3 DEF TypeOK
  <1>8. TypeOK'
    <2>1. [payment |-> p, token |-> claims[p] + 1, expires |-> clock + LeaseTTL]
            \in [payment : Payments \cup {None}, token : 0..MaxClaims, expires : 0..Never]
      BY <1>1, <1>4, ClaimsAssumption, SettlementLeaseAssumption, PaymentBounds DEF TypeOK, Never
    <2>2. claim' \in [Runs -> [payment : Payments \cup {None}, token : 0..MaxClaims,
                               expires : 0..Never]]
      BY <1>1, <1>2, <2>1 DEF TypeOK
    <2>3. claims' \in [Payments -> 0..MaxClaims] /\ expires' \in [Payments -> 0..Never]
      BY <1>1, <1>2, <1>4, ClaimsAssumption, SettlementLeaseAssumption, PaymentBounds
         DEF TypeOK, Never
    <2>4. \A s \in Runs : pc'[s] # "idle" => claim'[s].payment \in Payments
      BY <1>1, <1>7 DEF TypeOK
    <2>5. /\ lstatus' \in [Payments -> {"absent", "queued", "leased", "dispatch_fenced",
                                        "outcome_recorded", "manual_review"}]
          /\ estatus' \in [Payments -> {None, "in_progress", "retryable", "completed",
                                        "manual_review"}]
          /\ pc' \in [Runs -> {"idle", "preparing", "prepared", "fenced", "posting", "answered"}]
      BY <1>1, <1>2, <1>3 DEF TypeOK
    <2> QED BY <1>1, <1>3, <2>2, <2>3, <2>4, <2>5 DEF TypeOK
  <1>9. RunPart'
    <2>1. \A s \in Runs : pc[s] # "idle" => /\ claim[s].token \in Nat /\ claim[s].payment \in Payments
                                            /\ claims[claim[s].payment] \in Nat
      BY <1>1 DEF TypeOK
    <2>2. \A s \in Runs : pc[s] # "idle" => claim[s].token <= claims[claim[s].payment]
      BY <1>1 DEF RunPart, TokensFresh
    <2>3. TokensFresh'
      BY <1>3, <1>7, <2>1, <2>2, <1>1 DEF TokensFresh, TypeOK
    <2>4. TokensUnique'
      <3> SUFFICES ASSUME NEW s \in Runs, NEW u \in Runs, pc'[s] # "idle", pc'[u] # "idle",
                          SameClaim(s, u)', s # u
                   PROVE  FALSE
        BY DEF TokensUnique
      <3>1. CASE s # r /\ u # r
        BY <1>1, <1>7, <3>1 DEF RunPart, TokensUnique, SameClaim
      <3>2. CASE s = r
        BY <1>1, <1>7, <2>1, <2>2, <3>2 DEF SameClaim, TypeOK
      <3>3. CASE u = r
        BY <1>1, <1>7, <2>1, <2>2, <3>3 DEF SameClaim, TypeOK
      <3> QED BY <3>1, <3>2, <3>3
    <2>5. (FenceOwned /\ PostPending)'
      BY <1>1, <1>3, <1>6, <1>7, <2>1 DEF RunPart, FenceOwned, PostPending, Past
    <2>6. (PaidAtMostOnce /\ AnswersBacked)'
      BY <1>1, <1>3, <1>7 DEF RunPart, PaidAtMostOnce, AnswersBacked, Backed
    <2> QED BY <2>3, <2>4, <2>5, <2>6 DEF RunPart
  <1>10. RowPart'
    <2>1. RecordsAgree'
      <3>1. Agree(p)'
        <4>1. clock + LeaseTTL # Never
          BY <1>1, SettlementLeaseAssumption, PaymentBounds DEF TypeOK, Never
        <4> QED BY <1>1, <1>2, <1>3, <1>5, <4>1 DEF TypeOK, Agree
      <3>2. \A q \in Payments \ {p} : UNCHANGED Records(q)
        BY <1>1, <1>2, <1>3 DEF TypeOK, Records
      <3> QED BY <1>1, <3>1, <3>2, OthersAgree DEF RowPart
    <2>2. (Blank /\ OutcomesBacked)'
      BY <1>1, <1>2, <1>3, <1>5 DEF RowPart, Blank, OutcomesBacked, Backed, TypeOK
    <2>3. SettlementAuthorised'
      <3>1. \A q \in Payments : lstatus'[q] # "absent" => lstatus[q] # "absent"
        BY <1>1, <1>2, <1>4 DEF TypeOK
      <3> QED BY <1>1, <1>3, <3>1 DEF RowPart, SettlementAuthorised
    <2> QED BY <2>1, <2>2, <2>3 DEF RowPart
  <1> QED BY <1>8, <1>9, <1>10 DEF SettlementInv, RunPart, RowPart

(* Rows and provider rest while a run prepares, is refused or dispatches. *)
LEMMA RowsRest ==
  ASSUME RowPart, UNCHANGED <<pstatus, summary, confirmed, evidence, commandFor, estatus, lstatus,
                              slots, outcome, jobs, expires, posts, applied>>
  PROVE  RowPart'
PROOF
  BY DEF RowPart, RecordsAgree, Agree, Blank, OutcomesBacked, Backed, SettlementAuthorised

(* The steps of a run that write nothing: it prepares, or gets as far as the
   provider, or is refused there. *)
LEMMA RunMoves ==
  ASSUME SettlementInv, NEW r \in Runs, Prepare(r) \/ Dispatch(r)
  PROVE  SettlementInv'
PROOF
  <1>1. TypeOK /\ RunPart /\ RowPart
    BY InvParts
  <1>2. UNCHANGED <<clock, pstatus, summary, confirmed, evidence, commandFor, estatus, lstatus,
                    claims, expires, slots, outcome, jobs, claim, posts, applied>>
    BY DEF Prepare, Dispatch, workflowVars, evidenceVars, ledgerVars, providerVars
  <1>3. PICK s \in {"prepared", "posting", "answered"},
             a \in Dispatched \cup {None, "prepared", "retryable", "terminal"} :
          /\ pc' = [pc EXCEPT ![r] = s] /\ answer' = [answer EXCEPT ![r] = a]
          /\ s = "prepared" => pc[r] = "preparing"
          /\ s # "prepared" => pc[r] = "fenced"
          /\ s = "answered" => a = "dispatched_unknown"
    <2>1. CASE Prepare(r)
      BY <2>1 DEF Prepare
    <2>2. CASE Dispatch(r)
      <3>1. answer = [answer EXCEPT ![r] = answer[r]] /\
            answer[r] \in Dispatched \cup {None, "prepared", "retryable", "terminal"}
        BY <1>1 DEF TypeOK
      <3>2. "dispatched_unknown" \in Dispatched
        BY DEF Dispatched, Uncertain
      <3> QED BY <2>2, <3>1, <3>2 DEF Dispatch
    <2> QED BY <2>1, <2>2
  <1>4. /\ pc'[r] = s /\ answer'[r] = a /\ pc[r] \in {"preparing", "fenced"}
        /\ \A u \in Runs \ {r} : pc'[u] = pc[u] /\ answer'[u] = answer[u]
    BY <1>1, <1>3 DEF TypeOK
  <1>5. TypeOK'
    <2>1. pc' \in [Runs -> {"idle", "preparing", "prepared", "fenced", "posting", "answered"}]
      BY <1>1, <1>3 DEF TypeOK
    <2>2. answer' \in [Runs -> Dispatched \cup {None, "prepared", "retryable", "terminal"}]
      BY <1>1, <1>3 DEF TypeOK
    <2>3. \A u \in Runs : pc'[u] # "idle" => claim'[u].payment \in Payments
      BY <1>1, <1>2, <1>4 DEF TypeOK
    <2> QED BY <1>1, <1>2, <2>1, <2>2, <2>3 DEF TypeOK
  <1>6. (TokensFresh /\ TokensUnique)'
    BY <1>1, <1>2, <1>4 DEF RunPart, TokensFresh, TokensUnique, SameClaim
  <1>7. (FenceOwned /\ PostPending)'
    BY <1>1, <1>2, <1>3, <1>4 DEF RunPart, FenceOwned, PostPending, Past
  <1>8. (PaidAtMostOnce /\ AnswersBacked)'
    <2>1. s = "answered" => a \in Dispatched /\ Backed(claim[r].payment, a)'
      BY <1>3 DEF Dispatched, Uncertain, Backed
    <2> QED BY <1>1, <1>2, <1>4, <2>1 DEF RunPart, PaidAtMostOnce, AnswersBacked, Backed
  <1>9. RowPart'
    BY <1>1, <1>2, RowsRest
  <1> QED BY <1>5, <1>6, <1>7, <1>8, <1>9 DEF SettlementInv, RowPart

(* A run that gives up, is refused or dies leaves its row to the reconciler. *)
LEMMA RunStops ==
  ASSUME SettlementInv, NEW r \in Runs, RunRefused(r) \/ Crash(r)
  PROVE  SettlementInv'
PROOF
  <1>1. TypeOK /\ RunPart /\ RowPart
    BY InvParts
  <1>2. /\ EndRun(r)
        /\ UNCHANGED <<clock, pstatus, summary, confirmed, evidence, commandFor, estatus, lstatus,
                       claims, expires, slots, outcome, jobs, posts, applied>>
    BY DEF RunRefused, Crash, workflowVars, evidenceVars, ledgerVars, providerVars
  <1>3. RunPart'
    BY <1>1, <1>2, RunEnds
  <1>4. RowPart'
    BY <1>1, <1>2, RowsRest
  <1>5. RowTypes'
    BY <1>1, <1>2 DEF TypeOK, RowTypes
  <1>6. TypeOK'
    BY <1>1, <1>2, <1>5, TypesTogether
  <1> QED BY <1>3, <1>4, <1>6 DEF SettlementInv, RunPart, RowPart

(* A claim is given back only while the row is leased to it: nothing was sent. *)
LEMMA ReleaseKeeps ==
  ASSUME SettlementInv, NEW r \in Runs, ReleasePreDispatch(r)
  PROVE  SettlementInv'
PROOF
  <1> DEFINE p == claim[r].payment
  <1>1. TypeOK /\ RunPart /\ RowPart
    BY InvParts
  <1>2. /\ pc[r] = "prepared" /\ lstatus[p] = "leased" /\ EndRun(r)
        /\ Requeue(p) \/ CloseLedger(p, "not_dispatched")
        /\ UNCHANGED <<clock, summary, confirmed, evidence, commandFor, claims, slots, posts,
                       applied>>
    BY DEF ReleasePreDispatch, LiveClaim, evidenceVars, providerVars
  <1>3. p \in Payments
    BY <1>1, <1>2 DEF TypeOK
  <1>4. RowPart' /\ RowTypes'
    <2>1. CASE Requeue(p)
      <3> HIDE DEF p
      <3> QED BY <1>1, <1>2, <1>3, <2>1, RequeueKeeps
    <2>2. CASE CloseLedger(p, "not_dispatched")
      <3>1. Backed(p, "not_dispatched")
        BY DEF Backed
      <3> HIDE DEF p
      <3> QED BY <1>1, <1>2, <1>3, <2>2, <3>1, CloseKeeps
    <2> QED BY <1>2, <2>1, <2>2
  <1>5. RunPart'
    BY <1>1, <1>2, RunEnds
  <1>6. TypeOK'
    BY <1>1, <1>2, <1>4, TypesTogether
  <1> QED BY <1>4, <1>5, <1>6 DEF SettlementInv, RunPart, RowPart

(* An outcome is recorded for the answer the provider gave to this very claim. *)
LEMMA RecordKeeps ==
  ASSUME SettlementInv, NEW r \in Runs, RecordOutcome(r)
  PROVE  SettlementInv'
PROOF
  <1> DEFINE p == claim[r].payment
  <1> DEFINE a == answer[r]
  <1>1. TypeOK /\ RunPart /\ RowPart
    BY InvParts
  <1>2. /\ pc[r] = "answered" /\ lstatus[p] = "dispatch_fenced" /\ EndRun(r)
        /\ CloseLedger(p, a)
        /\ UNCHANGED <<clock, summary, confirmed, evidence, commandFor, claims, slots, posts,
                       applied>>
    BY DEF RecordOutcome, HoldsFence, evidenceVars, providerVars
  <1>3. p \in Payments
    BY <1>1, <1>2 DEF TypeOK
  <1>4. a \in Dispatched /\ Backed(p, a)
    BY <1>1, <1>2 DEF RunPart, AnswersBacked
  <1>5. RunPart'
    BY <1>1, <1>2, RunEnds
  <1>6. RowPart' /\ RowTypes'
    <2> HIDE DEF p, a
    <2> QED BY <1>1, <1>2, <1>3, <1>4, CloseKeeps
  <1>7. TypeOK'
    BY <1>1, <1>2, <1>6, TypesTogether
  <1> QED BY <1>5, <1>6, <1>7 DEF SettlementInv, RunPart, RowPart

(* The reconciler closes an expired fence as unknown, which is always true,
   and an expired lease, which has sent nothing. *)
LEMMA ReconcileKeeps ==
  ASSUME SettlementInv, NEW t, Reconcile(t)
  PROVE  SettlementInv'
PROOF
  <1>1. TypeOK /\ RunPart /\ RowPart
    BY InvParts
  <1>2. UNCHANGED <<clock, summary, confirmed, evidence, commandFor, claims, slots, pc, claim,
                    answer, posts, applied>>
    BY DEF Reconcile, RecoverFenced, RecoverPreDispatch, evidenceVars, runVars, providerVars
  <1>3. PICK p \in Payments :
          \/ lstatus[p] = "dispatch_fenced" /\ CloseLedger(p, "dispatched_unknown")
          \/ lstatus[p] = "leased" /\ (Requeue(p) \/ CloseLedger(p, "not_dispatched"))
    <2>1. CASE RecoverFenced(t)
      BY <2>1 DEF RecoverFenced, Expired
    <2>2. CASE RecoverPreDispatch(t)
      BY <2>2 DEF RecoverPreDispatch, Expired
    <2> QED BY <2>1, <2>2 DEF Reconcile
  <1>4. Backed(p, "dispatched_unknown") /\ Backed(p, "not_dispatched")
    BY DEF Backed
  <1>5. "dispatched_unknown" \in Dispatched
    BY DEF Dispatched, Uncertain
  <1>6. RowPart' /\ RowTypes'
    <2>1. CASE lstatus[p] = "dispatch_fenced" /\ CloseLedger(p, "dispatched_unknown")
      BY <1>1, <1>2, <1>4, <1>5, <2>1, CloseKeeps
    <2>2. CASE lstatus[p] = "leased" /\ CloseLedger(p, "not_dispatched")
      BY <1>1, <1>2, <1>4, <2>2, CloseKeeps
    <2>3. CASE lstatus[p] = "leased" /\ Requeue(p)
      BY <1>1, <1>2, <2>3, RequeueKeeps
    <2> QED BY <1>3, <2>1, <2>2, <2>3
  <1>7. RunPart'
    BY <1>1, <1>2 DEF RunPart, TokensFresh, TokensUnique, SameClaim, FenceOwned, PostPending,
                      Past, PaidAtMostOnce, AnswersBacked, Backed
  <1>8. TypeOK'
    BY <1>1, <1>2, <1>6, TypesTogether
  <1> QED BY <1>6, <1>7, <1>8 DEF SettlementInv, RunPart, RowPart

(* The fence spends a slot that no run has spent. *)
LEMMA FenceKeeps ==
  ASSUME SettlementInv, NEW r \in Runs, FenceSettlement(r)
  PROVE  SettlementInv'
PROOF
  <1> DEFINE p == claim[r].payment
  <1>1. TypeOK /\ RunPart /\ RowPart
    BY InvParts
  <1>2. /\ pc[r] = "prepared" /\ lstatus[p] = "leased" /\ claims[p] = claim[r].token
        /\ pstatus' = [pstatus EXCEPT ![p] = "settling"]
        /\ lstatus' = [lstatus EXCEPT ![p] = "dispatch_fenced"]
        /\ slots' = [slots EXCEPT ![p] = 1]
        /\ pc' = [pc EXCEPT ![r] = "fenced"]
        /\ UNCHANGED <<clock, summary, confirmed, evidence, commandFor, estatus, claims, expires,
                       outcome, jobs, claim, answer, posts, applied>>
    BY DEF FenceSettlement, LiveClaim, evidenceVars, providerVars
  <1>3. p \in Payments
    BY <1>1, <1>2 DEF TypeOK
  <1>4. /\ slots[p] = 0 /\ outcome[p] = None /\ jobs[p] = {} /\ posts[p] = 0
        /\ estatus[p] = "in_progress" /\ expires[p] # Never
    <2> HIDE DEF p
    <2>1. slots[p] = 0 /\ outcome[p] = None /\ jobs[p] = {}
      BY <1>1, <1>2, <1>3, RowFacts DEF RowPart
    <2>2. posts[p] = 0
      BY <1>1, <1>3, <2>1 DEF RowPart, Blank
    <2>3. estatus[p] = "in_progress" /\ expires[p] # Never
      BY <1>1, <1>2, <1>3 DEF RowPart, RecordsAgree, Agree
    <2> QED BY <2>1, <2>2, <2>3
  <1>5. /\ pc'[r] = "fenced" /\ slots'[p] = 1
        /\ pstatus'[p] = "settling" /\ lstatus'[p] = "dispatch_fenced"
        /\ \A s \in Runs \ {r} : pc'[s] = pc[s]
        /\ \A q \in Payments \ {p} : /\ slots'[q] = slots[q] /\ pstatus'[q] = pstatus[q]
                                     /\ lstatus'[q] = lstatus[q]
    <2> HIDE DEF p
    <2> QED BY <1>1, <1>2, <1>3 DEF TypeOK
  <1>6. TypeOK'
    <2> HIDE DEF p
    <2>1. /\ pc' \in [Runs -> {"idle", "preparing", "prepared", "fenced", "posting", "answered"}]
          /\ slots' \in [Payments -> {0, 1}]
      BY <1>1, <1>2, <1>3 DEF TypeOK
    <2>2. /\ pstatus' \in [Payments -> Open \cup {"settlement_queued", "settling", "paid",
                             "retryable", "manual_review", "expired", "cancelled"}]
          /\ lstatus' \in [Payments -> {"absent", "queued", "leased", "dispatch_fenced",
                                        "outcome_recorded", "manual_review"}]
      BY <1>1, <1>2, <1>3 DEF TypeOK
    <2>3. \A s \in Runs : pc'[s] # "idle" => claim'[s].payment \in Payments
      BY <1>1, <1>2, <1>5 DEF TypeOK
    <2> QED BY <1>1, <1>2, <2>1, <2>2, <2>3 DEF TypeOK
  <1>7. RunPart'
    <2>1. (TokensFresh /\ TokensUnique)'
      BY <1>1, <1>2, <1>5 DEF RunPart, TokensFresh, TokensUnique, SameClaim
    <2>2. \A s \in Runs : Past(s) => claim[s].payment \in Payments /\ claim[s].payment # p
      BY <1>1, <1>4 DEF RunPart, FenceOwned, Past, TypeOK
    <2>3. (FenceOwned /\ PostPending)'
      BY <1>1, <1>2, <1>4, <1>5, <2>2 DEF RunPart, FenceOwned, PostPending, Past
    <2>4. (PaidAtMostOnce /\ AnswersBacked)'
      BY <1>1, <1>2, <1>5 DEF RunPart, PaidAtMostOnce, AnswersBacked, Backed
    <2> QED BY <2>1, <2>3, <2>4 DEF RunPart
  <1>8. RowPart'
    <2> HIDE DEF p
    <2>1. RecordsAgree'
      <3>1. PICK f \in Payments : f = p
        BY <1>3
      <3>2. Agree(f)'
        BY <1>2, <1>4, <1>5, <3>1 DEF Agree
      <3>3. \A q \in Payments \ {f} : UNCHANGED Records(q)
        BY <1>2, <1>5, <3>1 DEF Records
      <3> QED BY <1>1, <3>2, <3>3, OthersAgree DEF RowPart
    <2>2. Blank'
      BY <1>1, <1>2, <1>4, <1>5 DEF RowPart, Blank
    <2>3. OutcomesBacked'
      BY <1>1, <1>2 DEF RowPart, OutcomesBacked, Backed
    <2>4. SettlementAuthorised'
      <3>1. \A q \in Payments : lstatus'[q] # "absent" => lstatus[q] # "absent"
        BY <1>2, <1>5
      <3> QED BY <1>1, <1>2, <3>1 DEF RowPart, SettlementAuthorised
    <2> QED BY <2>1, <2>2, <2>3, <2>4 DEF RowPart
  <1> QED BY <1>6, <1>7, <1>8 DEF SettlementInv, RunPart, RowPart

(* The run that posts is the only one of its payment past the fence. *)
LEMMA PostKeeps ==
  ASSUME SettlementInv, NEW r \in Runs, Post(r)
  PROVE  SettlementInv'
PROOF
  <1> DEFINE p == claim[r].payment
  <1>1. TypeOK /\ RunPart /\ RowPart
    BY InvParts
  <1>2. /\ pc[r] = "posting"
        /\ posts' = [posts EXCEPT ![p] = @ + 1]
        /\ pc' = [pc EXCEPT ![r] = "answered"]
        /\ UNCHANGED <<clock, pstatus, summary, confirmed, evidence, commandFor, estatus, lstatus,
                       claims, expires, slots, outcome, jobs, claim>>
    BY DEF Post, workflowVars, evidenceVars, ledgerVars
  <1>3. PICK n \in {0, 1}, a \in Dispatched :
          /\ a = "settled" => n = 1
          /\ a = "dispatched_no_effect" => n = 0
          /\ applied' = [applied EXCEPT ![p] = @ + n]
          /\ answer' = [answer EXCEPT ![r] = a]
    BY DEF Post
  <1>4. p \in Payments
    BY <1>1, <1>2 DEF TypeOK
  <1>5. posts[p] = 0 /\ applied[p] = 0 /\ slots[p] = 1
    <2>1. posts[p] = 0 /\ slots[p] = 1
      BY <1>1, <1>2 DEF RunPart, PostPending, FenceOwned, Past
    <2>2. applied[p] \in Nat /\ applied[p] <= posts[p]
      BY <1>1, <1>4 DEF RunPart, PaidAtMostOnce, TypeOK
    <2> QED BY <2>1, <2>2
  <1>6. /\ posts'[p] = 1 /\ applied'[p] = n /\ pc'[r] = "answered" /\ answer'[r] = a
        /\ \A s \in Runs \ {r} : pc'[s] = pc[s] /\ answer'[s] = answer[s]
        /\ \A q \in Payments \ {p} : posts'[q] = posts[q] /\ applied'[q] = applied[q]
    <2> HIDE DEF p
    <2> QED BY <1>1, <1>2, <1>3, <1>4, <1>5 DEF TypeOK
  <1>7. \A s \in Runs \ {r} : Past(s) => claim[s].payment # p
    BY <1>1, <1>2 DEF RunPart, FenceOwned, TokensUnique, SameClaim, Past
  <1>8. TypeOK'
    <2> HIDE DEF p
    <2>1. /\ pc' \in [Runs -> {"idle", "preparing", "prepared", "fenced", "posting", "answered"}]
          /\ answer' \in [Runs -> Dispatched \cup {None, "prepared", "retryable", "terminal"}]
      BY <1>1, <1>2, <1>3 DEF TypeOK
    <2>2. posts' \in [Payments -> Nat] /\ applied' \in [Payments -> Nat]
      BY <1>1, <1>2, <1>3, <1>4 DEF TypeOK
    <2>3. \A s \in Runs : pc'[s] # "idle" => claim'[s].payment \in Payments
      BY <1>1, <1>2, <1>6 DEF TypeOK
    <2> QED BY <1>1, <1>2, <2>1, <2>2, <2>3 DEF TypeOK
  <1>9. RunPart'
    <2>1. (TokensFresh /\ TokensUnique)'
      BY <1>1, <1>2, <1>6 DEF RunPart, TokensFresh, TokensUnique, SameClaim
    <2>2. \A s \in Runs : Past(s) => claim[s].payment \in Payments
      BY <1>1 DEF Past, TypeOK
    <2>3. FenceOwned'
      BY <1>1, <1>2, <1>6 DEF RunPart, FenceOwned, Past
    <2>4. PostPending'
      BY <1>1, <1>2, <1>6, <1>7, <2>2 DEF RunPart, PostPending, Past
    <2>5. PaidAtMostOnce'
      BY <1>1, <1>6 DEF RunPart, PaidAtMostOnce
    <2>6. AnswersBacked'
      BY <1>1, <1>2, <1>3, <1>6, <1>7, <2>2 DEF RunPart, AnswersBacked, Backed, Past
    <2> QED BY <2>1, <2>3, <2>4, <2>5, <2>6 DEF RunPart
  <1>10. RowPart'
    <2> HIDE DEF p
    <2>1. RecordsAgree'
      BY <1>1, <1>2 DEF RowPart, RecordsAgree, Agree
    <2>2. Blank'
      BY <1>1, <1>2, <1>5, <1>6 DEF RowPart, Blank
    <2>3. OutcomesBacked'
      BY <1>1, <1>2, <1>4, <1>5, <1>6 DEF RowPart, OutcomesBacked, Backed
    <2>4. SettlementAuthorised'
      BY <1>1, <1>2 DEF RowPart, SettlementAuthorised
    <2> QED BY <2>1, <2>2, <2>3, <2>4 DEF RowPart
  <1> QED BY <1>8, <1>9, <1>10 DEF SettlementInv, RunPart, RowPart
-----------------------------------------------------------------------------
(* Time alone, and a poll that finds nothing, disturb no record. *)
LEMMA ClockKeeps ==
  ASSUME SettlementInv, Tick \/ UNCHANGED vars
  PROVE  SettlementInv'
PROOF
  <1>1. /\ UNCHANGED <<pstatus, summary, confirmed, evidence, commandFor, estatus, lstatus,
                       claims, expires, slots, outcome, jobs, pc, claim, answer, posts, applied>>
        /\ clock' \in {clock, clock + 1} /\ (clock' # clock => clock < MaxTime)
    BY DEF Tick, vars, workflowVars, evidenceVars, ledgerVars, runVars, providerVars
  <1>2. TypeOK /\ RunPart /\ RowPart
    BY InvParts
  <1>3. TypeOK'
    <2>1. clock' \in 0..MaxTime
      BY <1>1, <1>2, PaymentBounds DEF TypeOK
    <2> QED BY <1>1, <1>2, <2>1 DEF TypeOK
  <1>4. RunPart'
    BY <1>1, <1>2 DEF RunPart, TokensFresh, TokensUnique, SameClaim, FenceOwned, PostPending,
                      Past, PaidAtMostOnce, AnswersBacked, Backed
  <1>5. RowPart'
    BY <1>1, <1>2, RowsRest
  <1> QED BY <1>3, <1>4, <1>5 DEF SettlementInv, RunPart, RowPart

(* Every step of the specification preserves the invariant. *)
LEMMA SettlementStep == SettlementInv /\ [Next]_vars => SettlementInv'
PROOF
  <1> SUFFICES ASSUME SettlementInv, [Next]_vars PROVE SettlementInv'
    OBVIOUS
  <1>1. CASE Tick \/ UNCHANGED vars
    BY <1>1, ClockKeeps
  <1>2. ASSUME NEW p \in Payments,
               \/ SelectMethod(p)
               \/ \E s \in 1..MaxSummary : RecordSummary(p, s) \/ ConfirmSummary(p, s)
               \/ \E s \in {"expired", "cancelled"} : ClosePayment(p, s)
        PROVE  SettlementInv'
    BY <1>2, CustomerSteps, CustomerKeeps
  <1>3. ASSUME NEW p \in Payments, NEW e \in Evidence, ClaimEvidence(p, e)
        PROVE  SettlementInv'
    BY <1>3, EvidenceKeeps
  <1>4. ASSUME NEW r \in Runs, RunStep(r) \/ Crash(r) PROVE SettlementInv'
    <2>1. CASE ClaimSettlement(r)
      BY <2>1, ClaimKeeps
    <2>2. CASE Prepare(r) \/ Dispatch(r)
      BY <2>2, RunMoves
    <2>3. CASE ReleasePreDispatch(r)
      BY <2>3, ReleaseKeeps
    <2>4. CASE FenceSettlement(r)
      BY <2>4, FenceKeeps
    <2>5. CASE Post(r)
      BY <2>5, PostKeeps
    <2>6. CASE RecordOutcome(r)
      BY <2>6, RecordKeeps
    <2>7. CASE RunRefused(r) \/ Crash(r)
      BY <2>7, RunStops
    <2> QED BY <1>4, <2>1, <2>2, <2>3, <2>4, <2>5, <2>6, <2>7 DEF RunStep
  <1>5. ASSUME NEW r \in Runs, ClaimNothing(r) PROVE SettlementInv'
    BY <1>1, <1>5 DEF ClaimNothing
  <1>6. ASSUME NEW t \in 0..clock, Reconcile(t) PROVE SettlementInv'
    BY <1>6, ReconcileKeeps
  <1> QED BY <1>1, <1>2, <1>3, <1>4, <1>5, <1>6 DEF Next

(* The inductive invariant holds in every reachable state. *)
THEOREM SettlementInductive == Spec => []SettlementInv
PROOF
  <1>1. Init => SettlementInv
    BY SettlementInit
  <1>2. SettlementInv /\ [Next]_vars => SettlementInv'
    BY SettlementStep
  <1> QED BY <1>1, <1>2, PTL DEF Spec

(* Workflow, evidence claim, ledger and outbox of a payment agree: the checks
   of _payment_financial_records never refuse what the store itself wrote. *)
THEOREM RecordsAlwaysAgree == Spec => []RecordsAgree
PROOF
  <1>1. SettlementInv => RecordsAgree
    BY DEF SettlementInv
  <1> QED BY <1>1, SettlementInductive, PTL

(* One request to the provider per payment at most, whoever crashes, stalls
   or takes a lease over. *)
THEOREM NeverPaidTwice == Spec => []PaidAtMostOnce
PROOF
  <1>1. SettlementInv => PaidAtMostOnce
    BY DEF SettlementInv
  <1> QED BY <1>1, SettlementInductive, PTL

(* The settled command is for the summary the customer confirmed last, and no
   evidence pays twice. *)
THEOREM OnlyAuthorised == Spec => []SettlementAuthorised
PROOF
  <1>1. SettlementInv => SettlementAuthorised
    BY DEF SettlementInv
  <1> QED BY <1>1, SettlementInductive, PTL

(* Paid means registered at the provider; not dispatched means that it was
   not asked and that no run can still ask it. *)
THEOREM OutcomesTruthful == Spec => []OutcomeTruthful
PROOF
  <1>1. SettlementInv => OutcomeTruthful
    <2> SUFFICES ASSUME SettlementInv, NEW p \in Payments
                 PROVE  /\ pstatus[p] = "paid" => applied[p] = 1
                        /\ outcome[p] = "dispatched_no_effect" => applied[p] = 0
                        /\ outcome[p] = "not_dispatched" =>
                             /\ posts[p] = 0
                             /\ \A r \in Runs : claim[r].payment = p =>
                                                  pc[r] \notin {"fenced", "posting"}
      BY DEF OutcomeTruthful
    <2>1. /\ pstatus[p] = "paid" => outcome[p] = "settled"
          /\ outcome[p] = "not_dispatched" => slots[p] = 0
      BY DEF SettlementInv, TypeOK, RecordsAgree, Agree, Blank, Open, None, Uncertain
    <2>2. Backed(p, outcome[p])
      BY DEF SettlementInv, OutcomesBacked
    <2>3. slots[p] = 0 => posts[p] = 0
      BY DEF SettlementInv, Blank
    <2>4. slots[p] = 0 => \A r \in Runs : claim[r].payment = p => pc[r] \notin {"fenced", "posting"}
      BY DEF SettlementInv, FenceOwned, Past
    <2> QED BY <2>1, <2>2, <2>3, <2>4 DEF Backed
  <1> QED BY <1>1, SettlementInductive, PTL
=============================================================================
