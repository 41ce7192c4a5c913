----------------------- MODULE HandoffDeliveryProofs -----------------------
(* A handoff is refused only for a row under review or a late receipt, its    *)
(* effects happen at most once, unknown results are recorded and a cancelled  *)
(* handoff is quiet, for any number of handoffs and worker runs.              *)
EXTENDS HandoffDelivery, TLAPS

(* What _load_handoff asks of a workflow, and of its rows beside their status:
   true in every state, also of the handoffs it refuses. *)
WorkflowsLoad ==
  \A h \in Handoffs :
    /\ acked[h] <=> Ack(h) \in receipts
    /\ hstatus[h] = "acknowledged" => acked[h] /\ ~conflict[h]
    /\ hstatus[h] = "manual_review" => conflict[h] \/ (Ack(h) \in failed /\ ~acked[h])
    /\ hstatus[h] = "acknowledgement_pending" =>
         ~acked[h] /\ ~conflict[h] /\ Ack(h) \notin failed

RowsLoad ==
  \A j \in Jobs :
    /\ status[j] = "pending" /\ token[j] > 0 => j \in failed
    /\ j \in failed => token[j] > 0
    /\ status[j] = "delivered" <=> j \in receipts

(* A handoff and its rows appear together, and a leased row was claimed. *)
RowsOpened ==
  /\ \A h \in Handoffs : hstatus[h] = "absent" => ~conflict[h]
  /\ \A j \in Jobs : /\ hstatus[Handoff(j)] = "absent" <=> status[j] = "absent"
                     /\ status[j] = "absent" => token[j] = 0
                     /\ status[j] = "leased" => token[j] > 0

(* A lease is dated after the request and before its end, a delivered row was
   claimed, and a late receipt is a receipt. *)
LeasesDated ==
  /\ late \subseteq receipts
  /\ \A j \in Jobs :
       /\ status[j] = "delivered" => token[j] > 0
       /\ status[j] = "leased" => /\ requestedAt[Handoff(j)] <= updatedAt[j]
                                  /\ updatedAt[j] < expires[j]

(* Only a consumed slot allows an effect, and it allows one. *)
EffectsCounted ==
  \A j \in Jobs :
    /\ status[j] \in {"absent", "pending"} => slot[j] = 0
    /\ slot[j] = 0 => sends[j] = 0
    /\ sends[j] <= 1
    /\ status[j] = "delivered" => sends[j] = 1

Dispatched(r) == pc[r] \in {"dispatching", "answered"}

(* No claim is newer than its row; while a run is beyond the dispatch no later
   claim of its row exists. *)
ClaimsFenced ==
  \A r \in Runs : pc[r] # "idle" =>
    /\ claim[r].token <= token[claim[r].job]
    /\ Dispatched(r) => /\ claim[r].token = token[claim[r].job]
                        /\ slot[claim[r].job] = 1
                        /\ status[claim[r].job] \in {"leased", "manual_review"}

(* No two runs have the same claim. *)
ClaimsUnique ==
  \A r, q \in Runs :
    /\ pc[r] # "idle" /\ pc[q] # "idle"
    /\ claim[r].job = claim[q].job /\ claim[r].token = claim[q].token
    => r = q

(* What the adapter answered tells whether it had an effect. *)
AnswersTrue ==
  \A r \in Runs :
    /\ pc[r] = "dispatching" => sends[claim[r].job] = 0
    /\ pc[r] = "answered" =>
         /\ answer[r] # "none"
         /\ answer[r] \in Received => sends[claim[r].job] = 1
         /\ answer[r] = "not_called" => sends[claim[r].job] = 0

HandoffInv ==
  /\ TypeOK
  /\ WorkflowsLoad /\ RowsLoad /\ RowsOpened /\ UnknownIsVisible
  /\ LeasesDated /\ EffectsCounted /\ ClaimsFenced /\ ClaimsUnique /\ AnswersTrue
-----------------------------------------------------------------------------
(* Every job belongs to a handoff, and the acknowledgement of a handoff is one
   job. *)
LEMMA JobFacts ==
  /\ \A j \in Jobs : Handoff(j) \in Handoffs /\ (IsAck(j) <=> j = Ack(Handoff(j)))
  /\ \A h \in Handoffs : Ack(h) \in Jobs /\ Handoff(Ack(h)) = h /\ IsAck(Ack(h))
PROOF
  <1>1. ASSUME NEW j \in Jobs
        PROVE  Handoff(j) \in Handoffs /\ (IsAck(j) <=> j = Ack(Handoff(j)))
    <2>1. CASE \E h \in Handoffs : j = Ack(h)
      BY <2>1 DEF Handoff, IsAck, Ack
    <2>2. CASE \E h \in EmailHandoffs : j = <<h, "internal_email">>
      BY <2>2, HandoffsAssumption DEF Handoff, IsAck, Ack
    <2> QED BY <1>1, <2>1, <2>2 DEF Jobs
  <1>2. ASSUME NEW h \in Handoffs
        PROVE  Ack(h) \in Jobs /\ Handoff(Ack(h)) = h /\ IsAck(Ack(h))
    BY DEF Jobs, Handoff, IsAck, Ack
  <1> QED BY <1>1, <1>2

(* The empty claim has its type, and so have the times the worker writes. *)
LEMMA TimeFacts ==
  /\ NoClaim \in Claim /\ Never \in Time
  /\ \A t \in 0..MaxTime : t + LeaseTTL \in Time
PROOF
  BY HandoffLeaseAssumption, HandoffBounds DEF NoClaim, Claim, Never, Time

(* Nothing is requested at first. *)
LEMMA HandoffInit == Init => HandoffInv
PROOF
  <1> SUFFICES ASSUME Init PROVE HandoffInv
    OBVIOUS
  <1>1. TypeOK
    BY TimeFacts, HandoffBounds DEF Init, TypeOK
  <1>2. WorkflowsLoad /\ RowsLoad /\ RowsOpened /\ UnknownIsVisible
    BY JobFacts DEF Init, WorkflowsLoad, RowsLoad, RowsOpened, UnknownIsVisible
  <1>3. EffectsCounted /\ ClaimsFenced /\ ClaimsUnique /\ AnswersTrue
    BY DEF Init, EffectsCounted, ClaimsFenced, ClaimsUnique, AnswersTrue
  <1>4. LeasesDated
    BY DEF Init, LeasesDated
  <1> QED BY <1>1, <1>2, <1>3, <1>4 DEF HandoffInv

(* The end of a run takes its claim away and leaves the other runs alone. *)
LEMMA RunEnds ==
  ASSUME TypeOK, NEW r \in Runs, EndRun(r)
  PROVE  /\ pc' \in [Runs -> {"idle", "claimed", "dispatching", "answered"}]
         /\ claim' \in [Runs -> Claim]
         /\ answer' \in [Runs -> {"none", "receipt", "late_receipt", "unknown", "not_called"}]
         /\ pc'[r] = "idle"
         /\ \A q \in Runs \ {r} : pc'[q] = pc[q] /\ claim'[q] = claim[q] /\ answer'[q] = answer[q]
         /\ \A q \in Runs : pc'[q] # "idle" => claim'[q].job \in Jobs
PROOF
  <1>1. /\ pc' \in [Runs -> {"idle", "claimed", "dispatching", "answered"}]
        /\ claim' \in [Runs -> Claim]
        /\ answer' \in [Runs -> {"none", "receipt", "late_receipt", "unknown", "not_called"}]
    BY TimeFacts DEF TypeOK, EndRun
  <1>2. /\ pc'[r] = "idle"
        /\ \A q \in Runs \ {r} : pc'[q] = pc[q] /\ claim'[q] = claim[q] /\ answer'[q] = answer[q]
    BY DEF TypeOK, EndRun
  <1> QED BY <1>1, <1>2 DEF TypeOK

(* A run that ends without a write keeps the invariant. *)
LEMMA EndStep ==
  ASSUME HandoffInv, NEW r \in Runs, EndRun(r),
         UNCHANGED <<clock, workflowVars, rowVars, adapterVars>>
  PROVE  HandoffInv'
PROOF
  <1> USE DEF HandoffInv, workflowVars, rowVars, adapterVars
  <1>1. TypeOK'
    BY RunEnds DEF TypeOK
  <1>2. (WorkflowsLoad /\ RowsLoad /\ RowsOpened /\ UnknownIsVisible)'
    BY DEF WorkflowsLoad, RowsLoad, RowsOpened, UnknownIsVisible
  <1>3. EffectsCounted'
    BY DEF EffectsCounted
  <1>4. (ClaimsFenced /\ ClaimsUnique /\ AnswersTrue)'
    BY RunEnds DEF ClaimsFenced, ClaimsUnique, AnswersTrue, Dispatched
  <1>5. LeasesDated'
    BY DEF LeasesDated
  <1> QED BY <1>1, <1>2, <1>3, <1>4, <1>5

(* The passage of time keeps the invariant. *)
LEMMA TickStep == ASSUME HandoffInv, Tick PROVE HandoffInv'
PROOF
  <1> USE DEF HandoffInv, Tick, workflowVars, rowVars, adapterVars, runVars
  <1>1. TypeOK'
    BY HandoffBounds DEF TypeOK
  <1>2. (WorkflowsLoad /\ RowsLoad /\ RowsOpened /\ UnknownIsVisible)'
    BY DEF WorkflowsLoad, RowsLoad, RowsOpened, UnknownIsVisible
  <1>3. (EffectsCounted /\ ClaimsFenced /\ ClaimsUnique /\ AnswersTrue)'
    BY DEF EffectsCounted, ClaimsFenced, ClaimsUnique, AnswersTrue, Dispatched
  <1>4. LeasesDated'
    BY DEF LeasesDated
  <1> QED BY <1>1, <1>2, <1>3, <1>4

(* A request creates the workflow and its rows together, with no claim. *)
LEMMA OpenStep == ASSUME HandoffInv, NEW h \in Handoffs, OpenHandoff(h) PROVE HandoffInv'
PROOF
  <1> USE DEF HandoffInv, OpenHandoff, adapterVars, runVars
  <1>0. /\ \A j \in Jobs : status'[j] = IF Handoff(j) = h THEN "pending" ELSE status[j]
        /\ \A j \in Jobs : Handoff(j) = h => status[j] = "absent"
        /\ \A g \in Handoffs : hstatus'[g] = IF g = h THEN "acknowledgement_pending" ELSE hstatus[g]
    BY DEF TypeOK, RowsOpened
  <1>1. TypeOK'
    <2>1. /\ hstatus' \in [Handoffs -> {"absent", "acknowledgement_pending", "acknowledged",
                                        "manual_review", "cancelled"}]
          /\ requestedAt' \in [Handoffs -> 0..MaxTime]
          /\ status' \in [Jobs -> {"absent", "pending", "leased", "delivered", "manual_review"}]
          /\ updatedAt' \in [Jobs -> 0..MaxTime]
      BY DEF TypeOK
    <2> QED BY <2>1 DEF TypeOK
  <1>2. (WorkflowsLoad /\ RowsLoad)'
    <2>1. /\ ~acked[h] /\ ~conflict[h]
          /\ \A j \in Jobs : Handoff(j) = h => j \notin failed \cup receipts /\ ~(token[j] > 0)
      BY <1>0, JobFacts DEF WorkflowsLoad, RowsLoad, RowsOpened
    <2>2. WorkflowsLoad'
      BY <1>0, <2>1, JobFacts DEF WorkflowsLoad
    <2>3. RowsLoad'
      BY <1>0, <2>1 DEF RowsLoad
    <2> QED BY <2>2, <2>3
  <1>3. (RowsOpened /\ UnknownIsVisible)'
    BY <1>0, JobFacts DEF TypeOK, RowsOpened, UnknownIsVisible
  <1>4. (EffectsCounted /\ ClaimsUnique /\ AnswersTrue)'
    BY <1>0 DEF EffectsCounted, ClaimsUnique, AnswersTrue
  <1>5. ClaimsFenced'
    BY <1>0 DEF TypeOK, ClaimsFenced, Dispatched
  <1>6. LeasesDated'
    BY <1>0, JobFacts DEF TypeOK, LeasesDated
  <1> QED BY <1>1, <1>2, <1>3, <1>4, <1>5, <1>6

(* A conflicting request sends the workflow to review. *)
LEMMA ConflictStep ==
  ASSUME HandoffInv, NEW h \in Handoffs, RequestConflict(h) PROVE HandoffInv'
PROOF
  <1> USE DEF HandoffInv, RequestConflict, adapterVars, runVars, rowVars
  <1>0. /\ \A g \in Handoffs : hstatus'[g] = IF g = h THEN "manual_review" ELSE hstatus[g]
        /\ \A g \in Handoffs : conflict'[g] <=> (g = h \/ conflict[g])
    BY DEF TypeOK
  <1>1. TypeOK'
    BY DEF TypeOK
  <1>2. (WorkflowsLoad /\ RowsLoad)'
    BY <1>0, JobFacts DEF WorkflowsLoad, RowsLoad
  <1>3. (RowsOpened /\ UnknownIsVisible)'
    BY <1>0, JobFacts DEF RowsOpened, UnknownIsVisible
  <1>4. (EffectsCounted /\ ClaimsFenced /\ ClaimsUnique /\ AnswersTrue)'
    BY DEF EffectsCounted, ClaimsFenced, ClaimsUnique, AnswersTrue, Dispatched
  <1>5. LeasesDated'
    BY DEF LeasesDated
  <1> QED BY <1>1, <1>2, <1>3, <1>4, <1>5

(* A cancellation changes the workflow and no row. *)
LEMMA CancelStep ==
  ASSUME HandoffInv, NEW h \in Handoffs, CancelHandoff(h) PROVE HandoffInv'
PROOF
  <1> USE DEF HandoffInv, CancelHandoff, adapterVars, runVars, rowVars
  <1>0. \A g \in Handoffs : hstatus'[g] = IF g = h THEN "cancelled" ELSE hstatus[g]
    BY DEF TypeOK
  <1>1. TypeOK'
    BY DEF TypeOK
  <1>2. (WorkflowsLoad /\ RowsLoad)'
    BY <1>0, JobFacts DEF WorkflowsLoad, RowsLoad
  <1>3. (RowsOpened /\ UnknownIsVisible)'
    BY <1>0, JobFacts DEF RowsOpened, UnknownIsVisible
  <1>4. (EffectsCounted /\ ClaimsFenced /\ ClaimsUnique /\ AnswersTrue)'
    BY DEF EffectsCounted, ClaimsFenced, ClaimsUnique, AnswersTrue, Dispatched
  <1>5. LeasesDated'
    BY DEF LeasesDated
  <1> QED BY <1>1, <1>2, <1>3, <1>4, <1>5
-----------------------------------------------------------------------------
(* The failures a recovery or a release records leave every workflow loadable
   and put the unacknowledged ones under review. *)
LEMMA FailuresRecorded ==
  ASSUME HandoffInv, NEW J \in SUBSET Jobs,
         \A j \in J : status[j] = "leased" /\ (j \in failed \/ FailureApplies(j)),
         failed' = failed \cup J, hstatus' = StatusAfterFailures(J),
         UNCHANGED <<acked, conflict, receipts>>
  PROVE  /\ hstatus' \in [Handoffs -> {"absent", "acknowledgement_pending", "acknowledged",
                                       "manual_review", "cancelled"}]
         /\ failed' \subseteq Jobs
         /\ WorkflowsLoad'
         /\ \A h \in Handoffs : /\ hstatus'[h] = "absent" <=> hstatus[h] = "absent"
                                /\ hstatus[h] \in {"manual_review", "cancelled"} =>
                                     hstatus'[h] \in {"manual_review", "cancelled"}
         /\ \A j \in J : IsAck(j) => hstatus'[Handoff(j)] \in {"manual_review", "cancelled"}
PROOF
  <1> USE DEF HandoffInv
  <1>0. \A h \in Handoffs : hstatus'[h] = IF Ack(h) \in J \ failed /\ ~acked[h]
                                           THEN "manual_review" ELSE hstatus[h]
    BY DEF StatusAfterFailures
  <1>1. /\ hstatus' \in [Handoffs -> {"absent", "acknowledgement_pending", "acknowledged",
                                      "manual_review", "cancelled"}]
        /\ failed' \subseteq Jobs
    BY DEF TypeOK, StatusAfterFailures
  <1>2. WorkflowsLoad'
    BY <1>0, JobFacts DEF TypeOK, WorkflowsLoad
  <1>3. ASSUME NEW h \in Handoffs
        PROVE  /\ hstatus'[h] = "absent" <=> hstatus[h] = "absent"
               /\ hstatus[h] \in {"manual_review", "cancelled"} =>
                    hstatus'[h] \in {"manual_review", "cancelled"}
    BY <1>0, JobFacts DEF RowsOpened
  <1>4. ASSUME NEW j \in J, IsAck(j)
        PROVE  hstatus'[Handoff(j)] \in {"manual_review", "cancelled"}
    <2>1. PICK h \in Handoffs : j = Ack(h) /\ Handoff(j) = h
      BY <1>4, JobFacts
    <2>2. ~acked[h] /\ hstatus[h] # "absent"
      BY <2>1, JobFacts DEF WorkflowsLoad, RowsLoad, RowsOpened
    <2>3. CASE j \notin failed
      BY <2>1, <2>2, <2>3, <1>0
    <2>4. CASE j \in failed
      <3>1. hstatus[h] \in {"manual_review", "cancelled"}
        BY <2>1, <2>2, <2>4 DEF TypeOK, WorkflowsLoad
      <3> QED BY <3>1, <2>1, <1>0
    <2> QED BY <2>3, <2>4
  <1> QED BY <1>1, <1>2, <1>3, <1>4

(* The recovery never raises where the claim succeeds. *)
LEMMA UncertainFacts ==
  ASSUME HandoffInv, NEW t \in Nat, ~ClaimRaises(t)
  PROVE  /\ Uncertain(t) \in SUBSET Jobs
         /\ \A j \in Uncertain(t) : /\ status[j] = "leased" /\ slot[j] = 1
                                    /\ (j \in failed \/ FailureApplies(j))
PROOF
  BY DEF Uncertain, ClaimRaises, RecoveryRaises

(* A claim that finds nothing still sends uncertain rows to review. *)
LEMMA NothingStep ==
  ASSUME HandoffInv, NEW r \in Runs, NEW t \in 0..clock, ClaimNothing(r, t)
  PROVE  HandoffInv'
PROOF
  <1> USE DEF HandoffInv, ClaimNothing, RecoverUncertain, adapterVars, runVars
  <1>0. t \in Nat /\ t \in 0..MaxTime
    BY HandoffBounds DEF TypeOK
  <1>1. /\ Uncertain(t) \in SUBSET Jobs
        /\ \A j \in Uncertain(t) : /\ status[j] = "leased" /\ slot[j] = 1
                                   /\ (j \in failed \/ FailureApplies(j))
    BY <1>0, UncertainFacts
  <1>2. /\ hstatus' \in [Handoffs -> {"absent", "acknowledgement_pending", "acknowledged",
                                      "manual_review", "cancelled"}]
        /\ failed' \subseteq Jobs
        /\ WorkflowsLoad'
        /\ \A h \in Handoffs : /\ hstatus'[h] = "absent" <=> hstatus[h] = "absent"
                               /\ hstatus[h] \in {"manual_review", "cancelled"} =>
                                    hstatus'[h] \in {"manual_review", "cancelled"}
        /\ \A j \in Uncertain(t) :
             IsAck(j) => hstatus'[Handoff(j)] \in {"manual_review", "cancelled"}
    BY <1>1, FailuresRecorded
  <1>3. \A j \in Jobs : status'[j] = IF j \in Uncertain(t) THEN "manual_review" ELSE status[j]
    OBVIOUS
  <1>4. TypeOK'
    <2>1. /\ status' \in [Jobs -> {"absent", "pending", "leased", "delivered", "manual_review"}]
          /\ expires' \in [Jobs -> Time] /\ updatedAt' \in [Jobs -> 0..MaxTime]
      BY <1>0, TimeFacts DEF TypeOK
    <2> QED BY <1>2, <2>1 DEF TypeOK
  <1>5. RowsLoad'
    BY <1>1, <1>3 DEF RowsLoad, RowsOpened
  <1>6. RowsOpened'
    BY <1>1, <1>2, <1>3, JobFacts DEF RowsOpened
  <1>7. UnknownIsVisible'
    BY <1>1, <1>2, <1>3, JobFacts DEF UnknownIsVisible
  <1>8. (EffectsCounted /\ ClaimsUnique /\ AnswersTrue)'
    BY <1>1, <1>3 DEF EffectsCounted, ClaimsUnique, AnswersTrue
  <1>9. ClaimsFenced'
    BY <1>3 DEF TypeOK, ClaimsFenced, Dispatched
  <1>10. LeasesDated'
    BY <1>3 DEF LeasesDated
  <1> QED BY <1>2, <1>4, <1>5, <1>6, <1>7, <1>8, <1>9, <1>10

(* A claim leases a row nobody has dispatched. *)
LEMMA ClaimStep ==
  ASSUME HandoffInv, NEW r \in Runs, NEW t \in 0..clock, ClaimJob(r, t)
  PROVE  HandoffInv'
PROOF
  <1> USE DEF HandoffInv
  <1>0. t \in Nat /\ t \in 0..MaxTime
    BY HandoffBounds DEF TypeOK
  <1>1. /\ Uncertain(t) \in SUBSET Jobs
        /\ \A j \in Uncertain(t) : /\ status[j] = "leased" /\ slot[j] = 1
                                   /\ (j \in failed \/ FailureApplies(j))
    BY <1>0, UncertainFacts DEF ClaimJob
  <1>2. /\ hstatus' \in [Handoffs -> {"absent", "acknowledgement_pending", "acknowledged",
                                      "manual_review", "cancelled"}]
        /\ failed' \subseteq Jobs
        /\ WorkflowsLoad'
        /\ \A h \in Handoffs : /\ hstatus'[h] = "absent" <=> hstatus[h] = "absent"
                               /\ hstatus[h] \in {"manual_review", "cancelled"} =>
                                    hstatus'[h] \in {"manual_review", "cancelled"}
        /\ \A j \in Uncertain(t) :
             IsAck(j) => hstatus'[Handoff(j)] \in {"manual_review", "cancelled"}
    BY <1>1, FailuresRecorded DEF ClaimJob, RecoverUncertain
  <1>3. PICK c \in Jobs :
          /\ IsHead(c, t)
          /\ status' = [j \in Jobs |-> IF j \in Uncertain(t) THEN "manual_review"
                                       ELSE IF j = c THEN "leased" ELSE status[j]]
          /\ expires' = [j \in Jobs |-> IF j \in Uncertain(t) THEN Never
                                        ELSE IF j = c THEN t + LeaseTTL ELSE expires[j]]
          /\ updatedAt' = [j \in Jobs |-> IF j \in Uncertain(t) \cup {c} THEN t ELSE updatedAt[j]]
          /\ token' = [token EXCEPT ![c] = @ + 1]
          /\ claim' = [claim EXCEPT ![r] = [job |-> c, token |-> token[c] + 1,
                                            expires |-> t + LeaseTTL]]
    BY DEF ClaimJob
  <1>4. /\ c \notin Uncertain(t) /\ slot[c] = 0
        /\ status[c] \in {"pending", "leased"}
    BY <1>3 DEF IsHead, Claimable, Uncertain, TypeOK, EffectsCounted
  <1>5. /\ \A j \in Jobs : status'[j] = IF j \in Uncertain(t) THEN "manual_review"
                                        ELSE IF j = c THEN "leased" ELSE status[j]
        /\ \A j \in Jobs : token'[j] = IF j = c THEN token[c] + 1 ELSE token[j]
        /\ pc'[r] = "claimed" /\ claim'[r].job = c /\ claim'[r].token = token[c] + 1
        /\ \A q \in Runs \ {r} : pc'[q] = pc[q] /\ claim'[q] = claim[q]
        /\ UNCHANGED <<slot, receipts, late, answer, sends, notCalled, clock,
                       requestedAt, acked, conflict>>
        /\ failed' = failed \cup Uncertain(t)
    BY <1>3 DEF TypeOK, ClaimJob, RecoverUncertain, adapterVars
  <1>6. TypeOK'
    <2>1. /\ status' \in [Jobs -> {"absent", "pending", "leased", "delivered", "manual_review"}]
          /\ updatedAt' \in [Jobs -> 0..MaxTime]
      BY <1>0, <1>3 DEF TypeOK
    <2>2. expires' \in [Jobs -> Time]
      BY <1>0, <1>3, TimeFacts DEF TypeOK
    <2>3. token' \in [Jobs -> Nat]
      BY <1>3 DEF TypeOK
    <2>4. [job |-> c, token |-> token[c] + 1, expires |-> t + LeaseTTL] \in Claim
      BY <1>0, TimeFacts DEF TypeOK, Claim
    <2>5. claim' \in [Runs -> Claim]
      BY <1>3, <2>4 DEF TypeOK
    <2>6. pc' \in [Runs -> {"idle", "claimed", "dispatching", "answered"}]
      BY DEF TypeOK, ClaimJob
    <2> QED BY <1>2, <1>5, <2>1, <2>2, <2>3, <2>5, <2>6 DEF TypeOK
  <1>7. RowsLoad'
    <2> SUFFICES ASSUME NEW j \in Jobs
                 PROVE  /\ status'[j] = "pending" /\ token'[j] > 0 => j \in failed'
                        /\ j \in failed' => token'[j] > 0
                        /\ status'[j] = "delivered" <=> j \in receipts'
      BY DEF RowsLoad
    <2>1. token[j] \in Nat /\ token'[j] \in Nat
      BY <1>6 DEF TypeOK
    <2> QED BY <1>1, <1>4, <1>5, <2>1 DEF RowsLoad, RowsOpened
  <1>8. RowsOpened'
    <2> SUFFICES ASSUME NEW j \in Jobs
                 PROVE  /\ hstatus'[Handoff(j)] = "absent" <=> status'[j] = "absent"
                        /\ status'[j] = "absent" => token'[j] = 0
                        /\ status'[j] = "leased" => token'[j] > 0
      BY <1>2, <1>5 DEF RowsOpened
    <2>1. token[j] \in Nat /\ Handoff(j) \in Handoffs
      BY JobFacts DEF TypeOK
    <2> QED BY <1>1, <1>2, <1>4, <1>5, <2>1 DEF RowsOpened
  <1>9. UnknownIsVisible'
    BY <1>1, <1>2, <1>5, JobFacts DEF UnknownIsVisible
  <1>10. EffectsCounted'
    BY <1>1, <1>4, <1>5 DEF EffectsCounted
  <1>11. \A q \in Runs \ {r} : pc[q] # "idle" /\ claim[q].job = c => ~Dispatched(q)
    BY <1>4 DEF ClaimsFenced
  <1>12. ClaimsFenced'
    <2> SUFFICES ASSUME NEW q \in Runs, pc'[q] # "idle"
                 PROVE  /\ claim'[q].token <= token'[claim'[q].job]
                        /\ Dispatched(q)' =>
                             /\ claim'[q].token = token'[claim'[q].job]
                             /\ slot'[claim'[q].job] = 1
                             /\ status'[claim'[q].job] \in {"leased", "manual_review"}
      BY DEF ClaimsFenced
    <2>1. CASE q = r
      BY <2>1, <1>5 DEF TypeOK, Dispatched
    <2>2. CASE q # r
      <3>1. claim[q].job \in Jobs /\ claim[q].token \in Nat /\ token[claim[q].job] \in Nat
        BY <2>2, <1>5 DEF TypeOK, Claim
      <3> QED BY <2>2, <3>1, <1>5, <1>11 DEF ClaimsFenced, Dispatched
    <2> QED BY <2>1, <2>2
  <1>13. ClaimsUnique'
    <2>1. ASSUME NEW q \in Runs \ {r}, pc[q] # "idle", claim[q].job = c
          PROVE  claim[q].token # token[c] + 1
      BY <2>1 DEF TypeOK, Claim, ClaimsFenced
    <2> QED BY <2>1, <1>5 DEF ClaimsUnique
  <1>14. AnswersTrue'
    BY <1>5 DEF AnswersTrue
  <1>15. LeasesDated'
    <2>1. t >= requestedAt[Handoff(c)] /\ t < t + LeaseTTL
      BY <1>0, <1>3, HandoffLeaseAssumption DEF ClaimJob, ClaimRaises, ClaimTimeValid
    <2>2. ASSUME NEW j \in Jobs
          PROVE  /\ status'[j] = "delivered" => token'[j] > 0
                 /\ status'[j] = "leased" => /\ requestedAt'[Handoff(j)] <= updatedAt'[j]
                                             /\ updatedAt'[j] < expires'[j]
      <3>1. CASE j = c
        <4>1. status'[c] = "leased" /\ updatedAt'[c] = t /\ expires'[c] = t + LeaseTTL
          BY <1>3, <1>4
        <4>2. requestedAt[Handoff(c)] \in Nat
          BY JobFacts DEF TypeOK
        <4> QED BY <3>1, <4>1, <4>2, <2>1, <1>0, <1>5
      <3>2. CASE j # c
        BY <3>2, <1>3, <1>5 DEF LeasesDated
      <3> QED BY <3>1, <3>2
    <2> QED BY <2>2, <1>5 DEF LeasesDated
  <1> QED BY <1>2, <1>6, <1>7, <1>8, <1>9, <1>10, <1>12, <1>13, <1>14, <1>15
-----------------------------------------------------------------------------
(* The dispatch consumes the slot under the newest claim of the row. *)
LEMMA BeginStep == ASSUME HandoffInv, NEW r \in Runs, BeginDelivery(r) PROVE HandoffInv'
PROOF
  <1> USE DEF HandoffInv, BeginDelivery, workflowVars, adapterVars
  <1>1. PICK c \in Jobs : c = claim[r].job
    BY DEF TypeOK
  <1>2. /\ status[c] = "leased" /\ token[c] = claim[r].token /\ slot[c] = 0
        /\ \A j \in Jobs : slot'[j] = IF j = c THEN 1 ELSE slot[j]
        /\ pc'[r] = "dispatching" /\ \A q \in Runs \ {r} : pc'[q] = pc[q]
    BY <1>1 DEF MayDispatch, Holds, TypeOK
  <1>3. TypeOK'
    BY DEF TypeOK
  <1>4. (WorkflowsLoad /\ RowsLoad /\ RowsOpened /\ UnknownIsVisible)'
    BY DEF WorkflowsLoad, RowsLoad, RowsOpened, UnknownIsVisible
  <1>5. EffectsCounted'
    BY <1>2 DEF EffectsCounted
  <1>6. ClaimsFenced'
    BY <1>1, <1>2 DEF TypeOK, Claim, ClaimsFenced, Dispatched
  <1>7. ClaimsUnique'
    BY <1>2 DEF ClaimsUnique
  <1>8. AnswersTrue'
    BY <1>1, <1>2 DEF AnswersTrue, EffectsCounted
  <1>9. LeasesDated'
    BY DEF LeasesDated
  <1> QED BY <1>3, <1>4, <1>5, <1>6, <1>7, <1>8, <1>9

(* The adapter acts for the only run that is beyond the dispatch of its job. *)
LEMMA DeliverStep == ASSUME HandoffInv, NEW r \in Runs, Deliver(r) PROVE HandoffInv'
PROOF
  <1> USE DEF HandoffInv
  <1>1. PICK c \in Jobs : c = claim[r].job
    BY DEF Deliver, TypeOK
  <1>2. /\ pc[r] = "dispatching" /\ Dispatched(r)
        /\ sends[c] = 0 /\ slot[c] = 1 /\ status[c] \in {"leased", "manual_review"}
        /\ UNCHANGED <<clock, workflowVars, rowVars, claim>>
        /\ pc'[r] = "answered" /\ \A q \in Runs \ {r} : pc'[q] = pc[q] /\ answer'[q] = answer[q]
        /\ answer'[r] \in {"receipt", "late_receipt", "unknown", "not_called"}
    BY <1>1 DEF Deliver, TypeOK, AnswersTrue, ClaimsFenced, Dispatched
  <1>3. /\ \A j \in Jobs \ {c} : sends'[j] = sends[j]
        /\ sends'[c] \in {0, 1}
        /\ answer'[r] \in Received => sends'[c] = 1
        /\ answer'[r] = "not_called" => sends'[c] = 0
        /\ sends' \in [Jobs -> Nat]
    BY <1>1, <1>2 DEF Deliver, TypeOK, Received
  <1>4. TypeOK'
    <2>1. notCalled' \in 0..MaxNotCalled
      BY HandoffBounds DEF Deliver, TypeOK
    <2>2. /\ pc' \in [Runs -> {"idle", "claimed", "dispatching", "answered"}]
          /\ answer' \in [Runs -> {"none", "receipt", "late_receipt", "unknown", "not_called"}]
      BY DEF Deliver, TypeOK
    <2>3. \A q \in Runs : pc'[q] # "idle" => claim'[q].job \in Jobs
      BY <1>2 DEF TypeOK
    <2> QED BY <1>2, <1>3, <2>1, <2>2, <2>3 DEF TypeOK, workflowVars, rowVars
  <1>5. (WorkflowsLoad /\ RowsLoad /\ RowsOpened /\ UnknownIsVisible)'
    BY <1>2 DEF WorkflowsLoad, RowsLoad, RowsOpened, UnknownIsVisible, workflowVars, rowVars
  <1>6. EffectsCounted'
    BY <1>2, <1>3 DEF EffectsCounted, rowVars
  <1>7. ClaimsFenced'
    BY <1>2 DEF ClaimsFenced, Dispatched, rowVars
  <1>8. ClaimsUnique'
    BY <1>2 DEF ClaimsUnique
  <1>9. AnswersTrue'
    <2>1. ASSUME NEW q \in Runs \ {r}, Dispatched(q) PROVE claim[q].job \in Jobs \ {c}
      BY <1>1, <1>2, <2>1 DEF TypeOK, ClaimsFenced, ClaimsUnique, Dispatched
    <2> QED BY <1>1, <1>2, <1>3, <2>1 DEF AnswersTrue, Dispatched
  <1>10. LeasesDated'
    BY <1>2 DEF LeasesDated, workflowVars, rowVars
  <1> QED BY <1>4, <1>5, <1>6, <1>7, <1>8, <1>9, <1>10

(* A receipt closes the row of a run that had its effect; with it, and only
   with it, the acknowledgement enters the workflow. *)
LEMMA CompleteStep ==
  ASSUME HandoffInv, NEW r \in Runs, CompleteDelivery(r) PROVE HandoffInv'
PROOF
  <1> USE DEF HandoffInv
  <1>1. PICK c \in Jobs : c = claim[r].job
    BY DEF CompleteDelivery, TypeOK
  <1>2. PICK g \in Handoffs : g = Handoff(c) /\ (IsAck(c) <=> c = Ack(g))
    BY JobFacts
  <1>3. /\ pc[r] = "answered" /\ answer[r] \in Received /\ EndRun(r)
        /\ status[c] = "leased" /\ token[c] = claim[r].token
        /\ IsAck(c) => hstatus[g] # "cancelled"
        /\ sends[c] = 1 /\ slot[c] = 1
        /\ c \notin receipts
        /\ hstatus[g] # "absent"
    BY <1>1, <1>2 DEF CompleteDelivery, CompletionApplies, LiveOrDispatched, Holds, Cancelled,
                      AnswersTrue, ClaimsFenced, Dispatched, RowsLoad, RowsOpened
  <1>4. /\ status' = [status EXCEPT ![c] = "delivered"]
        /\ expires' = [expires EXCEPT ![c] = Never]
        /\ updatedAt' = [updatedAt EXCEPT ![c] = clock]
        /\ receipts' = receipts \cup {c}
        /\ late' \in {late, late \cup {c}}
        /\ UNCHANGED <<clock, requestedAt, conflict, failed, slot, token, sends, notCalled>>
    BY <1>1 DEF CompleteDelivery, adapterVars
  <1>5. \A j \in Jobs : status'[j] = IF j = c THEN "delivered" ELSE status[j]
    BY <1>4 DEF TypeOK
  <1>6. /\ IsAck(c) => /\ acked' = [acked EXCEPT ![g] = TRUE]
                       /\ hstatus' = [hstatus EXCEPT ![g] = IF conflict[g] THEN "manual_review"
                                                                          ELSE "acknowledged"]
        /\ ~IsAck(c) => UNCHANGED <<acked, hstatus>>
    BY <1>1, <1>2 DEF CompleteDelivery
  <1>7. \A h \in Handoffs : h # g \/ ~IsAck(c) =>
          hstatus'[h] = hstatus[h] /\ (acked'[h] <=> acked[h])
    BY <1>6 DEF TypeOK
  <1>8. IsAck(c) => /\ acked'[g]
                    /\ hstatus'[g] = IF conflict[g] THEN "manual_review" ELSE "acknowledged"
    BY <1>6 DEF TypeOK
  <1>9. TypeOK'
    <2>1. /\ status' \in [Jobs -> {"absent", "pending", "leased", "delivered", "manual_review"}]
          /\ expires' \in [Jobs -> Time] /\ updatedAt' \in [Jobs -> 0..MaxTime]
          /\ receipts' \subseteq Jobs /\ late' \subseteq Jobs
      BY <1>4, TimeFacts DEF TypeOK
    <2>2. /\ hstatus' \in [Handoffs -> {"absent", "acknowledgement_pending", "acknowledged",
                                        "manual_review", "cancelled"}]
          /\ acked' \in [Handoffs -> BOOLEAN]
      BY <1>6 DEF TypeOK
    <2> QED BY <1>3, <1>4, <2>1, <2>2, RunEnds DEF TypeOK
  <1>10. WorkflowsLoad'
    <2> SUFFICES ASSUME NEW h \in Handoffs
                 PROVE  /\ acked'[h] <=> Ack(h) \in receipts'
                        /\ hstatus'[h] = "acknowledged" => acked'[h] /\ ~conflict'[h]
                        /\ hstatus'[h] = "manual_review" =>
                             conflict'[h] \/ (Ack(h) \in failed' /\ ~acked'[h])
                        /\ hstatus'[h] = "acknowledgement_pending" =>
                             ~acked'[h] /\ ~conflict'[h] /\ Ack(h) \notin failed'
      BY DEF WorkflowsLoad
    <2>1. CASE h = g /\ IsAck(c)
      BY <2>1, <1>2, <1>4, <1>8
    <2>2. CASE h # g \/ ~IsAck(c)
      <3>1. Ack(h) # c
        BY <2>2, <1>2, JobFacts
      <3> QED BY <2>2, <3>1, <1>4, <1>7 DEF WorkflowsLoad
    <2> QED BY <2>1, <2>2
  <1>11. RowsLoad'
    BY <1>4, <1>5 DEF RowsLoad
  <1>12. RowsOpened'
    <2>1. \A h \in Handoffs : hstatus'[h] = "absent" <=> hstatus[h] = "absent"
      BY <1>3, <1>7, <1>8
    <2> QED BY <2>1, <1>3, <1>4, <1>5, JobFacts DEF RowsOpened
  <1>13. UnknownIsVisible'
    <2> SUFFICES ASSUME NEW j \in Jobs, status'[j] = "manual_review"
                 PROVE  /\ j \in failed'
                        /\ IsAck(j) => hstatus'[Handoff(j)] \in {"manual_review", "cancelled"}
      BY DEF UnknownIsVisible
    <2>1. j # c /\ status[j] = "manual_review"
      BY <1>5
    <2>2. IsAck(j) => Handoff(j) \in Handoffs /\ (Handoff(j) # g \/ ~IsAck(c))
      BY <2>1, <1>2, JobFacts
    <2> QED BY <2>1, <2>2, <1>4, <1>7 DEF UnknownIsVisible
  <1>14. EffectsCounted'
    BY <1>3, <1>4, <1>5 DEF EffectsCounted
  <1>15. \A q \in Runs \ {r} : Dispatched(q) => claim[q].job # c
    BY <1>1, <1>3 DEF ClaimsFenced, ClaimsUnique, Dispatched
  <1>16. (ClaimsFenced /\ ClaimsUnique /\ AnswersTrue)'
    <2>1. ClaimsFenced'
      BY <1>3, <1>4, <1>5, <1>15, RunEnds DEF TypeOK, ClaimsFenced, Dispatched
    <2>2. (ClaimsUnique /\ AnswersTrue)'
      BY <1>3, <1>4, RunEnds DEF ClaimsUnique, AnswersTrue
    <2> QED BY <2>1, <2>2
  <1>17. LeasesDated'
    <2>1. token[c] > 0 /\ \A j \in Jobs \ {c} : updatedAt'[j] = updatedAt[j] /\ expires'[j] = expires[j]
      BY <1>3, <1>4 DEF RowsOpened, TypeOK
    <2>2. late' \subseteq receipts'
      BY <1>4 DEF LeasesDated
    <2> QED BY <2>1, <2>2, <1>4, <1>5 DEF LeasesDated
  <1> QED BY <1>9, <1>10, <1>11, <1>12, <1>13, <1>14, <1>16, <1>17

(* A failed delivery goes back to the queue only when it had no effect. *)
LEMMA ReleaseStep ==
  ASSUME HandoffInv, NEW r \in Runs, ReleaseDelivery(r) PROVE HandoffInv'
PROOF
  <1> USE DEF HandoffInv
  <1>1. PICK c \in Jobs : c = claim[r].job
    BY DEF ReleaseDelivery, TypeOK
  <1>2. PICK s : s = ReleasedStatus(answer[r])
    OBVIOUS
  <1>3. /\ pc[r] = "answered" /\ EndRun(r)
        /\ status[c] = "leased" /\ token[c] = claim[r].token /\ slot[c] = 1
        /\ c \in failed \/ FailureApplies(c)
        /\ s \in {"pending", "manual_review"}
        /\ s = "pending" => sends[c] = 0
    BY <1>1, <1>2 DEF ReleaseDelivery, ReleaseApplies, LiveOrDispatched, Holds, ReleasedStatus,
                      Received, TypeOK, AnswersTrue, ClaimsFenced, Dispatched
  <1>4. /\ status' = [status EXCEPT ![c] = s]
        /\ slot' = [slot EXCEPT ![c] = IF s = "pending" THEN 0 ELSE @]
        /\ expires' = [expires EXCEPT ![c] = Never]
        /\ updatedAt' = [updatedAt EXCEPT ![c] = clock]
        /\ failed' = failed \cup {c} /\ hstatus' = StatusAfterFailures({c})
        /\ UNCHANGED <<clock, requestedAt, acked, conflict, token, receipts, late, sends, notCalled>>
    BY <1>1, <1>2 DEF ReleaseDelivery, adapterVars
  <1>5. /\ \A j \in Jobs : status'[j] = IF j = c THEN s ELSE status[j]
        /\ \A j \in Jobs \ {c} : slot'[j] = slot[j]
        /\ slot'[c] = IF s = "pending" THEN 0 ELSE 1
    BY <1>3, <1>4 DEF TypeOK
  <1>6. /\ hstatus' \in [Handoffs -> {"absent", "acknowledgement_pending", "acknowledged",
                                      "manual_review", "cancelled"}]
        /\ failed' \subseteq Jobs
        /\ WorkflowsLoad'
        /\ \A h \in Handoffs : /\ hstatus'[h] = "absent" <=> hstatus[h] = "absent"
                               /\ hstatus[h] \in {"manual_review", "cancelled"} =>
                                    hstatus'[h] \in {"manual_review", "cancelled"}
        /\ \A j \in {c} : IsAck(j) => hstatus'[Handoff(j)] \in {"manual_review", "cancelled"}
    <2>1. {c} \in SUBSET Jobs /\ \A j \in {c} : status[j] = "leased" /\ (j \in failed \/ FailureApplies(j))
      BY <1>3
    <2> QED BY <2>1, <1>4, FailuresRecorded
  <1>7. TypeOK'
    <2>1. /\ status' \in [Jobs -> {"absent", "pending", "leased", "delivered", "manual_review"}]
          /\ expires' \in [Jobs -> Time] /\ updatedAt' \in [Jobs -> 0..MaxTime]
          /\ slot' \in [Jobs -> {0, 1}]
      BY <1>3, <1>4, TimeFacts DEF TypeOK
    <2> QED BY <1>3, <1>4, <1>6, <2>1, RunEnds DEF TypeOK
  <1>8. RowsLoad'
    BY <1>3, <1>4, <1>5 DEF RowsLoad, RowsOpened
  <1>9. RowsOpened'
    <2>1. \A h \in Handoffs : hstatus'[h] = "absent" => ~conflict'[h]
      BY <1>4, <1>6 DEF RowsOpened
    <2>2. ASSUME NEW j \in Jobs
          PROVE  /\ hstatus'[Handoff(j)] = "absent" <=> status'[j] = "absent"
                 /\ status'[j] = "absent" => token'[j] = 0
                 /\ status'[j] = "leased" => token'[j] > 0
      <3>1. /\ Handoff(j) \in Handoffs
            /\ hstatus'[Handoff(j)] = "absent" <=> hstatus[Handoff(j)] = "absent"
            /\ status'[j] = status[j] \/ (status[j] = "leased" /\ status'[j] \in {"pending", "manual_review"})
        BY <1>3, <1>5, <1>6, JobFacts
      <3> QED BY <3>1, <1>4 DEF RowsOpened
    <2> QED BY <2>1, <2>2 DEF RowsOpened
  <1>10. UnknownIsVisible'
    <2> SUFFICES ASSUME NEW j \in Jobs, status'[j] = "manual_review"
                 PROVE  /\ j \in failed'
                        /\ IsAck(j) => hstatus'[Handoff(j)] \in {"manual_review", "cancelled"}
      BY DEF UnknownIsVisible
    <2>1. CASE j = c
      BY <2>1, <1>4, <1>6
    <2>2. CASE j # c
      <3>1. Handoff(j) \in Handoffs /\ status[j] = "manual_review"
        BY <2>2, <1>5, JobFacts
      <3> QED BY <3>1, <1>4, <1>6 DEF UnknownIsVisible
    <2> QED BY <2>1, <2>2
  <1>11. EffectsCounted'
    BY <1>3, <1>4, <1>5 DEF EffectsCounted
  <1>12. \A q \in Runs \ {r} : Dispatched(q) => claim[q].job # c
    BY <1>1, <1>3 DEF ClaimsFenced, ClaimsUnique, Dispatched
  <1>13. ClaimsFenced'
    BY <1>3, <1>4, <1>5, <1>12, RunEnds DEF TypeOK, ClaimsFenced, Dispatched
  <1>14. (ClaimsUnique /\ AnswersTrue)'
    BY <1>3, <1>4, RunEnds DEF ClaimsUnique, AnswersTrue
  <1>15. LeasesDated'
    <2>1. \A j \in Jobs \ {c} : updatedAt'[j] = updatedAt[j] /\ expires'[j] = expires[j]
      BY <1>4 DEF TypeOK
    <2> QED BY <2>1, <1>3, <1>4, <1>5 DEF LeasesDated
  <1> QED BY <1>6, <1>7, <1>8, <1>9, <1>10, <1>11, <1>13, <1>14, <1>15
-----------------------------------------------------------------------------
(* A step that changes nothing keeps the invariant. *)
LEMMA StutterStep == ASSUME HandoffInv, UNCHANGED vars PROVE HandoffInv'
PROOF
  <1> USE DEF HandoffInv, vars, workflowVars, rowVars, runVars, adapterVars
  <1>1. TypeOK'
    BY DEF TypeOK
  <1>2. (WorkflowsLoad /\ RowsLoad /\ RowsOpened /\ UnknownIsVisible)'
    BY DEF WorkflowsLoad, RowsLoad, RowsOpened, UnknownIsVisible
  <1>3. (EffectsCounted /\ ClaimsFenced /\ ClaimsUnique /\ AnswersTrue)'
    BY DEF EffectsCounted, ClaimsFenced, ClaimsUnique, AnswersTrue, Dispatched
  <1>4. LeasesDated'
    BY DEF LeasesDated
  <1> QED BY <1>1, <1>2, <1>3, <1>4

(* Every step, and every stuttering step, preserves the invariant. *)
LEMMA HandoffStep == ASSUME HandoffInv, [Next]_vars PROVE HandoffInv'
PROOF
  <1>1. CASE UNCHANGED vars
    BY <1>1, StutterStep
  <1>2. CASE Tick
    BY <1>2, TickStep
  <1>3. ASSUME NEW h \in Handoffs, OpenHandoff(h) \/ RequestConflict(h) \/ CancelHandoff(h)
        PROVE  HandoffInv'
    BY <1>3, OpenStep, ConflictStep, CancelStep
  <1>4. ASSUME NEW r \in Runs, Work(r) PROVE HandoffInv'
    <2>1. CASE BeginDelivery(r)
      BY <2>1, BeginStep
    <2>2. CASE BeginRefused(r) \/ FinishRefused(r)
      BY <2>2, EndStep DEF BeginRefused, FinishRefused
    <2>3. CASE Deliver(r)
      BY <2>3, DeliverStep
    <2>4. CASE CompleteDelivery(r)
      BY <2>4, CompleteStep
    <2>5. CASE ReleaseDelivery(r)
      BY <2>5, ReleaseStep
    <2> QED BY <1>4, <2>1, <2>2, <2>3, <2>4, <2>5 DEF Work
  <1>5. ASSUME NEW r \in Runs, Crash(r) PROVE HandoffInv'
    BY <1>5, EndStep DEF Crash
  <1>6. ASSUME NEW r \in Runs, NEW t \in 0..clock, ClaimAt(r, t) PROVE HandoffInv'
    BY <1>6, StutterStep, NothingStep, ClaimStep DEF ClaimAt, ClaimRefused
  <1> QED BY <1>1, <1>2, <1>3, <1>4, <1>5, <1>6 DEF Next

(* The inductive invariant holds in every state of the handoff worker. *)
THEOREM HandoffInductive == Spec => []HandoffInv
PROOF
  BY HandoffInit, HandoffStep, PTL DEF Spec

(* In a state of the invariant the loader refuses for two reasons only. *)
LEMMA RefusedFacts ==
  ASSUME HandoffInv, NEW h \in Handoffs, hstatus[h] # "absent"
  PROVE  Loads(h) <=> \A j \in JobsOf(h) : status[j] # "manual_review" /\ j \notin late
PROOF
  <1> USE DEF HandoffInv
  <1>1. ASSUME NEW j \in JobsOf(h)
        PROVE  /\ RowLoads(j) <=> status[j] # "manual_review" /\ j \notin late
               /\ status[j] = "pending" /\ token[j] > 0 => j \in failed
               /\ j \in failed => token[j] > 0
    <2>1. /\ j \in Jobs /\ Handoff(j) = h
          /\ status[j] \in {"pending", "leased", "delivered", "manual_review"}
      BY <1>1 DEF JobsOf, TypeOK, RowsOpened
    <2>2. j \in late => status[j] = "delivered"
      BY <2>1 DEF LeasesDated, RowsLoad
    <2>3. RowLoads(j) <=> status[j] # "manual_review" /\ j \notin late
      BY <2>1, <2>2 DEF RowLoads, LeasesDated, RowsLoad, RowsOpened
    <2> QED BY <2>1, <2>3 DEF RowsLoad
  <1> QED BY <1>1 DEF Loads, WorkflowsLoad

(* _load_handoff refuses a handoff exactly when a row of it is under review or
   has a receipt from after its lease, whatever order conflicts,
   cancellations, failures, recoveries and receipts come in. *)
THEOREM HandoffsRefused == Spec => []RefusedOnlyForReview
PROOF
  <1>1. HandoffInv => RefusedOnlyForReview
    BY RefusedFacts DEF HandoffInv, RefusedOnlyForReview
  <1> QED BY <1>1, HandoffInductive, PTL

(* A row that went to review stays there, and a receipt keeps its date. *)
LEMMA ReviewStep ==
  ASSUME HandoffInv, [Next]_vars
  PROVE  /\ \A j \in Jobs : status[j] = "manual_review" => status'[j] = "manual_review"
         /\ late \subseteq late'
PROOF
  <1> USE DEF HandoffInv
  <1>1. late \subseteq late'
    BY DEF Next, vars, rowVars, Tick, OpenHandoff, RequestConflict, CancelHandoff, Work, Crash,
           ClaimAt, ClaimRefused, ClaimNothing, ClaimJob, BeginDelivery, BeginRefused, Deliver,
           CompleteDelivery, ReleaseDelivery, FinishRefused
  <1>2. ASSUME NEW j \in Jobs, status[j] = "manual_review" PROVE status'[j] = "manual_review"
    <2>1. CASE UNCHANGED status
      BY <2>1, <1>2
    <2>2. ASSUME NEW h \in Handoffs, OpenHandoff(h) PROVE status'[j] = "manual_review"
      BY <1>2, <2>2 DEF OpenHandoff, RowsOpened
    <2>3. ASSUME NEW r \in Runs, CompleteDelivery(r) \/ ReleaseDelivery(r)
          PROVE  status'[j] = "manual_review"
      <3>1. claim[r].job # j
        BY <1>2, <2>3 DEF CompleteDelivery, ReleaseDelivery, CompletionApplies, ReleaseApplies,
                          LiveOrDispatched, Holds
      <3> QED BY <1>2, <2>3, <3>1 DEF CompleteDelivery, ReleaseDelivery, TypeOK
    <2>4. ASSUME NEW r \in Runs, NEW t \in 0..clock, ClaimNothing(r, t)
          PROVE  status'[j] = "manual_review"
      BY <1>2, <2>4 DEF ClaimNothing
    <2>5. ASSUME NEW r \in Runs, NEW t \in 0..clock, ClaimJob(r, t)
          PROVE  status'[j] = "manual_review"
      BY <1>2, <2>5 DEF ClaimJob, IsHead, Claimable
    <2>6. ASSUME NEW r \in Runs, NEW t \in 0..clock, ClaimRefused(r, t) PROVE UNCHANGED status
      BY <2>6 DEF ClaimRefused, vars, rowVars
    <2>7. ASSUME NEW r \in Runs,
                 BeginDelivery(r) \/ BeginRefused(r) \/ Deliver(r) \/ FinishRefused(r) \/ Crash(r)
          PROVE  UNCHANGED status
      BY <2>7 DEF BeginDelivery, BeginRefused, Deliver, FinishRefused, Crash, rowVars
    <2>8. ASSUME NEW h \in Handoffs, RequestConflict(h) \/ CancelHandoff(h) PROVE UNCHANGED status
      BY <2>8 DEF RequestConflict, CancelHandoff, rowVars
    <2>9. Tick \/ UNCHANGED vars => UNCHANGED status
      BY DEF Tick, vars, rowVars
    <2> QED BY <2>1, <2>2, <2>3, <2>4, <2>5, <2>6, <2>7, <2>8, <2>9 DEF Next, Work, ClaimAt
  <1> QED BY <1>1, <1>2

(* A handoff that _load_handoff refuses once is refused for ever: no operation
   of the store repairs it, and every one of them loads it first. *)
THEOREM RefusalsLast ==
  Spec => [][\A h \in Handoffs : hstatus[h] # "absent" /\ ~Loads(h) => ~Loads(h)']_vars
PROOF
  <1>1. ASSUME HandoffInv, [Next]_vars, NEW h \in Handoffs, hstatus[h] # "absent", ~Loads(h)
        PROVE  ~Loads(h)'
    <2>1. PICK j \in JobsOf(h) : status[j] = "manual_review" \/ j \in late
      BY <1>1, RefusedFacts
    <2>2. status'[j] = "manual_review" \/ j \in late'
      BY <1>1, <2>1, ReviewStep DEF JobsOf
    <2>3. HandoffInv'
      BY <1>1, HandoffStep
    <2>4. CASE status'[j] = "manual_review"
      BY <2>4 DEF Loads, RowLoads, JobsOf
    <2>5. CASE j \in late'
      <3>1. status'[j] = "delivered"
        BY <2>3, <2>5 DEF HandoffInv, LeasesDated, RowsLoad, JobsOf
      <3> QED BY <2>5, <3>1 DEF Loads, RowLoads, JobsOf
    <2> QED BY <2>2, <2>4, <2>5
  <1>2. HandoffInv /\ [Next]_vars =>
          [\A h \in Handoffs : hstatus[h] # "absent" /\ ~Loads(h) => ~Loads(h)']_vars
    BY <1>1
  <1> QED BY <1>2, HandoffInductive, PTL DEF Spec

(* begin_handoff_delivery makes the adapter act at most once per job. *)
THEOREM JobsSentOnce == Spec => []SentAtMostOnce
PROOF
  <1>1. HandoffInv => SentAtMostOnce
    BY DEF HandoffInv, EffectsCounted, SentAtMostOnce
  <1> QED BY <1>1, HandoffInductive, PTL

(* Every row in manual review has its failure in the workflow's history. *)
THEOREM ReviewsVisible == Spec => []UnknownIsVisible
PROOF
  <1>1. HandoffInv => UnknownIsVisible
    BY DEF HandoffInv
  <1> QED BY <1>1, HandoffInductive, PTL

(* No step dispatches a job of a cancelled handoff, nor has its effect. *)
LEMMA QuietStep ==
  ASSUME HandoffInv, [Next]_vars, NEW j \in Jobs, Cancelled(Handoff(j)), slot[j] = 0
  PROVE  slot'[j] = 0 /\ sends'[j] = sends[j]
PROOF
  <1> USE DEF HandoffInv
  <1>1. CASE UNCHANGED <<slot, sends>>
    BY <1>1
  <1>2. ASSUME NEW r \in Runs, BeginDelivery(r) PROVE slot'[j] = 0 /\ sends'[j] = sends[j]
    BY <1>2 DEF BeginDelivery, MayDispatch, adapterVars, TypeOK
  <1>3. ASSUME NEW r \in Runs, Deliver(r) PROVE slot'[j] = 0 /\ sends'[j] = sends[j]
    <2>1. claim[r].job \in Jobs /\ claim[r].job # j /\ UNCHANGED slot
      BY <1>3 DEF Deliver, ClaimsFenced, Dispatched, TypeOK, rowVars
    <2> QED BY <1>3, <2>1 DEF Deliver, TypeOK
  <1>4. ASSUME NEW r \in Runs, ReleaseDelivery(r) PROVE slot'[j] = 0 /\ sends'[j] = sends[j]
    BY <1>4 DEF ReleaseDelivery, adapterVars, TypeOK
  <1>5. ASSUME NEW r \in Runs, NEW t \in 0..clock, ClaimAt(r, t) PROVE UNCHANGED <<slot, sends>>
    BY <1>5 DEF ClaimAt, ClaimRefused, ClaimNothing, ClaimJob, vars, rowVars, adapterVars
  <1>6. ASSUME NEW r \in Runs,
               BeginRefused(r) \/ CompleteDelivery(r) \/ FinishRefused(r) \/ Crash(r)
        PROVE  UNCHANGED <<slot, sends>>
    BY <1>6 DEF BeginRefused, CompleteDelivery, FinishRefused, Crash, rowVars, adapterVars
  <1>7. ASSUME NEW h \in Handoffs, OpenHandoff(h) \/ RequestConflict(h) \/ CancelHandoff(h)
        PROVE  UNCHANGED <<slot, sends>>
    BY <1>7 DEF OpenHandoff, RequestConflict, CancelHandoff, rowVars, adapterVars
  <1>8. Tick \/ UNCHANGED vars => UNCHANGED <<slot, sends>>
    BY DEF Tick, vars, rowVars, adapterVars
  <1> QED BY <1>1, <1>2, <1>3, <1>4, <1>5, <1>6, <1>7, <1>8 DEF Next, Work

(* "An operator-closed incident must never re-pause ManyChat from old outbox
   work": after a cancellation no run dispatches a job any more. *)
THEOREM CancelledIsQuiet == Spec => QuietAfterCancel
PROOF
  <1>1. HandoffInv /\ [Next]_vars =>
          [\A j \in Jobs : Cancelled(Handoff(j)) /\ slot[j] = 0 =>
             slot'[j] = 0 /\ sends'[j] = sends[j]]_vars
    BY QuietStep
  <1> QED BY <1>1, HandoffInductive, PTL DEF Spec, QuietAfterCancel
=============================================================================
