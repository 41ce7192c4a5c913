--------------------------- MODULE TurnInboxProofs ---------------------------
(* The inbound path for any number of events, leads and worker processes:     *)
(* batches stay together and in order, every event is answered once, and with *)
(* one owner process only a claimed batch is answered.                        *)
EXTENDS TurnInbox, TLAPS

(* A row that was never claimed has nothing but its event. *)
FreshRows ==
  \A e \in Events : batch[e] = NoBatch =>
    /\ status[e] \in {"absent", "pending"}
    /\ retryAt[e] = 0 /\ failures[e] = 0 /\ handoff[e] = NoHandoff

(* Only a claimed row has a holder and a lease. *)
HeldWhenClaimed ==
  \A e \in Events : status[e] # "claimed" => holder[e] = Nobody /\ expires[e] = 0

(* A batch that can be claimed has failures left. *)
BudgetLeft ==
  \A e \in Events : status[e] \in {"pending", "claimed"} => failures[e] < FailureBudget

(* A busy process works on a frozen batch. *)
JobsFrozen ==
  \A w \in Workers : pc[w] # "idle" =>
    /\ w \in up
    /\ job[w].batch # NoBatch
    /\ \A e \in job[w].batch : batch[e] = job[w].batch

(* A committed turn is a frozen batch, and no batch has two. *)
TurnsFrozen ==
  \A l \in Leads :
    /\ \A i \in 1..Len(turns[l]) : \A e \in turns[l][i] : batch[e] = turns[l][i]
    /\ \A i, j \in 1..Len(turns[l]) : turns[l][i] = turns[l][j] => i = j

(* Whoever goes on to acknowledge a batch has seen its turn stored. *)
RepliesStored ==
  \A w \in Workers :
    /\ pc[w] \in {"dialogue", "ack"} => CommittedTurn(job[w].batch)
    /\ pc[w] = "ack" => job[w].batch \in dialogue

(* The handoff of a lead that is active, and the one a process is about to
   link, exist and are of the lead. *)
HandoffsKnown ==
  /\ \A l \in Leads : active[l] # NoHandoff =>
       Opened(active[l]) /\ \A o \in active[l] : LeadOf[o] = l
  /\ \A w \in Workers : pc[w] = "link" =>
       /\ Opened(job[w].handoff)
       /\ \A o \in job[w].handoff, e \in job[w].batch : LeadOf[o] = LeadOf[e]

(* With the ownership lock one process lives, and what it executes is
   claimed by it. *)
OwnerAlone ==
  Exclusive =>
    /\ \A v, w \in up : v = w
    /\ \A w \in Workers : pc[w] \in Executing \cup {"ack"} => HoldsClaim(w)

RowInv   == /\ FreshRows /\ HeldWhenClaimed /\ BudgetLeft
            /\ BatchMovesTogether /\ OneUnfinishedBatch
InboxInv == /\ TypeOK /\ RowInv /\ JobsFrozen /\ TurnsFrozen /\ RepliesStored
            /\ ProcessedHasTurn /\ HandoffsKnown /\ HandoffOpenedOnce /\ OwnerAlone
-----------------------------------------------------------------------------
(* Times that are clamped are times of the model. *)
LEMMA TimeFacts ==
  /\ 0 \in 0..Horizon /\ Horizon \in Nat
  /\ \A t \in Nat : Clamp(t) \in 0..Horizon
PROOF
  BY DelayAssumption DEF Clamp

(* A member of a set of events names a lead. *)
LEMMA ChosenMember ==
  ASSUME NEW b \in SUBSET Events, b # {}
  PROVE  /\ (CHOOSE e \in b : TRUE) \in b
         /\ LeadOf[CHOOSE e \in b : TRUE] \in Leads
PROOF
  <1>1. (CHOOSE e \in b : TRUE) \in b
    OBVIOUS
  <1> QED BY <1>1 DEF Leads

(* The members of a stored batch are of one lead and in that batch. *)
LEMMA BatchFacts ==
  ASSUME InboxInv, NEW e \in Events, batch[e] # NoBatch
  PROVE  /\ batch[e] \in SUBSET Events /\ e \in batch[e] /\ status[e] # "absent"
         /\ \A o \in batch[e] :
              /\ LeadOf[o] = LeadOf[e] /\ batch[o] = batch[e] /\ status[o] = status[e]
              /\ holder[o] = holder[e] /\ expires[o] = expires[e] /\ retryAt[o] = retryAt[e]
              /\ failures[o] = failures[e] /\ handoff[o] = handoff[e]
PROOF
  BY DEF InboxInv, RowInv, BatchMovesTogether, TypeOK, Batches

(* What a busy process works on: a batch of one lead whose rows are alike. *)
LEMMA JobFacts ==
  ASSUME InboxInv, NEW w \in Workers, pc[w] # "idle"
  PROVE  /\ w \in up /\ job[w].batch \in SUBSET Events /\ job[w].batch # {}
         /\ Lead(w) \in Leads
         /\ \A e \in job[w].batch : batch[e] = job[w].batch /\ LeadOf[e] = Lead(w)
         /\ \A e \in Events : batch[e] = job[w].batch <=> e \in job[w].batch
         /\ \A e, o \in job[w].batch :
              /\ status[o] = status[e] /\ status[e] # "absent"
              /\ holder[o] = holder[e] /\ expires[o] = expires[e] /\ retryAt[o] = retryAt[e]
              /\ failures[o] = failures[e] /\ handoff[o] = handoff[e]
PROOF
  <1>1. PICK b \in SUBSET Events : b = job[w].batch
    BY DEF InboxInv, TypeOK, Job, Batches
  <1>2. w \in up /\ b # {} /\ \A e \in b : batch[e] = b
    BY <1>1 DEF InboxInv, JobsFrozen, NoBatch
  <1>3. PICK c \in b : c = CHOOSE e \in b : TRUE
    BY <1>2
  <1>4. Lead(w) = LeadOf[c] /\ Lead(w) \in Leads
    BY <1>1, <1>3 DEF Lead, Leads
  <1>5. \A e \in b : LeadOf[e] = Lead(w)
    BY <1>2, <1>4, BatchFacts DEF NoBatch
  <1>6. \A e \in Events : batch[e] = b <=> e \in b
    BY <1>2, BatchFacts DEF NoBatch
  <1>7. \A e, o \in b :
          /\ status[o] = status[e] /\ status[e] # "absent"
          /\ holder[o] = holder[e] /\ expires[o] = expires[e] /\ retryAt[o] = retryAt[e]
          /\ failures[o] = failures[e] /\ handoff[o] = handoff[e]
    BY <1>2, BatchFacts DEF NoBatch
  <1> QED BY <1>1, <1>2, <1>4, <1>5, <1>6, <1>7

(* Nothing has arrived at first. *)
LEMMA InboxInit == Init => InboxInv
PROOF
  <1> SUFFICES ASSUME Init PROVE InboxInv
    OBVIOUS
  <1>1. TypeOK
    <2>1. NoJob \in Job
      BY DelayAssumption DEF NoJob, Job, Batches, NoBatch, NoHandoff
    <2>2. <<>> \in Seq(Batches)
      OBVIOUS
    <2>3. 0 \in 0..Horizon /\ 0 \in 0..FailureBudget /\ 0 \in 0..MaxFaults
      BY DelayAssumption
    <2> QED BY <2>1, <2>2, <2>3 DEF Init, TypeOK, Batches, NoBatch, NoHandoff
  <1>2. RowInv
    BY DelayAssumption DEF Init, RowInv, FreshRows, HeldWhenClaimed, BatchMovesTogether,
                           OneUnfinishedBatch, Unfinished, BudgetLeft
  <1>3. TurnsFrozen
    BY DEF Init, TurnsFrozen
  <1>4. JobsFrozen /\ RepliesStored /\ ProcessedHasTurn
    BY DEF Init, JobsFrozen, RepliesStored, ProcessedHasTurn
  <1>5. HandoffsKnown /\ HandoffOpenedOnce /\ OwnerAlone
    BY DEF Init, HandoffsKnown, HandoffOpenedOnce, OwnerAlone, Executing
  <1> QED BY <1>1, <1>2, <1>3, <1>4, <1>5 DEF InboxInv

(* Rows that stay keep what is said of rows. *)
LEMMA RowsRest == ASSUME RowInv, UNCHANGED rowVars PROVE RowInv'
PROOF
  BY DEF RowInv, rowVars, FreshRows, HeldWhenClaimed, BatchMovesTogether, OneUnfinishedBatch,
         Unfinished, BudgetLeft

(* A process that moves within run_once, writes the dialogue or goes away, and
   leaves rows, turns and handoffs alone, keeps the invariant. *)
LEMMA ProcessMoves ==
  ASSUME InboxInv, NEW w \in Workers, TypeOK',
         UNCHANGED <<rowVars, turns, handoffs, active>>, dialogue \subseteq dialogue',
         \A v \in Workers \ {w} : pc'[v] = pc[v] /\ job'[v] = job[v] /\ (v \in up => v \in up'),
         Exclusive => \A v, u \in up' : v = u,
         \/ pc'[w] = "idle"
         \/ /\ pc[w] \in Executing /\ pc'[w] \in Executing \cup {"ack"} /\ w \in up'
            /\ job'[w].batch = job[w].batch
            /\ pc'[w] \in {"dialogue", "ack"} => CommittedTurn(job[w].batch)
            /\ pc'[w] = "ack" => job[w].batch \in dialogue'
  PROVE  InboxInv'
PROOF
  <1> USE DEF InboxInv
  <1>1. RowInv'
    BY RowsRest
  <1>2. JobsFrozen'
    BY DEF JobsFrozen, rowVars, Executing
  <1>3. TurnsFrozen'
    BY DEF TurnsFrozen, rowVars
  <1>4. \A b : CommittedTurn(b) => CommittedTurn(b)'
    BY DEF CommittedTurn
  <1>5. RepliesStored'
    BY <1>4 DEF RepliesStored
  <1>6. ProcessedHasTurn'
    BY <1>4 DEF ProcessedHasTurn, rowVars
  <1>7. \A b : Opened(b)' <=> Opened(b)
    BY DEF Opened
  <1>8. HandoffsKnown'
    BY <1>7 DEF HandoffsKnown, Executing
  <1>9. HandoffOpenedOnce'
    BY <1>7 DEF HandoffOpenedOnce, rowVars
  <1>10. OwnerAlone'
    BY DEF OwnerAlone, HoldsClaim, rowVars, Executing
  <1> QED BY <1>1, <1>2, <1>3, <1>5, <1>6, <1>8, <1>9, <1>10
-----------------------------------------------------------------------------
(* A jump changes the place of one process, and the end of a job its job. *)
LEMMA GotoFacts ==
  ASSUME TypeOK, NEW w \in Workers, NEW label \in Executing \cup {"idle", "ack", "link"},
         Goto(w, label)
  PROVE  /\ pc' \in [Workers -> Executing \cup {"idle", "ack", "link"}]
         /\ pc'[w] = label
         /\ \A v \in Workers \ {w} : pc'[v] = pc[v]
PROOF
  BY DEF TypeOK, Goto

LEMMA FinishFacts ==
  ASSUME TypeOK, NEW w \in Workers, Finish(w)
  PROVE  /\ pc' \in [Workers -> Executing \cup {"idle", "ack", "link"}]
         /\ job' \in [Workers -> Job]
         /\ pc'[w] = "idle"
         /\ \A v \in Workers \ {w} : pc'[v] = pc[v] /\ job'[v] = job[v]
PROOF
  <1>1. NoJob \in Job
    BY DelayAssumption DEF NoJob, Job, Batches, NoBatch, NoHandoff
  <1>2. job' \in [Workers -> Job] /\ \A v \in Workers \ {w} : job'[v] = job[v]
    BY <1>1 DEF TypeOK, Finish
  <1>3. Goto(w, "idle")
    BY DEF Finish
  <1> QED BY <1>2, <1>3, GotoFacts

(* A process starts idle, alone where there is an ownership lock. *)
LEMMA StartStep == ASSUME InboxInv, NEW w \in Workers, Start(w) PROVE InboxInv'
PROOF
  <1>1. TypeOK'
    BY DEF InboxInv, TypeOK, Start, rowVars, turnVars, humanVars
  <1>2. pc[w] = "idle"
    BY DEF InboxInv, JobsFrozen, Start
  <1>3. Exclusive => \A v, u \in up' : v = u
    BY DEF Start
  <1> QED BY <1>1, <1>2, <1>3, ProcessMoves DEF Start, turnVars, humanVars

(* The replay of a stored turn goes on to its dialogue. *)
LEMMA ReceiptStep == ASSUME InboxInv, NEW w \in Workers, LoadReceipt(w) PROVE InboxInv'
PROOF
  <1> USE DEF InboxInv
  <1>1. PICK label \in {"dialogue", "prepare"} :
          /\ Goto(w, label) /\ (label = "dialogue" => CommittedTurn(job[w].batch))
    BY DEF LoadReceipt
  <1>2. pc[w] = "execute" /\ UNCHANGED <<now, rowVars, up, job, turnVars, humanVars, faults>>
    BY DEF LoadReceipt
  <1>3. /\ pc' \in [Workers -> Executing \cup {"idle", "ack", "link"}]
        /\ pc'[w] = label /\ \A v \in Workers \ {w} : pc'[v] = pc[v]
    BY <1>1, GotoFacts DEF Executing
  <1>4. TypeOK'
    BY <1>2, <1>3 DEF TypeOK, rowVars, turnVars, humanVars
  <1> QED BY <1>1, <1>2, <1>3, <1>4, JobFacts, ProcessMoves
          DEF OwnerAlone, Executing, turnVars, humanVars

(* A fence, the authoring and a lost commit change the job only. *)
LEMMA AuthorSteps ==
  ASSUME InboxInv, NEW w \in Workers, AcquireFence(w) \/ Revalidate(w) \/ CommitConflict(w)
  PROVE  InboxInv'
PROOF
  <1> USE DEF InboxInv
  <1>0. pc[w] \in Executing
    BY DEF AcquireFence, Revalidate, CommitConflict, Executing
  <1>1. Lead(w) \in Leads /\ w \in up
    BY <1>0, JobFacts DEF Executing
  <1>2. PICK label \in {"author", "commit", "conflict"} : Goto(w, label)
    BY DEF AcquireFence, Revalidate, CommitConflict
  <1>3. /\ pc' \in [Workers -> Executing \cup {"idle", "ack", "link"}]
        /\ pc'[w] = label /\ \A v \in Workers \ {w} : pc'[v] = pc[v]
    BY <1>2, GotoFacts DEF Executing
  <1>4. /\ UNCHANGED <<now, rowVars, up, turns, dialogue, humanVars, faults>>
        /\ fence' \in [Leads -> Workers \cup {Nobody}]
    BY <1>1 DEF AcquireFence, Revalidate, CommitConflict, turnVars, TypeOK
  <1>5. /\ job' \in [Workers -> Job] /\ job'[w].batch = job[w].batch
        /\ \A v \in Workers \ {w} : job'[v] = job[v]
    <2>1. CASE AcquireFence(w)
      <3>1. Version(Lead(w)) \in Nat
        BY <1>1 DEF Version, TypeOK
      <3> QED BY <2>1, <3>1 DEF AcquireFence, TypeOK, Job
    <2>2. CASE Revalidate(w) \/ CommitConflict(w)
      BY <2>2 DEF Revalidate, CommitConflict, TypeOK
    <2> QED BY <2>1, <2>2
  <1>6. TypeOK'
    BY <1>3, <1>4, <1>5 DEF TypeOK, rowVars, humanVars
  <1> QED BY <1>0, <1>1, <1>3, <1>4, <1>5, <1>6, ProcessMoves DEF OwnerAlone, Executing, humanVars

(* After a lost commit the turn of the other execution is found, or there is
   one more attempt. *)
LEMMA ConflictStep == ASSUME InboxInv, NEW w \in Workers, AfterConflict(w) PROVE InboxInv'
PROOF
  <1> USE DEF InboxInv
  <1>1. PICK label \in {"dialogue", "prepare"} :
          Goto(w, label) /\ (label = "dialogue" => CommittedTurn(job[w].batch))
    BY DEF AfterConflict
  <1>2. pc[w] = "conflict" /\ UNCHANGED <<now, rowVars, up, turnVars, humanVars, faults>>
    BY DEF AfterConflict
  <1>3. /\ pc' \in [Workers -> Executing \cup {"idle", "ack", "link"}]
        /\ pc'[w] = label /\ \A v \in Workers \ {w} : pc'[v] = pc[v]
    BY <1>1, GotoFacts DEF Executing
  <1>4. /\ job' \in [Workers -> Job] /\ job'[w].batch = job[w].batch
        /\ \A v \in Workers \ {w} : job'[v] = job[v]
    <2>1. CASE UNCHANGED job
      BY <2>1 DEF TypeOK
    <2>2. CASE job[w].attempts + 1 < MaxAttempts /\ job' = [job EXCEPT ![w].attempts = @ + 1]
      <3>1. job[w] \in Job /\ job[w].attempts + 1 \in 0..MaxAttempts - 1
        BY <2>2, DelayAssumption DEF TypeOK, Job
      <3>2. [job[w] EXCEPT !.attempts = @ + 1] \in Job
        BY <3>1 DEF Job
      <3> QED BY <2>2, <3>1, <3>2 DEF TypeOK, Job
    <2> QED BY <2>1, <2>2 DEF AfterConflict
  <1>5. TypeOK'
    BY <1>2, <1>3, <1>4 DEF TypeOK, rowVars, turnVars, humanVars
  <1> QED BY <1>1, <1>2, <1>3, <1>4, <1>5, JobFacts, ProcessMoves
          DEF OwnerAlone, Executing, turnVars, humanVars

(* The dialogue is recorded before the acknowledgement. *)
LEMMA DialogueStep == ASSUME InboxInv, NEW w \in Workers, RecordDialogue(w) PROVE InboxInv'
PROOF
  <1> USE DEF InboxInv
  <1>1. /\ pc[w] = "dialogue" /\ Goto(w, "ack") /\ dialogue' = dialogue \cup {job[w].batch}
        /\ UNCHANGED <<now, rowVars, up, job, turns, fence, humanVars, faults>>
    BY DEF RecordDialogue
  <1>2. /\ pc' \in [Workers -> Executing \cup {"idle", "ack", "link"}]
        /\ pc'[w] = "ack" /\ \A v \in Workers \ {w} : pc'[v] = pc[v]
    BY <1>1, GotoFacts
  <1>3. TypeOK'
    <2>1. dialogue' \subseteq Batches
      <3>1. job[w].batch \in Batches
        BY DEF TypeOK, Job
      <3> QED BY <1>1, <3>1 DEF TypeOK
    <2> QED BY <1>1, <1>2, <2>1 DEF TypeOK, rowVars, humanVars
  <1>4. CommittedTurn(job[w].batch) /\ w \in up
    BY <1>1, JobFacts DEF RepliesStored
  <1> QED BY <1>1, <1>2, <1>3, <1>4, ProcessMoves DEF OwnerAlone, Executing, humanVars

(* A process that dies leaves its claim in the rows. *)
LEMMA CrashStep == ASSUME InboxInv, NEW w \in Workers, Crash(w) PROVE InboxInv'
PROOF
  <1> USE DEF InboxInv
  <1>1. /\ Finish(w) /\ up' = up \ {w} /\ faults' \in 0..MaxFaults
        /\ UNCHANGED <<now, rowVars, turnVars, humanVars>>
    BY DelayAssumption DEF Crash, Fault, TypeOK
  <1>2. TypeOK'
    BY <1>1, FinishFacts DEF TypeOK, rowVars, turnVars, humanVars
  <1> QED BY <1>1, <1>2, FinishFacts, ProcessMoves DEF OwnerAlone, turnVars, humanVars

(* Time, an operator who closes a handoff, and steps of nobody *)
LEMMA WorldSteps ==
  ASSUME InboxInv, Tick \/ (\E l \in Leads : CloseHandoff(l)) \/ UNCHANGED vars
  PROVE  InboxInv'
PROOF
  <1> USE DEF InboxInv
  <1>1. /\ UNCHANGED <<rowVars, procVars, turnVars, handoffs, faults>>
        /\ now' \in 0..Horizon /\ active' \in [Leads -> Batches]
        /\ \A l \in Leads : active'[l] = active[l] \/ active'[l] = NoHandoff
    <2>1. CASE Tick \/ UNCHANGED vars
      BY <2>1, DelayAssumption DEF Tick, vars, humanVars, TypeOK
    <2>2. ASSUME NEW l \in Leads, CloseHandoff(l)
          PROVE  /\ active' \in [Leads -> Batches]
                 /\ \A m \in Leads : active'[m] = active[m] \/ active'[m] = NoHandoff
                 /\ UNCHANGED <<now, rowVars, procVars, turnVars, handoffs, faults>>
      <3>1. NoHandoff \in Batches
        BY DEF Batches, NoHandoff
      <3> QED BY <2>2, <3>1 DEF CloseHandoff, TypeOK
    <2>3. now \in 0..Horizon
      BY DEF TypeOK
    <2> QED BY <2>1, <2>2, <2>3
  <1> USE <1>1 DEF rowVars, procVars, turnVars
  <1>2. TypeOK'
    BY DEF TypeOK
  <1>3. RowInv'
    BY RowsRest
  <1>4. JobsFrozen' /\ TurnsFrozen'
    BY DEF JobsFrozen, TurnsFrozen
  <1>5. (RepliesStored /\ ProcessedHasTurn)'
    BY DEF RepliesStored, ProcessedHasTurn, CommittedTurn
  <1>6. (HandoffsKnown /\ HandoffOpenedOnce)'
    BY DEF HandoffsKnown, HandoffOpenedOnce, Opened
  <1>7. OwnerAlone'
    BY DEF OwnerAlone, HoldsClaim
  <1> QED BY <1>2, <1>3, <1>4, <1>5, <1>6, <1>7
-----------------------------------------------------------------------------
(* A step of a live process on the rows keeps the other stores' invariants
   when stored batches stay, only recorded turns are acknowledged, and the
   process is idle afterwards or holds a claim. *)
LEMMA RowsMove ==
  ASSUME InboxInv, NEW w \in Workers, TypeOK', RowInv', HandoffOpenedOnce',
         UNCHANGED <<turns, dialogue, handoffs, active>>,
         w \in up, up' \subseteq up,
         \A v \in Workers \ {w} : pc'[v] = pc[v] /\ job'[v] = job[v] /\ (v \in up => v \in up'),
         \A e \in Events : batch[e] # NoBatch => batch'[e] = batch[e],
         \A e \in Events : status'[e] = "processed" =>
           /\ batch'[e] = batch[e]
           /\ status[e] = "processed" \/ (CommittedTurn(batch[e]) /\ batch[e] \in dialogue),
         \/ pc'[w] = "idle"
         \/ /\ pc'[w] = "execute" /\ w \in up' /\ HoldsClaim(w)'
            /\ job'[w].batch # NoBatch
            /\ \A e \in job'[w].batch : batch'[e] = job'[w].batch
  PROVE  InboxInv'
PROOF
  <1> USE DEF InboxInv
  <1>1. JobsFrozen'
    <2>1. ASSUME NEW v \in Workers \ {w}, pc[v] # "idle"
          PROVE  \A e \in job[v].batch : batch'[e] = job[v].batch
      BY <2>1, JobFacts DEF NoBatch
    <2> QED BY <2>1 DEF JobsFrozen
  <1>2. TurnsFrozen'
    <2>1. ASSUME NEW l \in Leads, NEW i \in 1..Len(turns[l]), NEW e \in turns[l][i]
          PROVE  batch'[e] = turns[l][i]
      <3>1. turns[l][i] \in SUBSET Events
        BY DEF TypeOK, Batches
      <3>2. e \in Events /\ batch[e] = turns[l][i] /\ batch[e] # NoBatch
        BY <3>1 DEF TurnsFrozen, NoBatch
      <3> QED BY <3>2
    <2> QED BY <2>1 DEF TurnsFrozen
  <1>3. \A b : CommittedTurn(b) => CommittedTurn(b)'
    BY DEF CommittedTurn
  <1>4. RepliesStored'
    BY <1>3 DEF RepliesStored
  <1>5. ProcessedHasTurn'
    BY <1>3 DEF ProcessedHasTurn
  <1>6. HandoffsKnown'
    BY DEF HandoffsKnown, Opened
  <1>7. OwnerAlone'
    <2>1. Exclusive => \A v \in Workers \ {w} : pc[v] = "idle"
      BY DEF OwnerAlone, JobsFrozen
    <2> QED BY <2>1 DEF OwnerAlone, Executing
  <1> QED BY <1>1, <1>2, <1>4, <1>5, <1>6, <1>7

(* A batch whose rows change together, and alone, keeps the row invariant. *)
LEMMA BatchChanges ==
  ASSUME InboxInv, NEW B \in SUBSET Events, \A e \in B : batch[e] = B,
         UNCHANGED <<batch, occurredAt>>,
         \A e \in Events \ B :
           /\ status'[e] = status[e] /\ holder'[e] = holder[e] /\ expires'[e] = expires[e]
           /\ retryAt'[e] = retryAt[e] /\ failures'[e] = failures[e] /\ handoff'[e] = handoff[e],
         \A e, o \in B :
           /\ status'[e] = status'[o] /\ holder'[e] = holder'[o] /\ expires'[e] = expires'[o]
           /\ retryAt'[e] = retryAt'[o] /\ failures'[e] = failures'[o] /\ handoff'[e] = handoff'[o],
         \A e \in B :
           /\ status'[e] # "absent"
           /\ status'[e] \in {"pending", "claimed"} =>
                status[e] \in {"pending", "claimed"} /\ failures'[e] < FailureBudget
           /\ status'[e] # "claimed" => holder'[e] = Nobody /\ expires'[e] = 0
  PROVE  RowInv'
PROOF
  <1> USE DEF InboxInv, RowInv
  <1>1. \A e \in Events : batch[e] = NoBatch => e \notin B
    BY DEF NoBatch
  <1>2. ASSUME NEW e \in Events \ B, batch[e] # NoBatch PROVE \A o \in batch[e] : o \in Events \ B
    BY <1>2, BatchFacts
  <1>3. (FreshRows /\ HeldWhenClaimed /\ BudgetLeft)'
    BY <1>1 DEF FreshRows, HeldWhenClaimed, BudgetLeft
  <1>4. BatchMovesTogether'
    <2> SUFFICES ASSUME NEW e \in Events, batch[e] # NoBatch
                 PROVE  /\ e \in batch[e] /\ status'[e] # "absent"
                        /\ \A o \in batch[e] :
                             /\ LeadOf[o] = LeadOf[e]
                             /\ batch[o] = batch[e] /\ status'[o] = status'[e]
                             /\ holder'[o] = holder'[e] /\ expires'[o] = expires'[e]
                             /\ retryAt'[o] = retryAt'[e] /\ failures'[o] = failures'[e]
                             /\ handoff'[o] = handoff'[e]
      BY DEF BatchMovesTogether
    <2>1. CASE e \in B
      BY <2>1, BatchFacts
    <2>2. CASE e \notin B
      BY <2>2, <1>2, BatchFacts
    <2> QED BY <2>1, <2>2
  <1>5. OneUnfinishedBatch'
    <2>1. \A e \in Events : Unfinished(e)' => Unfinished(e)
      BY <1>1 DEF Unfinished
    <2> QED BY <2>1 DEF OneUnfinishedBatch
  <1> QED BY <1>3, <1>4, <1>5

(* accept adds a row to no batch. *)
LEMMA AcceptStep == ASSUME InboxInv, NEW e \in Events, NEW at \in Stamps, Accept(e, at) PROVE InboxInv'
PROOF
  <1> USE DEF InboxInv
  <1>1. /\ status[e] = "absent" /\ batch[e] = NoBatch
        /\ status'[e] = "pending" /\ \A o \in Events \ {e} : status'[o] = status[o]
        /\ UNCHANGED <<now, batch, holder, expires, retryAt, failures, handoff,
                       procVars, turnVars, humanVars, faults>>
    BY BatchFacts DEF Accept, TypeOK
  <1>2. TypeOK'
    BY <1>1 DEF TypeOK, Accept, procVars, turnVars, humanVars
  <1>3. RowInv'
    <2>1. (FreshRows /\ HeldWhenClaimed)'
      BY <1>1 DEF RowInv, FreshRows, HeldWhenClaimed
    <2>2. BudgetLeft'
      BY <1>1, DelayAssumption DEF RowInv, FreshRows, BudgetLeft
    <2>3. BatchMovesTogether'
      <3> SUFFICES ASSUME NEW d \in Events, batch[d] # NoBatch
                   PROVE  /\ d \in batch[d] /\ status'[d] # "absent"
                          /\ \A o \in batch[d] :
                               /\ LeadOf[o] = LeadOf[d]
                               /\ batch[o] = batch[d] /\ status'[o] = status'[d]
                               /\ holder[o] = holder[d] /\ expires[o] = expires[d]
                               /\ retryAt[o] = retryAt[d] /\ failures[o] = failures[d]
                               /\ handoff[o] = handoff[d]
        BY <1>1 DEF BatchMovesTogether
      <3> QED BY <1>1, BatchFacts
    <2>4. OneUnfinishedBatch'
      BY <1>1 DEF RowInv, OneUnfinishedBatch, Unfinished
    <2> QED BY <2>1, <2>2, <2>3, <2>4 DEF RowInv
  <1>4. JobsFrozen' /\ TurnsFrozen'
    BY <1>1 DEF JobsFrozen, TurnsFrozen, procVars, turnVars
  <1>5. RepliesStored'
    BY <1>1 DEF RepliesStored, CommittedTurn, procVars, turnVars
  <1>6. ProcessedHasTurn'
    BY <1>1 DEF ProcessedHasTurn, CommittedTurn, turnVars
  <1>7. (HandoffsKnown /\ HandoffOpenedOnce)'
    BY <1>1 DEF HandoffsKnown, HandoffOpenedOnce, Opened, procVars, humanVars
  <1>8. OwnerAlone'
    <2>1. \A w \in Workers : HoldsClaim(w) => HoldsClaim(w)'
      BY <1>1 DEF HoldsClaim, procVars, TypeOK, Job, Batches
    <2> QED BY <1>1, <2>1 DEF OwnerAlone, procVars
  <1> QED BY <1>2, <1>3, <1>4, <1>5, <1>6, <1>7, <1>8
-----------------------------------------------------------------------------
(* A release gives the whole batch back, or nothing. *)
LEMMA ReleaseRows ==
  ASSUME InboxInv, NEW w \in Workers, pc[w] # "idle",
         NEW failed \in BOOLEAN, NEW terminal \in BOOLEAN, ReleaseClaim(w, failed, terminal)
  PROVE  /\ RowInv'
         /\ status' \in [Events -> {"absent", "pending", "claimed", "processed", "manual_review"}]
         /\ holder' \in [Events -> Workers \cup {Nobody}]
         /\ expires' \in [Events -> 0..Horizon] /\ retryAt' \in [Events -> 0..Horizon]
         /\ failures' \in [Events -> 0..FailureBudget]
         /\ UNCHANGED <<batch, occurredAt, handoff>>
         /\ \A e \in Events : status'[e] = "processed" => status[e] = "processed"
PROOF
  <1> USE DEF InboxInv
  <1>1. PICK B \in SUBSET Events : B = IF HoldsClaim(w) THEN job[w].batch ELSE {}
    BY JobFacts
  <1>2. /\ \A e \in B : batch[e] = B /\ status[e] = "claimed"
        /\ \A e, o \in B : failures[e] = failures[o] /\ handoff[e] = handoff[o]
    BY <1>1, JobFacts DEF HoldsClaim
  <1>3. PICK again : again = Clamp(job[w].instant + RetryDelay)
    OBVIOUS
  <1>4. again \in 0..Horizon
    <2>1. job[w].instant \in Nat /\ RetryDelay \in Nat
      BY DelayAssumption DEF TypeOK, Job
    <2> QED BY <1>3, <2>1, TimeFacts
  <1>5. /\ status' = [e \in Events |-> IF e \in B THEN Released(e, failed, terminal) ELSE status[e]]
        /\ failures' = [e \in Events |-> IF e \in B /\ failed THEN failures[e] + 1 ELSE failures[e]]
        /\ holder' = [e \in Events |-> IF e \in B THEN Nobody ELSE holder[e]]
        /\ expires' = [e \in Events |-> IF e \in B THEN 0 ELSE expires[e]]
        /\ retryAt' = [e \in Events |-> IF e \in B THEN again ELSE retryAt[e]]
        /\ UNCHANGED <<batch, occurredAt, handoff>>
    BY <1>1, <1>3 DEF ReleaseClaim
  <1>6. ASSUME NEW e \in B
        PROVE  /\ Released(e, failed, terminal) \in {"pending", "manual_review"}
               /\ failures[e] \in Nat /\ failures[e] < FailureBudget
               /\ failures'[e] \in 0..FailureBudget
               /\ Released(e, failed, terminal) = "pending" => failures'[e] < FailureBudget
    <2>1. failures[e] \in Nat /\ failures[e] < FailureBudget
      BY <1>2 DEF TypeOK, RowInv, BudgetLeft
    <2>2. failures'[e] = IF failed THEN failures[e] + 1 ELSE failures[e]
      BY <1>5
    <2> QED BY <2>1, <2>2, DelayAssumption DEF Released
  <1>7. \A e, o \in B : status'[e] = status'[o] /\ failures'[e] = failures'[o]
    BY <1>2, <1>5 DEF Released
  <1>8. RowInv'
    <2>1. \A e \in Events \ B :
            /\ status'[e] = status[e] /\ holder'[e] = holder[e] /\ expires'[e] = expires[e]
            /\ retryAt'[e] = retryAt[e] /\ failures'[e] = failures[e] /\ handoff'[e] = handoff[e]
      BY <1>5
    <2>2. \A e, o \in B :
            /\ status'[e] = status'[o] /\ holder'[e] = holder'[o] /\ expires'[e] = expires'[o]
            /\ retryAt'[e] = retryAt'[o] /\ failures'[e] = failures'[o] /\ handoff'[e] = handoff'[o]
      BY <1>2, <1>5, <1>7
    <2>3. \A e \in B :
            /\ status'[e] # "absent"
            /\ status'[e] \in {"pending", "claimed"} =>
                 status[e] \in {"pending", "claimed"} /\ failures'[e] < FailureBudget
            /\ status'[e] # "claimed" => holder'[e] = Nobody /\ expires'[e] = 0
      BY <1>2, <1>5, <1>6
    <2>4. (\A e \in B : batch[e] = B) /\ UNCHANGED <<batch, occurredAt>>
      BY <1>2, <1>5
    <2> HIDE DEF InboxInv
    <2> QED BY <2>1, <2>2, <2>3, <2>4, BatchChanges
  <1>9. /\ status' \in [Events -> {"absent", "pending", "claimed", "processed", "manual_review"}]
        /\ holder' \in [Events -> Workers \cup {Nobody}]
    BY <1>5, <1>6 DEF TypeOK
  <1>10. expires' \in [Events -> 0..Horizon] /\ retryAt' \in [Events -> 0..Horizon]
    BY <1>4, <1>5, TimeFacts DEF TypeOK
  <1>11. failures' \in [Events -> 0..FailureBudget]
    <2>1. \A e \in Events : failures'[e] \in 0..FailureBudget
      BY <1>5, <1>6 DEF TypeOK
    <2> QED BY <1>5, <2>1
  <1>12. \A e \in Events : status'[e] = "processed" => status[e] = "processed"
    BY <1>5, <1>6
  <1> QED BY <1>5, <1>8, <1>9, <1>10, <1>11, <1>12

(* Every release keeps the invariant. *)
LEMMA ReleaseSteps ==
  ASSUME InboxInv, NEW w \in Workers,
         Fail(w) \/ RejectAction(w) \/ AckFails(w) \/ Interrupt(w)
  PROVE  InboxInv'
PROOF
  <1> USE DEF InboxInv
  <1>1. /\ pc[w] \in Executing \cup {"ack"} /\ Finish(w)
        /\ \E failed, terminal \in BOOLEAN : ReleaseClaim(w, failed, terminal)
    BY DEF Fail, RejectAction, AckFails, Interrupt, Executing
  <1>2. /\ UNCHANGED <<now, turnVars, humanVars>>
        /\ faults' \in 0..MaxFaults
        /\ up' = up \/ up' = up \ {w}
    <2>1. CASE Fail(w) \/ RejectAction(w)
      BY <2>1 DEF Fail, RejectAction, TypeOK
    <2>2. CASE AckFails(w)
      BY <2>2, DelayAssumption DEF AckFails, Fault, TypeOK
    <2>3. CASE Interrupt(w)
      BY <2>3, DelayAssumption DEF Interrupt, Fault, TypeOK
    <2> QED BY <2>1, <2>2, <2>3
  <1>3. pc[w] # "idle"
    BY <1>1 DEF Executing
  <1>4. /\ RowInv'
        /\ status' \in [Events -> {"absent", "pending", "claimed", "processed", "manual_review"}]
        /\ holder' \in [Events -> Workers \cup {Nobody}]
        /\ expires' \in [Events -> 0..Horizon] /\ retryAt' \in [Events -> 0..Horizon]
        /\ failures' \in [Events -> 0..FailureBudget]
        /\ UNCHANGED <<batch, occurredAt, handoff>>
        /\ \A e \in Events : status'[e] = "processed" => status[e] = "processed"
    BY <1>1, <1>3, ReleaseRows
  <1>5. TypeOK'
    BY <1>1, <1>2, <1>4, FinishFacts DEF TypeOK, turnVars, humanVars
  <1>6. HandoffOpenedOnce'
    BY <1>2, <1>4 DEF HandoffOpenedOnce, Opened, humanVars
  <1> QED BY <1>1, <1>2, <1>3, <1>4, <1>5, <1>6, JobFacts, FinishFacts, RowsMove
          DEF turnVars, humanVars

(* An acknowledgement completes the whole batch, whose turn is stored. *)
LEMMA CompleteStep == ASSUME InboxInv, NEW w \in Workers, CompleteClaim(w) PROVE InboxInv'
PROOF
  <1> USE DEF InboxInv
  <1>1. /\ pc[w] = "ack" /\ Finish(w)
        /\ UNCHANGED <<now, occurredAt, batch, retryAt, failures, handoff, up,
                       turnVars, humanVars, faults>>
    BY DEF CompleteClaim
  <1>2. PICK B \in SUBSET Events : B = IF HoldsClaim(w) THEN job[w].batch ELSE {}
    BY <1>1, JobFacts
  <1>3. /\ \A e \in B : batch[e] = B /\ batch[e] = job[w].batch /\ status[e] = "claimed"
        /\ \A e, o \in B : /\ failures[e] = failures[o] /\ handoff[e] = handoff[o]
                           /\ retryAt[e] = retryAt[o]
    BY <1>1, <1>2, JobFacts DEF HoldsClaim
  <1>4. status' = [e \in Events |-> IF e \in B THEN "processed" ELSE status[e]]
    BY <1>2 DEF CompleteClaim
  <1>5. /\ holder' = [e \in Events |-> IF status'[e] = "processed" THEN Nobody ELSE holder[e]]
        /\ expires' = [e \in Events |-> IF status'[e] = "processed" THEN 0 ELSE expires[e]]
    BY DEF CompleteClaim
  <1>6. \A e \in Events \ B :
          status'[e] = status[e] /\ holder'[e] = holder[e] /\ expires'[e] = expires[e]
    BY <1>4, <1>5 DEF RowInv, HeldWhenClaimed
  <1>7. \A e \in B : status'[e] = "processed" /\ holder'[e] = Nobody /\ expires'[e] = 0
    BY <1>4, <1>5
  <1>8. RowInv'
    <2>1. \A e \in Events \ B :
            /\ status'[e] = status[e] /\ holder'[e] = holder[e] /\ expires'[e] = expires[e]
            /\ retryAt'[e] = retryAt[e] /\ failures'[e] = failures[e] /\ handoff'[e] = handoff[e]
      BY <1>1, <1>6
    <2>2. \A e, o \in B :
            /\ status'[e] = status'[o] /\ holder'[e] = holder'[o] /\ expires'[e] = expires'[o]
            /\ retryAt'[e] = retryAt'[o] /\ failures'[e] = failures'[o] /\ handoff'[e] = handoff'[o]
      BY <1>1, <1>3, <1>7
    <2> QED BY <1>1, <1>3, <1>7, <2>1, <2>2, BatchChanges
  <1>9. TypeOK'
    <2>1. /\ status' \in [Events -> {"absent", "pending", "claimed", "processed", "manual_review"}]
          /\ holder' \in [Events -> Workers \cup {Nobody}]
      BY <1>4, <1>5 DEF TypeOK
    <2>2. expires' \in [Events -> 0..Horizon]
      BY <1>5, TimeFacts DEF TypeOK
    <2> QED BY <1>1, <2>1, <2>2, FinishFacts DEF TypeOK, turnVars, humanVars
  <1>10. HandoffOpenedOnce'
    BY <1>1 DEF HandoffOpenedOnce, Opened, humanVars
  <1>11. \A e \in Events : status'[e] = "processed" =>
           status[e] = "processed" \/ (CommittedTurn(batch[e]) /\ batch[e] \in dialogue)
    BY <1>1, <1>3, <1>6 DEF RepliesStored
  <1> QED BY <1>1, <1>8, <1>9, <1>10, <1>11, JobFacts, FinishFacts, RowsMove DEF turnVars, humanVars

(* record_handoff links the rows of a batch together, to a handoff of the
   lead. *)
LEMMA LinkStep == ASSUME InboxInv, NEW w \in Workers, RecordHandoff(w) PROVE InboxInv'
PROOF
  <1> USE DEF InboxInv
  <1>1. /\ pc[w] = "link" /\ Finish(w)
        /\ UNCHANGED <<now, status, occurredAt, batch, holder, expires, retryAt, failures,
                       up, turnVars, humanVars, faults>>
    BY DEF RecordHandoff
  <1>2. PICK B \in SUBSET Events :
          /\ B = {} \/ B = job[w].batch
          /\ handoff' = [e \in Events |-> IF e \in B THEN job[w].handoff ELSE handoff[e]]
    <2> DEFINE rows == {e \in Events : batch[e] = job[w].batch}
               ok   == \A e \in rows : /\ status[e] = "manual_review"
                                       /\ handoff[e] \in {NoHandoff, job[w].handoff}
    <2>1. handoff' = [e \in Events |-> IF ok /\ e \in rows THEN job[w].handoff ELSE handoff[e]]
      BY DEF RecordHandoff
    <2>2. rows = job[w].batch /\ rows \in SUBSET Events
      BY <1>1, JobFacts
    <2> HIDE DEF rows, ok
    <2> DEFINE linked == IF ok THEN rows ELSE {}
    <2>3. linked \in SUBSET Events /\ (linked = {} \/ linked = job[w].batch)
      BY <2>2
    <2>4. handoff' = [e \in Events |-> IF e \in linked THEN job[w].handoff ELSE handoff[e]]
      BY <2>1
    <2> QED BY <2>3, <2>4
  <1>3. /\ \A e \in B : batch[e] = B
        /\ \A e, o \in B :
             /\ status[e] = status[o] /\ status[e] # "absent"
             /\ holder[e] = holder[o] /\ expires[e] = expires[o]
             /\ retryAt[e] = retryAt[o] /\ failures[e] = failures[o]
    BY <1>1, <1>2, JobFacts
  <1>4. RowInv'
    <2>1. \A e \in Events \ B :
            /\ status'[e] = status[e] /\ holder'[e] = holder[e] /\ expires'[e] = expires[e]
            /\ retryAt'[e] = retryAt[e] /\ failures'[e] = failures[e] /\ handoff'[e] = handoff[e]
      BY <1>1, <1>2
    <2>2. \A e, o \in B :
            /\ status'[e] = status'[o] /\ holder'[e] = holder'[o] /\ expires'[e] = expires'[o]
            /\ retryAt'[e] = retryAt'[o] /\ failures'[e] = failures'[o] /\ handoff'[e] = handoff'[o]
      BY <1>1, <1>2, <1>3
    <2>3. \A e \in B :
            /\ status'[e] # "absent"
            /\ status'[e] \in {"pending", "claimed"} =>
                 status[e] \in {"pending", "claimed"} /\ failures'[e] < FailureBudget
            /\ status'[e] # "claimed" => holder'[e] = Nobody /\ expires'[e] = 0
      BY <1>1, <1>3 DEF RowInv, BudgetLeft, HeldWhenClaimed
    <2> QED BY <1>1, <1>3, <2>1, <2>2, <2>3, BatchChanges
  <1>5. TypeOK'
    <2>1. job[w].handoff \in Batches
      BY DEF TypeOK, Job
    <2>2. handoff' \in [Events -> Batches]
      BY <1>2, <2>1 DEF TypeOK
    <2> QED BY <1>1, <2>2, FinishFacts DEF TypeOK, turnVars, humanVars
  <1>6. HandoffOpenedOnce'
    <2>1. \A b : Opened(b)' <=> Opened(b)
      BY <1>1 DEF Opened, humanVars
    <2>2. \A i, j \in DOMAIN handoffs' : handoffs'[i] = handoffs'[j] => i = j
      BY <1>1 DEF HandoffOpenedOnce, humanVars
    <2>3. ASSUME NEW e \in Events, handoff'[e] # NoHandoff
          PROVE  Opened(handoff'[e]) /\ \A o \in handoff'[e] : LeadOf[o] = LeadOf[e]
      <3>1. CASE e \in B
        BY <1>1, <1>2, <3>1 DEF HandoffsKnown
      <3>2. CASE e \notin B
        BY <1>2, <2>3, <3>2 DEF HandoffOpenedOnce
      <3> QED BY <3>1, <3>2
    <2> QED BY <2>1, <2>2, <2>3 DEF HandoffOpenedOnce
  <1>7. \A e \in Events : status'[e] = "processed" => status[e] = "processed"
    BY <1>1
  <1> QED BY <1>1, <1>4, <1>5, <1>6, <1>7, JobFacts, FinishFacts, RowsMove DEF turnVars, humanVars
-----------------------------------------------------------------------------
(* What claim_ready takes: new events of a lead without an unfinished batch,
   or the whole unfinished batch of the lead. *)
LEMMA GroupFacts ==
  ASSUME InboxInv, NEW l \in Leads, NEW G \in Group(l), Eligible(G, l),
         Frozen(G) => \A e \in G : batch[e] = G
  PROVE  /\ G \in SUBSET Events /\ G # {}
         /\ \A e \in G : LeadOf[e] = l /\ Free(e) /\ (batch[e] = NoBatch \/ batch[e] = G)
         /\ \A e, o \in G : batch[e] = batch[o]
         /\ \A e \in Events : LeadOf[e] = l /\ Unfinished(e) => e \in G
PROOF
  <1> USE DEF InboxInv, RowInv
  <1>1. PICK b : G = {e \in Events : LeadOf[e] = l /\ Free(e) /\ batch[e] = b} /\ G # {}
    BY DEF Group
  <1>2. /\ G \in SUBSET Events /\ \A e \in G : LeadOf[e] = l /\ Free(e) /\ batch[e] = b
        /\ G # {}
    BY <1>1
  <1>3. CASE b = NoBatch
    <2>1. ~Frozen(G)
      BY <1>2, <1>3 DEF Frozen
    <2>2. /\ \A e \in Events : LeadOf[e] = l => status[e] # "claimed" \/ Expired(e)
          /\ \A e \in Events : LeadOf[e] = l /\ Free(e) => batch[e] = NoBatch
      BY <2>1 DEF Eligible
    <2>3. ASSUME NEW e \in Events, LeadOf[e] = l, Unfinished(e) PROVE FALSE
      <3>1. Free(e)
        BY <2>2, <2>3 DEF Unfinished, Free
      <3>2. batch[e] = NoBatch
        BY <2>2, <2>3, <3>1
      <3> QED BY <2>3, <3>2 DEF Unfinished, FreshRows
    <2> QED BY <1>2, <1>3, <2>3
  <1>4. CASE b # NoBatch
    <2>1. Frozen(G) /\ \A e \in G : batch[e] = G
      BY <1>2, <1>4 DEF Frozen
    <2>2. PICK g \in G : LeadOf[g] = l /\ Free(g) /\ batch[g] = G
      BY <1>2, <2>1
    <2>3. Unfinished(g) /\ batch[g] # NoBatch
      BY <1>2, <2>2 DEF Unfinished, Free, Expired, NoBatch
    <2>4. ASSUME NEW e \in Events, LeadOf[e] = l, Unfinished(e) PROVE e \in G
      <3>1. batch[e] = G
        BY <1>2, <2>2, <2>3, <2>4 DEF OneUnfinishedBatch
      <3> QED BY <3>1, <2>2, <2>3, BatchFacts
    <2> QED BY <1>2, <2>1, <2>4
  <1> QED BY <1>3, <1>4

(* A claim freezes new events or takes a whole batch again, and frees whole
   batches whose claim has expired. *)
LEMMA ClaimStep == ASSUME InboxInv, NEW w \in Workers, ClaimReady(w) PROVE InboxInv'
PROOF
  <1> USE DEF InboxInv
  <1>1. PICK l, G :
          /\ l \in Leads /\ G \in Group(l) /\ Candidate(G, l)
          /\ Frozen(G) => \A e \in G : batch[e] = G
          /\ status' = [e \in Events |-> IF e \in G THEN "claimed"
                                         ELSE IF Expired(e) THEN "pending" ELSE status[e]]
          /\ holder' = [e \in Events |-> IF e \in G THEN w
                                         ELSE IF Expired(e) THEN Nobody ELSE holder[e]]
          /\ expires' = [e \in Events |-> IF e \in G THEN Clamp(now + LeaseTTL)
                                          ELSE IF Expired(e) THEN 0 ELSE expires[e]]
          /\ batch' = [e \in Events |-> IF e \in G THEN G ELSE batch[e]]
          /\ job' = [job EXCEPT ![w] = [NoJob EXCEPT !.batch = G, !.instant = now]]
    BY DEF ClaimReady
  <1>2. /\ w \in up /\ pc[w] = "idle" /\ Goto(w, "execute")
        /\ UNCHANGED <<now, occurredAt, retryAt, failures, handoff, up, turnVars, humanVars, faults>>
    BY DEF ClaimReady
  <1>3. /\ G \in SUBSET Events /\ G # {}
        /\ \A e \in G : LeadOf[e] = l /\ Free(e) /\ (batch[e] = NoBatch \/ batch[e] = G)
        /\ \A e, o \in G : batch[e] = batch[o]
        /\ \A e \in Events : LeadOf[e] = l /\ Unfinished(e) => e \in G
    <2>1. Eligible(G, l)
      BY <1>1 DEF Candidate
    <2> HIDE DEF InboxInv
    <2> QED BY <1>1, <2>1, GroupFacts
  <1>4. PICK due : due = Clamp(now + LeaseTTL)
    OBVIOUS
  <1>5. due \in 0..Horizon
    <2>1. now \in Nat /\ LeaseTTL \in Nat
      BY DelayAssumption DEF TypeOK
    <2> QED BY <1>4, <2>1, TimeFacts
  <1>6. /\ \A e \in G : status'[e] = "claimed" /\ holder'[e] = w /\ expires'[e] = due /\ batch'[e] = G
        /\ \A e \in Events \ G :
             /\ batch'[e] = batch[e]
             /\ Expired(e) => status'[e] = "pending" /\ holder'[e] = Nobody /\ expires'[e] = 0
             /\ ~Expired(e) => /\ status'[e] = status[e] /\ holder'[e] = holder[e]
                               /\ expires'[e] = expires[e]
    BY <1>1, <1>3, <1>4
  <1>7. ASSUME NEW e \in Events \ G, batch[e] # NoBatch
        PROVE  \A o \in batch[e] : o \in Events \ G /\ (Expired(o) <=> Expired(e))
    <2>1. ASSUME NEW o \in batch[e] PROVE o \in Events \ G
      <3>1. o \in Events /\ batch[o] = batch[e] /\ e \in batch[e]
        BY <1>7, BatchFacts
      <3> QED BY <3>1, <1>3, <1>7 DEF NoBatch
    <2>2. ASSUME NEW o \in batch[e] PROVE Expired(o) <=> Expired(e)
      BY <1>7, BatchFacts DEF Expired
    <2> QED BY <2>1, <2>2
  <1>8. TypeOK'
    <2>1. /\ status' \in [Events -> {"absent", "pending", "claimed", "processed", "manual_review"}]
          /\ holder' \in [Events -> Workers \cup {Nobody}]
      BY <1>1 DEF TypeOK
    <2>2. expires' \in [Events -> 0..Horizon]
      BY <1>1, <1>4, <1>5, TimeFacts DEF TypeOK
    <2>3. G \in Batches /\ batch' \in [Events -> Batches]
      BY <1>1, <1>3 DEF TypeOK, Batches
    <2>4. [NoJob EXCEPT !.batch = G, !.instant = now] \in Job
      <3>1. now \in 0..Horizon
        BY DEF TypeOK
      <3>2. NoJob \in Job
        BY DelayAssumption DEF NoJob, Job, Batches, NoBatch, NoHandoff
      <3>3. [NoJob EXCEPT !.batch = G] \in Job
        BY <2>3, <3>2 DEF Job
      <3>4. [[NoJob EXCEPT !.batch = G] EXCEPT !.instant = now] \in Job
        BY <3>1, <3>3 DEF Job
      <3>5. [NoJob EXCEPT !.batch = G, !.instant = now]
              = [[NoJob EXCEPT !.batch = G] EXCEPT !.instant = now]
        OBVIOUS
      <3> QED BY <3>4, <3>5
    <2>5. job' \in [Workers -> Job]
      BY <1>1, <2>4 DEF TypeOK
    <2>6. pc' \in [Workers -> Executing \cup {"idle", "ack", "link"}]
      BY <1>2, GotoFacts DEF Executing
    <2> QED BY <1>2, <2>1, <2>2, <2>3, <2>5, <2>6 DEF TypeOK, turnVars, humanVars
  <1>9. (FreshRows /\ HeldWhenClaimed)'
    <2>1. FreshRows'
      BY <1>2, <1>3, <1>6 DEF RowInv, FreshRows, Expired, NoBatch
    <2>2. HeldWhenClaimed'
      BY <1>6 DEF RowInv, HeldWhenClaimed
    <2> QED BY <2>1, <2>2
  <1>10. BudgetLeft'
    BY <1>2, <1>3, <1>6 DEF RowInv, BudgetLeft, Free, Expired
  <1>11. BatchMovesTogether'
    <2> SUFFICES ASSUME NEW e \in Events, batch'[e] # NoBatch
                 PROVE  /\ e \in batch'[e] /\ status'[e] # "absent"
                        /\ \A o \in batch'[e] :
                             /\ LeadOf[o] = LeadOf[e]
                             /\ batch'[o] = batch'[e] /\ status'[o] = status'[e]
                             /\ holder'[o] = holder'[e] /\ expires'[o] = expires'[e]
                             /\ retryAt[o] = retryAt[e] /\ failures[o] = failures[e]
                             /\ handoff[o] = handoff[e]
      BY <1>2 DEF BatchMovesTogether
    <2>1. CASE e \in G
      <3>1. \A o \in G : retryAt[o] = retryAt[e] /\ failures[o] = failures[e] /\ handoff[o] = handoff[e]
        <4>1. CASE batch[e] = NoBatch
          BY <1>3, <2>1, <4>1 DEF RowInv, FreshRows
        <4>2. CASE batch[e] = G
          BY <1>3, <2>1, <4>2, BatchFacts DEF NoBatch
        <4> QED BY <1>3, <2>1, <4>1, <4>2
      <3> QED BY <1>3, <1>6, <2>1, <3>1
    <2>2. CASE e \notin G
      BY <1>6, <1>7, <2>2, BatchFacts
    <2> QED BY <2>1, <2>2
  <1>12. OneUnfinishedBatch'
    <2>1. ASSUME NEW e \in Events, Unfinished(e)'
          PROVE  e \in G \/ (e \notin G /\ Unfinished(e) /\ batch'[e] = batch[e])
      <3>1. CASE e \notin G /\ Expired(e)
        BY <1>6, <3>1 DEF Unfinished, Expired
      <3>2. CASE e \notin G /\ ~Expired(e)
        BY <1>6, <2>1, <3>2 DEF Unfinished
      <3> QED BY <3>1, <3>2
    <2>2. ASSUME NEW e \in Events, NEW o \in Events, LeadOf[e] = LeadOf[o],
                 Unfinished(e)', Unfinished(o)'
          PROVE  batch'[e] = batch'[o]
      <3>1. CASE e \in G /\ o \in G
        BY <1>6, <3>1
      <3>2. CASE e \in G /\ o \notin G
        BY <1>3, <2>1, <2>2, <3>2
      <3>3. CASE e \notin G /\ o \in G
        BY <1>3, <2>1, <2>2, <3>3
      <3>4. CASE e \notin G /\ o \notin G
        BY <2>1, <2>2, <3>4 DEF RowInv, OneUnfinishedBatch
      <3> QED BY <3>1, <3>2, <3>3, <3>4
    <2> QED BY <2>2 DEF OneUnfinishedBatch
  <1>13. RowInv'
    BY <1>9, <1>10, <1>11, <1>12 DEF RowInv
  <1>14. HandoffOpenedOnce'
    BY <1>2 DEF HandoffOpenedOnce, Opened, humanVars
  <1>15. /\ pc'[w] = "execute" /\ job'[w].batch = G
         /\ \A v \in Workers \ {w} : pc'[v] = pc[v] /\ job'[v] = job[v]
    <2>1. job'[w].batch = G /\ \A v \in Workers \ {w} : job'[v] = job[v]
      BY <1>1 DEF TypeOK, NoJob
    <2> QED BY <1>2, <2>1, GotoFacts DEF Executing
  <1>16. HoldsClaim(w)'
    BY <1>6, <1>15 DEF HoldsClaim
  <1>17. \A e \in Events : /\ batch[e] # NoBatch => batch'[e] = batch[e]
                           /\ status'[e] = "processed" =>
                                batch'[e] = batch[e] /\ status[e] = "processed"
    BY <1>3, <1>6
  <1>18. job'[w].batch # NoBatch /\ \A e \in job'[w].batch : batch'[e] = job'[w].batch
    BY <1>3, <1>6, <1>15 DEF NoBatch
  <1> HIDE DEF InboxInv
  <1> QED BY <1>2, <1>8, <1>13, <1>14, <1>15, <1>16, <1>17, <1>18, RowsMove DEF turnVars, humanVars
-----------------------------------------------------------------------------
(* A commit appends the frozen batch of its process, which has no turn yet. *)
LEMMA CommitStep == ASSUME InboxInv, NEW w \in Workers, CommitTurn(w) PROVE InboxInv'
PROOF
  <1> USE DEF InboxInv
  <1>1. /\ pc[w] = "commit" /\ Goto(w, "dialogue") /\ ~CommittedTurn(job[w].batch)
        /\ turns' = [turns EXCEPT ![Lead(w)] = Append(@, job[w].batch)]
        /\ UNCHANGED <<now, rowVars, up, job, fence, dialogue, humanVars, faults>>
    BY DEF CommitTurn
  <1>2. PICK l \in Leads : l = Lead(w)
    BY <1>1, JobFacts
  <1>3. PICK B \in Batches : B = job[w].batch
    BY DEF TypeOK, Job
  <1>4. w \in up /\ \A e \in B : batch[e] = B
    BY <1>1, <1>3, JobFacts
  <1>5. /\ turns'[l] = Append(turns[l], B)
        /\ \A m \in Leads \ {l} : turns'[m] = turns[m]
        /\ turns' \in [Leads -> Seq(Batches)]
        /\ \A m \in Leads : turns[m] \in Seq(Batches)
    BY <1>1, <1>2, <1>3 DEF TypeOK
  <1>6. /\ Len(turns[l]) \in Nat /\ Len(turns'[l]) = Len(turns[l]) + 1
        /\ \A i \in 1..Len(turns[l]) : turns'[l][i] = turns[l][i]
        /\ turns'[l][Len(turns[l]) + 1] = B
    BY <1>5
  <1>7. /\ pc' \in [Workers -> Executing \cup {"idle", "ack", "link"}]
        /\ pc'[w] = "dialogue" /\ \A v \in Workers \ {w} : pc'[v] = pc[v]
    BY <1>1, GotoFacts DEF Executing
  <1>8. TypeOK'
    BY <1>1, <1>5, <1>7 DEF TypeOK, rowVars, humanVars
  <1>9. RowInv'
    BY <1>1, RowsRest
  <1>10. JobsFrozen'
    BY <1>1, <1>7 DEF JobsFrozen, rowVars
  <1>11. \A i \in 1..Len(turns[l]) : turns[l][i] # B
    <2>1. DOMAIN turns[l] = 1..Len(turns[l])
      BY <1>5
    <2> QED BY <1>1, <1>3, <2>1 DEF CommittedTurn
  <1>12. TurnsFrozen'
    <2> SUFFICES ASSUME NEW m \in Leads
                 PROVE  /\ \A i \in 1..Len(turns'[m]) : \A e \in turns'[m][i] : batch[e] = turns'[m][i]
                        /\ \A i, j \in 1..Len(turns'[m]) : turns'[m][i] = turns'[m][j] => i = j
      BY <1>1 DEF TurnsFrozen, rowVars
    <2>1. CASE m # l
      BY <1>5, <2>1 DEF TurnsFrozen
    <2>2. CASE m = l
      <3>1. \A i \in 1..Len(turns'[l]) :
              i \in 1..Len(turns[l]) \/ (i = Len(turns[l]) + 1 /\ turns'[l][i] = B)
        BY <1>6
      <3>2. \A i \in 1..Len(turns'[l]) : \A e \in turns'[l][i] : batch[e] = turns'[l][i]
        BY <1>4, <1>6, <3>1 DEF TurnsFrozen
      <3>3. \A i, j \in 1..Len(turns'[l]) : turns'[l][i] = turns'[l][j] => i = j
        <4>1. \A i, j \in 1..Len(turns[l]) : turns[l][i] = turns[l][j] => i = j
          BY DEF TurnsFrozen
        <4>2. \A i \in 1..Len(turns[l]) : turns'[l][i] = turns[l][i] /\ turns'[l][i] # B
          BY <1>6, <1>11
        <4> SUFFICES ASSUME NEW i \in 1..Len(turns'[l]), NEW j \in 1..Len(turns'[l]),
                            turns'[l][i] = turns'[l][j]
                     PROVE  i = j
          OBVIOUS
        <4>3. CASE i \in 1..Len(turns[l]) /\ j \in 1..Len(turns[l])
          BY <4>1, <4>2, <4>3
        <4>4. CASE i = Len(turns[l]) + 1 /\ j = Len(turns[l]) + 1
          BY <4>4
        <4>5. ~(i \in 1..Len(turns[l]) /\ turns'[l][j] = B)
          BY <4>2
        <4>6. ~(j \in 1..Len(turns[l]) /\ turns'[l][i] = B)
          BY <4>2
        <4> QED BY <3>1, <4>3, <4>4, <4>5, <4>6
      <3> QED BY <2>2, <3>2, <3>3
    <2> QED BY <2>1, <2>2
  <1>13. CommittedTurn(B)' /\ \A b : CommittedTurn(b) => CommittedTurn(b)'
    <2>1. \A m \in Leads : DOMAIN turns[m] = 1..Len(turns[m])
      BY <1>5
    <2>2. DOMAIN turns'[l] = 1..Len(turns[l]) + 1
      BY <1>5, <1>6
    <2>3. CommittedTurn(B)'
      <3>1. Len(turns[l]) + 1 \in DOMAIN turns'[l]
        BY <1>6, <2>2
      <3> QED BY <1>6, <3>1 DEF CommittedTurn
    <2>4. ASSUME NEW b, CommittedTurn(b) PROVE CommittedTurn(b)'
      <3>1. PICK m \in Leads : \E i \in DOMAIN turns[m] : turns[m][i] = b
        BY <2>4 DEF CommittedTurn
      <3>2. PICK i \in DOMAIN turns[m] : turns[m][i] = b
        BY <3>1
      <3>3. CASE m # l
        BY <1>5, <3>2, <3>3 DEF CommittedTurn
      <3>4. CASE m = l
        <4>1. i \in DOMAIN turns'[l] /\ turns'[l][i] = b
          BY <1>6, <2>1, <2>2, <3>2, <3>4
        <4> QED BY <4>1 DEF CommittedTurn
      <3> QED BY <3>3, <3>4
    <2> QED BY <2>3, <2>4
  <1>14. RepliesStored'
    BY <1>1, <1>3, <1>7, <1>13 DEF RepliesStored
  <1>15. ProcessedHasTurn'
    BY <1>1, <1>13 DEF ProcessedHasTurn, rowVars
  <1>16. (HandoffsKnown /\ HandoffOpenedOnce)'
    BY <1>1, <1>7 DEF HandoffsKnown, HandoffOpenedOnce, Opened, humanVars, rowVars
  <1>17. OwnerAlone'
    BY <1>1, <1>7 DEF OwnerAlone, HoldsClaim, rowVars, Executing
  <1> QED BY <1>8, <1>9, <1>10, <1>12, <1>14, <1>15, <1>16, <1>17

(* The exception of a terminal batch is opened once, or the active handoff of
   its lead is shared. *)
LEMMA ExceptionStep ==
  ASSUME InboxInv, NEW w \in Workers, NEW d \in Events, OpenException(w, batch[d])
  PROVE  InboxInv'
PROOF
  <1> USE DEF InboxInv
  <1>1. PICK b \in Batches : b = batch[d]
    BY DEF TypeOK
  <1>2. PICK l : l = LeadOf[CHOOSE e \in b : TRUE]
    OBVIOUS
  <1>3. /\ w \in up /\ pc[w] = "idle" /\ PendingHandoff(b) /\ Goto(w, "link")
        /\ IF Opened(b) \/ active[l] # NoHandoff
             THEN UNCHANGED humanVars
             ELSE handoffs' = Append(handoffs, b) /\ active' = [active EXCEPT ![l] = b]
        /\ job' = [job EXCEPT ![w].batch = b, ![w].handoff = Chosen(b)]
        /\ UNCHANGED <<now, rowVars, up, turnVars, faults>>
    BY <1>1, <1>2 DEF OpenException
  <1>4. PICK c \in b : c \in Events /\ batch[c] = b
    BY <1>1, <1>3 DEF PendingHandoff, Batches
  <1>5. b # {} /\ b # NoBatch /\ b \in SUBSET Events
    BY <1>1, <1>4 DEF NoBatch, Batches
  <1>6. \A e \in b : batch[e] = b /\ LeadOf[e] = LeadOf[c]
    BY <1>4, <1>5, BatchFacts
  <1>7. l \in Leads /\ \A e \in b : LeadOf[e] = l
    <2>1. (CHOOSE e \in b : TRUE) \in b /\ l \in Leads
      BY <1>2, <1>5, ChosenMember
    <2> QED BY <1>2, <1>6, <2>1
  <1>8. PICK h : h = Chosen(b)
    OBVIOUS
  <1>9. h = IF Opened(b) \/ active[l] = NoHandoff THEN b ELSE active[l]
    BY <1>2, <1>8 DEF Chosen, Active
  <1>10. handoffs \in Seq(Batches) /\ active \in [Leads -> Batches]
    BY DEF TypeOK
  <1>11. h \in Batches
    BY <1>1, <1>7, <1>9, <1>10
  <1>12. /\ handoffs' \in Seq(Batches) /\ active' \in [Leads -> Batches]
         /\ \A g : Opened(g) => Opened(g)'
         /\ \A i, j \in DOMAIN handoffs' : handoffs'[i] = handoffs'[j] => i = j
         /\ \A m \in Leads : active'[m] = active[m] \/ (m = l /\ active'[m] = b /\ Opened(b)')
         /\ Opened(h)'
    <2>1. CASE Opened(b) \/ active[l] # NoHandoff
      <3>1. UNCHANGED <<handoffs, active>>
        BY <1>3, <2>1 DEF humanVars
      <3>2. \A g : Opened(g) <=> Opened(g)'
        BY <3>1 DEF Opened
      <3>3. Opened(h)
        BY <1>7, <1>9, <2>1 DEF HandoffsKnown
      <3> QED BY <1>10, <3>1, <3>2, <3>3 DEF HandoffOpenedOnce
    <2>2. CASE ~Opened(b) /\ active[l] = NoHandoff
      <3>1. /\ handoffs' = Append(handoffs, b) /\ active' = [active EXCEPT ![l] = b] /\ h = b
        BY <1>3, <1>9, <2>2
      <3>2. /\ Len(handoffs) \in Nat /\ DOMAIN handoffs = 1..Len(handoffs)
            /\ DOMAIN handoffs' = 1..Len(handoffs) + 1
            /\ \A i \in 1..Len(handoffs) : handoffs'[i] = handoffs[i]
            /\ handoffs'[Len(handoffs) + 1] = b
        BY <1>1, <1>10, <3>1
      <3>3. Opened(b)'
        <4>1. Len(handoffs) + 1 \in DOMAIN handoffs'
          BY <3>2
        <4> QED BY <3>2, <4>1 DEF Opened
      <3>4. \A g : Opened(g) => Opened(g)'
        <4>1. \A i \in DOMAIN handoffs : i \in DOMAIN handoffs' /\ handoffs'[i] = handoffs[i]
          BY <3>2
        <4> QED BY <4>1 DEF Opened
      <3>5. \A i \in 1..Len(handoffs) : handoffs[i] # b
        BY <2>2, <3>2 DEF Opened
      <3>6. \A i, j \in DOMAIN handoffs' : handoffs'[i] = handoffs'[j] => i = j
        <4>1. \A i \in DOMAIN handoffs' : i \in 1..Len(handoffs) \/ i = Len(handoffs) + 1
          BY <3>2
        <4>2. \A i, j \in 1..Len(handoffs) : handoffs[i] = handoffs[j] => i = j
          BY <3>2 DEF HandoffOpenedOnce
        <4> QED BY <3>2, <3>5, <4>1, <4>2
      <3>7. handoffs' \in Seq(Batches) /\ active' \in [Leads -> Batches]
        BY <1>1, <1>7, <1>10, <3>1
      <3>8. \A m \in Leads : active'[m] = active[m] \/ (m = l /\ active'[m] = b)
        BY <1>10, <3>1
      <3> QED BY <3>1, <3>3, <3>4, <3>6, <3>7, <3>8
    <2> QED BY <2>1, <2>2
  <1>13. /\ job' \in [Workers -> Job] /\ job'[w].batch = b /\ job'[w].handoff = h
         /\ \A v \in Workers \ {w} : job'[v] = job[v]
    <2>1. job[w] \in Job
      BY DEF TypeOK
    <2>2. [[job[w] EXCEPT !.batch = b] EXCEPT !.handoff = h] \in Job
      BY <1>11, <2>1 DEF Job
    <2>3. job' = [job EXCEPT ![w] = [[job[w] EXCEPT !.batch = b] EXCEPT !.handoff = h]]
      BY <1>3, <1>8 DEF TypeOK
    <2> QED BY <2>1, <2>2, <2>3 DEF TypeOK, Job
  <1>14. /\ pc' \in [Workers -> Executing \cup {"idle", "ack", "link"}]
         /\ pc'[w] = "link" /\ \A v \in Workers \ {w} : pc'[v] = pc[v]
    BY <1>3, GotoFacts
  <1>15. TypeOK'
    BY <1>3, <1>12, <1>13, <1>14 DEF TypeOK, rowVars, turnVars
  <1>16. RowInv'
    BY <1>3, RowsRest
  <1>17. JobsFrozen'
    BY <1>3, <1>5, <1>6, <1>13, <1>14 DEF JobsFrozen, rowVars
  <1>18. TurnsFrozen'
    BY <1>3 DEF TurnsFrozen, turnVars, rowVars
  <1>19. (RepliesStored /\ ProcessedHasTurn)'
    BY <1>3, <1>13, <1>14 DEF RepliesStored, ProcessedHasTurn, CommittedTurn, turnVars, rowVars
  <1>20. HandoffsKnown'
    <2> DEFINE Later(g) == \E i \in DOMAIN handoffs' : handoffs'[i] = g
    <2>1. /\ \A g : Opened(g) => Later(g)
          /\ \A m \in Leads : active'[m] = active[m] \/ (m = l /\ active'[m] = b /\ Later(b))
          /\ Later(h)
      BY <1>12 DEF Opened
    <2> HIDE DEF Later
    <2>2. ASSUME NEW m \in Leads, active'[m] # NoHandoff
          PROVE  Later(active'[m]) /\ \A o \in active'[m] : LeadOf[o] = m
      <3>1. CASE active'[m] = active[m]
        BY <2>1, <2>2, <3>1 DEF HandoffsKnown
      <3>2. CASE m = l /\ active'[m] = b /\ Later(b)
        BY <1>7, <3>2
      <3> QED BY <2>1, <3>1, <3>2
    <2>3. \A o \in h : LeadOf[o] = l
      BY <1>7, <1>9 DEF HandoffsKnown
    <2>4. ASSUME NEW v \in Workers, pc'[v] = "link"
          PROVE  /\ Later(job'[v].handoff)
                 /\ \A o \in job'[v].handoff, e \in job'[v].batch : LeadOf[o] = LeadOf[e]
      <3>1. CASE v = w
        BY <1>7, <1>13, <2>1, <2>3, <3>1
      <3>2. CASE v # w
        <4>1. job'[v] = job[v] /\ pc[v] = "link"
          BY <1>13, <1>14, <2>4, <3>2
        <4>2. /\ Opened(job[v].handoff)
              /\ \A o \in job[v].handoff, e \in job[v].batch : LeadOf[o] = LeadOf[e]
          BY <4>1 DEF HandoffsKnown
        <4> QED BY <2>1, <4>1, <4>2
      <3> QED BY <3>1, <3>2
    <2> QED BY <2>2, <2>4 DEF HandoffsKnown, Opened, Later
  <1>21. HandoffOpenedOnce'
    BY <1>3, <1>12 DEF HandoffOpenedOnce, rowVars
  <1>22. OwnerAlone'
    BY <1>3, <1>13, <1>14 DEF OwnerAlone, HoldsClaim, rowVars, Executing
  <1> QED BY <1>15, <1>16, <1>17, <1>18, <1>19, <1>20, <1>21, <1>22
-----------------------------------------------------------------------------
(* Every step, and every stuttering step, preserves the invariant. *)
LEMMA InboxStep == ASSUME InboxInv, [Next]_vars PROVE InboxInv'
PROOF
  <1>1. CASE Tick \/ (\E l \in Leads : CloseHandoff(l)) \/ UNCHANGED vars
    BY <1>1, WorldSteps
  <1>2. ASSUME NEW e \in Events, NEW at \in Stamps, Accept(e, at) PROVE InboxInv'
    BY <1>2, AcceptStep
  <1>3. ASSUME NEW w \in Workers, WorkerStep(w) PROVE InboxInv'
    <2>1. CASE ClaimReady(w)
      BY <2>1, ClaimStep
    <2>2. CASE LoadReceipt(w)
      BY <2>2, ReceiptStep
    <2>3. CASE AcquireFence(w) \/ Revalidate(w) \/ CommitConflict(w)
      BY <2>3, AuthorSteps
    <2>4. CASE CommitTurn(w)
      BY <2>4, CommitStep
    <2>5. CASE AfterConflict(w)
      BY <2>5, ConflictStep
    <2>6. CASE RecordDialogue(w)
      BY <2>6, DialogueStep
    <2>7. CASE CompleteClaim(w)
      BY <2>7, CompleteStep
    <2>8. CASE Fail(w) \/ RejectAction(w)
      BY <2>8, ReleaseSteps
    <2>9. CASE \E b \in {batch[e] : e \in Events} : OpenException(w, b)
      BY <2>9, ExceptionStep
    <2>10. CASE RecordHandoff(w)
      BY <2>10, LinkStep
    <2> QED BY <1>3, <2>1, <2>2, <2>3, <2>4, <2>5, <2>6, <2>7, <2>8, <2>9, <2>10 DEF WorkerStep
  <1>4. ASSUME NEW w \in Workers, Start(w) \/ AckFails(w) \/ Interrupt(w) \/ Crash(w)
        PROVE  InboxInv'
    BY <1>4, StartStep, ReleaseSteps, CrashStep
  <1> QED BY <1>1, <1>2, <1>3, <1>4 DEF Next

(* The inductive invariant holds in every state of the inbound path. *)
THEOREM InboxInductive == Spec => []InboxInv
PROOF
  BY InboxInit, InboxStep, PTL DEF Spec

(* claim_ready never finds "persisted inbox batch membership diverged". *)
THEOREM BatchesStayTogether == Spec => []BatchMovesTogether
PROOF
  <1>1. InboxInv => BatchMovesTogether
    BY DEF InboxInv, RowInv
  <1> QED BY <1>1, InboxInductive, PTL

(* The eligibility query of claim_ready lets nothing overtake a lead's
   unfinished batch. *)
THEOREM OneBatchAtATime == Spec => []OneUnfinishedBatch
PROOF
  <1>1. InboxInv => OneUnfinishedBatch
    BY DEF InboxInv, RowInv
  <1> QED BY <1>1, InboxInductive, PTL

(* Two turns of a lead have no event in common, with any number of processes
   executing batches whose claims expired under them. *)
THEOREM EventsTurnedOnce == Spec => []EventTurnedOnce
PROOF
  <1>1. ASSUME InboxInv PROVE EventTurnedOnce
    <2> SUFFICES ASSUME NEW l \in Leads, NEW i \in DOMAIN turns[l], NEW j \in DOMAIN turns[l], i # j
                 PROVE  turns[l][i] \cap turns[l][j] = {}
      BY DEF EventTurnedOnce
    <2>1. i \in 1..Len(turns[l]) /\ j \in 1..Len(turns[l])
      BY <1>1 DEF InboxInv, TypeOK
    <2>2. turns[l][i] # turns[l][j]
      BY <1>1, <2>1 DEF InboxInv, TurnsFrozen
    <2>3. \A e \in turns[l][i] \cap turns[l][j] : batch[e] = turns[l][i] /\ batch[e] = turns[l][j]
      BY <1>1, <2>1 DEF InboxInv, TurnsFrozen
    <2> QED BY <2>2, <2>3
  <1> QED BY <1>1, InboxInductive, PTL

(* complete_claim acknowledges only what has its turn and its dialogue. *)
THEOREM AcknowledgedHasTurn == Spec => []ProcessedHasTurn
PROOF
  <1>1. InboxInv => ProcessedHasTurn
    BY DEF InboxInv
  <1> QED BY <1>1, InboxInductive, PTL

(* open_exception_once opens the exception of a batch once. *)
THEOREM ExceptionsOpenedOnce == Spec => []HandoffOpenedOnce
PROOF
  <1>1. InboxInv => HandoffOpenedOnce
    BY DEF InboxInv
  <1> QED BY <1>1, InboxInductive, PTL

(* Only a commit changes the turns of a lead. *)
LEMMA TurnsOnlyByCommit ==
  ASSUME [Next]_vars, turns' # turns
  PROVE  \E w \in Workers : CommitTurn(w)
PROOF
  <1>1. ~(Tick \/ (\E l \in Leads : CloseHandoff(l)) \/ UNCHANGED vars)
    BY DEF Tick, CloseHandoff, vars, turnVars
  <1>2. ~(\E e \in Events, at \in Stamps : Accept(e, at))
    BY DEF Accept, turnVars
  <1>3. \A w \in Workers : ~(Start(w) \/ AckFails(w) \/ Interrupt(w) \/ Crash(w) \/ Fail(w)
                             \/ RejectAction(w) \/ CompleteClaim(w) \/ ClaimReady(w))
    BY DEF Start, AckFails, Interrupt, Crash, Fail, RejectAction, CompleteClaim, ClaimReady, turnVars
  <1>4. \A w \in Workers : ~(LoadReceipt(w) \/ AcquireFence(w) \/ Revalidate(w) \/ CommitConflict(w)
                             \/ AfterConflict(w) \/ RecordDialogue(w) \/ RecordHandoff(w))
    BY DEF LoadReceipt, AcquireFence, Revalidate, CommitConflict, AfterConflict, RecordDialogue,
           RecordHandoff, turnVars
  <1>5. \A w \in Workers : ~(\E b \in {batch[e] : e \in Events} : OpenException(w, b))
    BY DEF OpenException, turnVars
  <1> QED BY <1>1, <1>2, <1>3, <1>4, <1>5 DEF Next, WorkerStep

(* With SQLiteWorkerOwnershipLease no process commits the turn of a batch that
   is not claimed: a human or another process never has it meanwhile. *)
THEOREM OwnerAnswersClaimed ==
  ASSUME Exclusive PROVE Spec => TurnOnlyWhileClaimed
PROOF
  <1>1. ASSUME InboxInv, [Next]_vars, NEW l \in Leads, turns'[l] # turns[l]
        PROVE  \A e \in turns'[l][Len(turns'[l])] : status[e] = "claimed"
    <2> USE <1>1 DEF InboxInv
    <2>1. PICK w \in Workers : CommitTurn(w)
      <3>1. turns' # turns
        OBVIOUS
      <3> QED BY <3>1, TurnsOnlyByCommit
    <2>2. pc[w] = "commit" /\ turns' = [turns EXCEPT ![Lead(w)] = Append(@, job[w].batch)]
      BY <2>1 DEF CommitTurn
    <2>3. job[w].batch \in Batches /\ turns[l] \in Seq(Batches)
      BY DEF TypeOK, Job
    <2>4. turns'[l] = Append(turns[l], job[w].batch)
      BY <2>2 DEF TypeOK
    <2>5. turns'[l][Len(turns'[l])] = job[w].batch
      BY <2>3, <2>4
    <2>6. HoldsClaim(w)
      BY <2>2 DEF OwnerAlone, Executing
    <2> QED BY <2>5, <2>6 DEF HoldsClaim
  <1>2. InboxInv /\ [Next]_vars =>
          [\A l \in Leads : turns'[l] # turns[l] =>
             \A e \in turns'[l][Len(turns'[l])] : status[e] = "claimed"]_vars
    BY <1>1
  <1> QED BY <1>2, InboxInductive, PTL DEF Spec, TurnOnlyWhileClaimed
=============================================================================
