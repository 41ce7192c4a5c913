------------------------- MODULE BoundaryRelayProofs -------------------------
(* The relay hands every turn over whole and once, for any number of turns,  *)
(* rows and concurrent runs.                                                 *)
EXTENDS BoundaryRelay, TLAPS

(* What the argument needs of the types: a run that has claimed works on a
   row, and the columns it writes are functions over the rows. *)
RelayShape ==
  /\ status \in [Rows -> {"absent", "pending", "leased"} \cup Ended]
  /\ receipt \in [Rows -> BOOLEAN]
  /\ inserted \in [Rows -> Nat]
  /\ pc \in [Runs -> {"idle", "commands", "handoffs", "claimed", "accepted", "failing"}]
  /\ row \in [Runs -> Rows \cup {0}]
  /\ \A r \in Runs : pc[r] \in {"claimed", "accepted", "failing"} => row[r] \in Rows

(* A receipt is written with the insertion it stands for, never apart. *)
ReceiptIsInsertion == \A i \in Rows : inserted[i] = IF receipt[i] THEN 1 ELSE 0

(* The target has all commands of a turn or none. *)
GroupsWhole == \A i, m \in Commands : Turn[i] = Turn[m] => receipt[i] = receipt[m]

(* A run acknowledges only what has arrived, and so does a row. *)
AckAfterArrival ==
  /\ \A r \in Runs : pc[r] = "accepted" => receipt[row[r]]
  /\ \A i \in Rows : status[i] = "acked" => receipt[i]

RelayInv == RelayShape /\ ReceiptIsInsertion /\ GroupsWhole /\ AckAfterArrival
-----------------------------------------------------------------------------
(* Nothing has been relayed at first. *)
LEMMA RelayInit == Init => RelayInv
PROOF
  BY DEF Init, RelayInv, RelayShape, ReceiptIsInsertion, GroupsWhole, AckAfterArrival,
         Rows, Ended

(* Steps that leave the targets alone, acknowledge nothing and put no run
   behind the acceptance keep the invariant, if they keep the shape. *)
LEMMA SourceOnly ==
  ASSUME RelayInv, RelayShape', UNCHANGED targetVars,
         \A i \in Rows : status'[i] = "acked" => status[i] = "acked",
         \A r \in Runs : pc'[r] = "accepted" => pc[r] = "accepted" /\ row'[r] = row[r]
  PROVE  RelayInv'
PROOF
  <1>1. receipt' = receipt /\ inserted' = inserted
    BY DEF targetVars
  <1>2. ReceiptIsInsertion' /\ GroupsWhole'
    BY <1>1 DEF RelayInv, ReceiptIsInsertion, GroupsWhole, Rows
  <1>3. AckAfterArrival'
    BY <1>1 DEF RelayInv, AckAfterArrival, Rows
  <1> QED BY <1>2, <1>3 DEF RelayInv

(* A claim moves rows between pending and leased and gives the run a row. *)
LEMMA TakeKeeps ==
  ASSUME RelayInv, NEW r \in Runs, NEW table, table \subseteq Rows, Take(r, table)
  PROVE  RelayInv'
PROOF
  <1> DEFINE avail == Available(table, now[r])
  <1>1. avail \subseteq Rows
    BY DEF Available, Lapsed
  <1>2. PICK i \in avail :
          /\ status' = [m \in Rows |-> IF m = i THEN "leased"
                                       ELSE IF m \in avail THEN "pending" ELSE status[m]]
          /\ row' = [row EXCEPT ![r] = i]
          /\ pc' = [pc EXCEPT ![r] = "claimed"]
          /\ UNCHANGED targetVars
    BY DEF Take
  <1> HIDE DEF avail
  <1>3. RelayShape'
    BY <1>1, <1>2 DEF RelayInv, RelayShape, targetVars
  <1>4. \A m \in Rows : status'[m] = "acked" => status[m] = "acked"
    BY <1>2
  <1>5. \A s \in Runs : pc'[s] = "accepted" => pc[s] = "accepted" /\ row'[s] = row[s]
    BY <1>2 DEF RelayInv, RelayShape
  <1> QED BY <1>2, <1>3, <1>4, <1>5, SourceOnly

(* The target inserts what it has no receipt for, and a command brings its
   whole turn with it. *)
LEMMA AcceptKeeps ==
  ASSUME RelayInv, NEW r \in Runs, Accept(r)
  PROVE  RelayInv'
PROOF
  <1> DEFINE group == Group(row[r])
             fresh == Fresh(group)
  <1>1. /\ pc[r] = "claimed"
        /\ receipt' = [m \in Rows |-> receipt[m] \/ m \in fresh]
        /\ inserted' = [m \in Rows |-> IF m \in fresh THEN inserted[m] + 1 ELSE inserted[m]]
        /\ pc' = [pc EXCEPT ![r] = "accepted"]
        /\ UNCHANGED <<row, status>>
    BY DEF Accept, Goto, rowVars
  <1>2. row[r] \in Rows /\ RelayShape
    BY <1>1 DEF RelayInv, RelayShape
  <1>3. fresh = {m \in group : ~receipt[m]}
    BY DEF Fresh
  <1>4. row[r] \in group
    BY <1>2 DEF Group
  <1>5. \A i, m \in Commands : Turn[i] = Turn[m] => (i \in group <=> m \in group)
    BY <1>2, RelayTables DEF Group, Rows
  <1> HIDE DEF group, fresh
  <1>6. RelayShape'
    BY <1>1, <1>2 DEF RelayShape
  <1>7. ReceiptIsInsertion'
    <2> SUFFICES ASSUME NEW m \in Rows
                 PROVE  inserted'[m] = IF receipt'[m] THEN 1 ELSE 0
      BY DEF ReceiptIsInsertion
    <2>1. inserted[m] = IF receipt[m] THEN 1 ELSE 0
      BY DEF RelayInv, ReceiptIsInsertion
    <2>2. CASE m \in fresh
      <3>1. ~receipt[m] /\ receipt'[m]
        BY <1>1, <1>3, <2>2
      <3>2. inserted'[m] = inserted[m] + 1
        BY <1>1, <2>2
      <3> QED BY <2>1, <3>1, <3>2
    <2>3. CASE m \notin fresh
      <3>1. receipt'[m] <=> receipt[m]
        BY <1>1, <2>3
      <3>2. inserted'[m] = inserted[m]
        BY <1>1, <2>3
      <3> QED BY <2>1, <3>1, <3>2
    <2> QED BY <2>2, <2>3
  <1>8. GroupsWhole'
    BY <1>1, <1>2, <1>3, <1>5 DEF RelayInv, RelayShape, GroupsWhole, Rows
  <1>9. AckAfterArrival'
    <2>1. \A m \in Rows : receipt[m] => receipt'[m]
      BY <1>1
    <2>2. receipt'[row[r]]
      BY <1>1, <1>2, <1>3, <1>4 DEF RelayShape
    <2>3. \A s \in Runs : pc'[s] = "accepted" => receipt'[row'[s]]
      BY <1>1, <1>2, <2>1, <2>2 DEF RelayInv, RelayShape, AckAfterArrival
    <2> QED BY <1>1, <2>1, <2>3 DEF RelayInv, AckAfterArrival
  <1> QED BY <1>6, <1>7, <1>8, <1>9 DEF RelayInv

(* A row is acknowledged by a run that saw the receipt. *)
LEMMA CompleteKeeps ==
  ASSUME RelayInv, NEW r \in Runs, Complete(r)
  PROVE  RelayInv'
PROOF
  <1>1. /\ pc[r] = "accepted"
        /\ status' = [status EXCEPT ![row[r]] = "acked"]
        /\ pc' = [pc EXCEPT ![r] = "idle"]
        /\ row' = [row EXCEPT ![r] = 0]
        /\ receipt' = receipt /\ inserted' = inserted
    BY DEF Complete, EndRun, targetVars
  <1>2. row[r] \in Rows /\ receipt[row[r]]
    BY <1>1 DEF RelayInv, RelayShape, AckAfterArrival
  <1>3. RelayShape'
    BY <1>1, <1>2 DEF RelayInv, RelayShape, Ended
  <1>4. ReceiptIsInsertion' /\ GroupsWhole'
    BY <1>1 DEF RelayInv, ReceiptIsInsertion, GroupsWhole, Rows
  <1>5. AckAfterArrival'
    BY <1>1, <1>2, <1>3 DEF RelayInv, RelayShape, AckAfterArrival
  <1> QED BY <1>3, <1>4, <1>5 DEF RelayInv

(* A release sends a row back or to review. *)
LEMMA ReleaseKeeps ==
  ASSUME RelayInv, NEW r \in Runs, Release(r)
  PROVE  RelayInv'
PROOF
  <1>1. /\ pc[r] = "failing"
        /\ \E s \in {"pending", "manual_review"} : status' = [status EXCEPT ![row[r]] = s]
        /\ pc' = [pc EXCEPT ![r] = "idle"]
        /\ row' = [row EXCEPT ![r] = 0]
        /\ UNCHANGED targetVars
    BY DEF Release, AfterRelease, EndRun
  <1>2. RelayShape'
    BY <1>1 DEF RelayInv, RelayShape, Ended, targetVars
  <1>3. \A m \in Rows : status'[m] = "acked" => status[m] = "acked"
    BY <1>1 DEF RelayInv, RelayShape
  <1>4. \A s \in Runs : pc'[s] = "accepted" => pc[s] = "accepted" /\ row'[s] = row[s]
    BY <1>1 DEF RelayInv, RelayShape
  <1> QED BY <1>1, <1>2, <1>3, <1>4, SourceOnly

(* A new turn finds none of its rows in the table. *)
LEMMA CommitKeeps ==
  ASSUME RelayInv, NEW t, CommitTurn(t)
  PROVE  RelayInv'
PROOF
  <1>1. /\ status' = [i \in Rows |-> IF Turn[i] = t THEN "pending" ELSE status[i]]
        /\ UNCHANGED <<pc, row>> /\ UNCHANGED targetVars
    BY DEF CommitTurn, runVars
  <1>2. RelayShape'
    BY <1>1 DEF RelayInv, RelayShape, targetVars
  <1>3. \A m \in Rows : status'[m] = "acked" => status[m] = "acked"
    BY <1>1
  <1> QED BY <1>1, <1>2, <1>3, SourceOnly

(* Steps of a run that write no row: it moves on or ends. *)
LEMMA RunMovesKeeps ==
  ASSUME RelayInv, NEW r \in Runs, UNCHANGED <<status, targetVars>>,
         \/ /\ pc[r] = "idle" /\ pc' = [pc EXCEPT ![r] = "commands"] /\ row' = row
         \/ /\ pc[r] = "commands" /\ pc' = [pc EXCEPT ![r] = "handoffs"] /\ row' = row
         \/ /\ pc[r] \in {"claimed", "accepted"}
            /\ pc' = [pc EXCEPT ![r] = "failing"] /\ row' = row
         \/ pc' = [pc EXCEPT ![r] = "idle"] /\ row' = [row EXCEPT ![r] = 0]
  PROVE  RelayInv'
PROOF
  <1>1. RelayShape'
    BY DEF RelayInv, RelayShape, targetVars
  <1>2. \A s \in Runs : pc'[s] = "accepted" => pc[s] = "accepted" /\ row'[s] = row[s]
    BY DEF RelayInv, RelayShape
  <1> QED BY <1>1, <1>2, SourceOnly

(* Every step keeps the invariant. *)
LEMMA RelayStep == RelayInv /\ [Next]_vars => RelayInv'
PROOF
  <1> SUFFICES ASSUME RelayInv, [Next]_vars PROVE RelayInv'
    OBVIOUS
  <1>1. CASE UNCHANGED vars
    <2>1. RelayShape' /\ UNCHANGED targetVars /\ UNCHANGED <<status, pc, row>>
      BY <1>1 DEF vars, rowVars, runVars, targetVars, RelayInv, RelayShape
    <2> QED BY <2>1, SourceOnly
  <1>2. CASE Tick
    <2>1. RelayShape' /\ UNCHANGED targetVars /\ UNCHANGED <<status, pc, row>>
      BY <1>2 DEF Tick, rowVars, runVars, targetVars, RelayInv, RelayShape
    <2> QED BY <2>1, SourceOnly
  <1>3. CASE \E t \in {Turn[i] : i \in Rows} : CommitTurn(t)
    BY <1>3, CommitKeeps
  <1>4. ASSUME NEW r \in Runs, RunStep(r) PROVE RelayInv'
    <2>1. CASE ClaimCommandRelay(r)
      BY <2>1, TakeKeeps DEF ClaimCommandRelay, Rows
    <2>2. CASE ClaimInternalJob(r)
      BY <2>2, TakeKeeps DEF ClaimInternalJob, Rows
    <2>3. CASE Accept(r)
      BY <2>3, AcceptKeeps
    <2>4. CASE Complete(r)
      BY <2>4, CompleteKeeps
    <2>5. CASE Release(r)
      BY <2>5, ReleaseKeeps
    <2>6. CASE BeginRun(r)
      BY <2>6, RunMovesKeeps DEF BeginRun, rowVars
    <2>7. CASE NoCommandRelay(r)
      BY <2>7, RunMovesKeeps DEF NoCommandRelay, Goto, rowVars
    <2>8. CASE Fail(r) \/ CompletionLost(r)
      BY <2>8, RunMovesKeeps DEF Fail, CompletionLost, Goto, rowVars
    <2>9. CASE NoInternalJob(r) \/ ReleaseLost(r)
      BY <2>9, RunMovesKeeps DEF NoInternalJob, ReleaseLost, EndRun, rowVars
    <2> QED BY <1>4, <2>1, <2>2, <2>3, <2>4, <2>5, <2>6, <2>7, <2>8, <2>9 DEF RunStep
  <1>5. ASSUME NEW r \in Runs, Crash(r) PROVE RelayInv'
    BY <1>5, RunMovesKeeps DEF Crash, EndRun, rowVars
  <1> QED BY <1>1, <1>2, <1>3, <1>4, <1>5 DEF Next

(* The invariant of the relay holds in every reachable state. *)
THEOREM RelayInductive == Spec => []RelayInv
PROOF
  BY RelayInit, RelayStep, PTL DEF Spec

(* Every turn arrives at the execution store whole and once, and whatever is
   acknowledged has arrived, however many runs repeat, overtake or lose the
   hand-over. *)
THEOREM TurnsArriveWhole == Spec => []TurnArrivesWhole
PROOF
  <1>1. RelayInv => TurnArrivesWhole
    BY DEF RelayInv, RelayShape, ReceiptIsInsertion, GroupsWhole, AckAfterArrival,
           TurnArrivesWhole, Rows
  <1> QED BY <1>1, RelayInductive, PTL
-----------------------------------------------------------------------------
(* A run works with a time that has come, and columns have their domains. *)
RelayTime ==
  /\ clock \in Nat
  /\ now \in [Runs -> Nat]
  /\ \A r \in Runs : now[r] <= clock
  /\ token \in [Rows -> Nat]
  /\ expires \in [Rows -> Nat]

(* No run is ahead of the clock. *)
LEMMA RelayTimeInductive == Spec => []RelayTime
PROOF
  <1>1. Init => RelayTime
    BY RelayBounds DEF Init, RelayTime, Never
  <1>2. RelayTime /\ [Next]_vars => RelayTime'
    <2> SUFFICES ASSUME RelayTime, [Next]_vars PROVE RelayTime'
      OBVIOUS
    <2> USE DEF RelayTime
    <2>1. CASE UNCHANGED vars
      BY <2>1 DEF vars, rowVars, runVars
    <2>2. CASE Tick
      BY <2>2 DEF Tick, rowVars, runVars
    <2>3. CASE \E t \in {Turn[i] : i \in Rows} : CommitTurn(t)
      BY <2>3 DEF CommitTurn, runVars
    <2>4. ASSUME NEW r \in Runs, NEW table, table \subseteq Rows, Take(r, table)
          PROVE  RelayTime'
      <3>1. PICK i \in Available(table, now[r]) :
              /\ expires' = [m \in Rows |-> IF m = i THEN now[r] + LeaseTTL
                               ELSE IF m \in Available(table, now[r]) THEN Never
                               ELSE expires[m]]
              /\ token' = [token EXCEPT ![i] = @ + 1]
              /\ UNCHANGED <<clock, now>>
        BY <2>4 DEF Take
      <3>2. now[r] + LeaseTTL \in Nat /\ Never \in Nat
        BY RelayBounds DEF Never
      <3>3. expires' \in [Rows -> Nat]
        BY <3>1, <3>2
      <3>4. token' \in [Rows -> Nat]
        <4>1. i \in Rows
          BY <2>4, <3>1 DEF Available, Lapsed
        <4> QED BY <3>1, <4>1
      <3> QED BY <3>1, <3>3, <3>4
    <2>5. ASSUME NEW r \in Runs, RunStep(r) \/ Crash(r) PROVE RelayTime'
      <3>1. CASE ClaimCommandRelay(r) \/ ClaimInternalJob(r)
        BY <3>1, <2>4 DEF ClaimCommandRelay, ClaimInternalJob, Rows
      <3>2. CASE BeginRun(r)
        BY <3>2 DEF BeginRun, rowVars
      <3>3. CASE NoCommandRelay(r) \/ Accept(r) \/ Fail(r) \/ CompletionLost(r)
        BY <3>3 DEF NoCommandRelay, Accept, Fail, CompletionLost, Goto, rowVars
      <3>4. CASE NoInternalJob(r) \/ ReleaseLost(r) \/ Crash(r)
        BY <3>4 DEF NoInternalJob, ReleaseLost, Crash, EndRun, rowVars
      <3>5. CASE Complete(r) \/ Release(r)
        BY <3>5, RelayBounds DEF Complete, Release, EndRun, Never
      <3> QED BY <2>5, <3>1, <3>2, <3>3, <3>4, <3>5 DEF RunStep
    <2> QED BY <2>1, <2>2, <2>3, <2>5 DEF Next
  <1> QED BY <1>1, <1>2, PTL DEF Spec

(* What OnlyHolderChanges says of one step. *)
HolderStep ==
  \A i \in Rows :
    /\ status[i] \in Ended => status'[i] = status[i] /\ token'[i] = token[i]
    /\ status[i] = "leased" /\ status'[i] # "leased" =>
         \/ \E r \in Runs : row[r] = i /\ held[r] = token[i] /\ pc'[r] = "idle"
         \/ expires[i] <= clock

(* A claim changes no ended row and takes only a lapsed lease away. *)
LEMMA TakeRespectsHolder ==
  ASSUME RelayInv, RelayTime, NEW r \in Runs, NEW table, table \subseteq Rows, Take(r, table)
  PROVE  HolderStep
PROOF
  <1> DEFINE avail == Available(table, now[r])
  <1>1. \A m \in avail : /\ m \in Rows
                         /\ \/ status[m] = "pending"
                            \/ status[m] = "leased" /\ expires[m] <= now[r]
    BY DEF Available, Lapsed
  <1>2. PICK i \in avail :
          /\ status' = [m \in Rows |-> IF m = i THEN "leased"
                                       ELSE IF m \in avail THEN "pending" ELSE status[m]]
          /\ token' = [token EXCEPT ![i] = @ + 1]
    BY DEF Take
  <1> HIDE DEF avail
  <1> SUFFICES ASSUME NEW m \in Rows
               PROVE  /\ status[m] \in Ended => status'[m] = status[m] /\ token'[m] = token[m]
                      /\ status[m] = "leased" /\ status'[m] # "leased" => expires[m] <= clock
    BY DEF HolderStep
  <1>3. CASE m \in avail
    BY <1>1, <1>2, <1>3 DEF RelayTime, Ended
  <1>4. CASE m \notin avail
    BY <1>2, <1>4 DEF RelayTime
  <1> QED BY <1>3, <1>4

(* The rows of a run that writes back are its own. *)
LEMMA WriteBackRespectsHolder ==
  ASSUME RelayInv, NEW r \in Runs, Complete(r) \/ Release(r)
  PROVE  HolderStep
PROOF
  <1>1. /\ pc[r] \in {"accepted", "failing"}
        /\ status[row[r]] = "leased" /\ token[row[r]] = held[r]
        /\ \E s : status' = [status EXCEPT ![row[r]] = s]
        /\ token' = token
        /\ pc' = [pc EXCEPT ![r] = "idle"]
    BY DEF Complete, Release, Holds, EndRun
  <1>2. pc'[r] = "idle" /\ row[r] \in Rows
    BY <1>1 DEF RelayInv, RelayShape
  <1> QED BY <1>1, <1>2 DEF HolderStep, RelayInv, RelayShape, Ended

(* A row that a run has lost is changed by the new holder only, and an
   acknowledged or reviewed row is never changed again. *)
THEOREM HoldersOnly == Spec => OnlyHolderChanges
PROOF
  <1>1. RelayInv /\ RelayTime /\ [Next]_vars => [HolderStep]_vars
    <2> SUFFICES ASSUME RelayInv, RelayTime, Next PROVE HolderStep
      OBVIOUS
    <2>1. CASE UNCHANGED <<status, token>>
      BY <2>1 DEF HolderStep
    <2>2. CASE Tick
      BY <2>2, <2>1 DEF Tick, rowVars
    <2>3. CASE \E t \in {Turn[i] : i \in Rows} : CommitTurn(t)
      BY <2>3 DEF CommitTurn, HolderStep, Ended
    <2>4. ASSUME NEW r \in Runs, RunStep(r) \/ Crash(r) PROVE HolderStep
      <3>1. CASE ClaimCommandRelay(r)
        BY <3>1, TakeRespectsHolder DEF ClaimCommandRelay, Rows
      <3>2. CASE ClaimInternalJob(r)
        BY <3>2, TakeRespectsHolder DEF ClaimInternalJob, Rows
      <3>3. CASE Complete(r) \/ Release(r)
        BY <3>3, WriteBackRespectsHolder
      <3>4. CASE BeginRun(r) \/ NoCommandRelay(r) \/ NoInternalJob(r) \/ Accept(r) \/ Fail(r)
                 \/ CompletionLost(r) \/ ReleaseLost(r) \/ Crash(r)
        BY <3>4, <2>1 DEF BeginRun, NoCommandRelay, NoInternalJob, Accept, Fail,
             CompletionLost, ReleaseLost, Crash, rowVars
      <3> QED BY <2>4, <3>1, <3>2, <3>3, <3>4 DEF RunStep
    <2> QED BY <2>2, <2>3, <2>4 DEF Next
  <1>2. [HolderStep]_vars <=>
        [\A i \in Rows :
           /\ status[i] \in Ended => status'[i] = status[i] /\ token'[i] = token[i]
           /\ status[i] = "leased" /\ status'[i] # "leased" =>
                \/ \E r \in Runs : row[r] = i /\ held[r] = token[i] /\ pc'[r] = "idle"
                \/ expires[i] <= clock]_vars
    BY DEF HolderStep
  <1> QED BY <1>1, <1>2, RelayInductive, RelayTimeInductive, PTL DEF Spec, OnlyHolderChanges
=============================================================================
