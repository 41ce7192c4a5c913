------------------------ MODULE PublicDeliveryProofs ------------------------
(* The lead hears every piece of news once and in order, for any number of    *)
(* turns, chunks, events and worker runs.                                     *)
EXTENDS PublicDelivery, FiniteSetTheorems, TLAPS

Committed == {u \in Turns : version[u] # 0}
Dead(t)   == \A x \in RowsOf(t) : status[x] = "cancelled"
Started   == {"leased", "dispatch_fenced", "delivered", "manual_review"}
Past(r)   == pc[r] \in {"fenced", "accepted", "not_called"}

(* state_version counts the commits; a turn and its rows appear together, and
   only a turn that is not committed is being prepared. *)
CommitsNumbered ==
  /\ \A t \in Turns : version[t] <= Cardinality(Committed)
  /\ \A x \in Rows : version[x[1]] = 0 <=> status[x] = "absent"
  /\ plan.turn # None => version[plan.turn] = 0

(* News is told by the turn that covers it, and of two turns that tell it one
   is cancelled to the last chunk. *)
NewsCovered ==
  /\ \A t \in Turns : version[t] = 0 => tells[t] = {}
  /\ \A t \in Turns, e \in Events : e \in tells[t] => coverage[e] # None
  /\ \A e \in Events : coverage[e] # None => e \in tells[coverage[e]]
  /\ \A t, u \in Turns, e \in Events :
       t # u /\ e \in tells[t] /\ e \in tells[u] => Dead(t) \/ Dead(u)

(* Whoever tells what the prepared turn will tell is cancelled already, or
   will be by its commit. *)
PlanCurrent ==
  \A e \in plan.events, u \in Turns : e \in tells[u] => Dead(u) \/ u \in plan.absorbs

(* A worker beyond the fence has the row to itself until people have it. *)
RunsFenced ==
  /\ \A r \in Runs : pc[r] \notin {"idle", "begun"} => row[r] \in Rows
  /\ \A r \in Runs : Past(r) =>
       \/ status[row[r]] = "manual_review"
       \/ status[row[r]] = "dispatch_fenced" /\ holder[row[r]] = r
  /\ \A r, q \in Runs : Past(r) /\ Past(q) /\ row[r] = row[q] => r = q

(* What was sent can be told from the row and from the run. *)
SendsCounted ==
  /\ \A x \in Rows : /\ sends[x] <= 1
                     /\ status[x] = "delivered" => sends[x] = 1
                     /\ status[x] \in {"absent", "pending", "leased", "cancelled"} => sends[x] = 0
  /\ \A r \in Runs : /\ pc[r] \in {"fenced", "not_called"} => sends[row[r]] = 0
                     /\ pc[r] = "accepted" => sends[row[r]] = 1

(* Nothing that comes before a claimed row is waiting, and the chunks before
   it have been delivered. *)
InOrder ==
  \A x, y \in Rows : status[y] \in Started /\ Before(x, y) =>
    /\ status[x] \notin Active
    /\ x[1] = y[1] => status[x] = "delivered"

PublicInv ==
  /\ TypeOK
  /\ CommitsNumbered /\ NewsCovered /\ PlanCurrent
  /\ RunsFenced /\ SendsCounted /\ InOrder
-----------------------------------------------------------------------------
(* Rows are the chunks of turns, numbered from 0 without gaps. *)
LEMMA RowFacts ==
  /\ \A x \in Rows : x[1] \in Turns /\ x[2] \in Nat
  /\ \A x \in Rows, k \in Nat : k <= x[2] => <<x[1], k>> \in Rows
  /\ \A x, y \in Rows : x[1] = y[1] /\ x[2] = y[2] => x = y
  /\ \A t \in Turns : \E x \in Rows : x[1] = t
PROOF
  <1>1. ASSUME NEW x \in Rows
        PROVE  /\ x[1] \in Turns /\ x[2] \in 0..Chunks[x[1]] - 1 /\ x = <<x[1], x[2]>>
               /\ Chunks[x[1]] \in Nat
    <2>1. PICK t \in Turns : x \in {t} \X (0..Chunks[t] - 1)
      BY DEF Rows
    <2> QED BY <2>1, PublicReplies
  <1>2. ASSUME NEW t \in Turns, NEW k \in 0..Chunks[t] - 1 PROVE <<t, k>> \in Rows
    BY DEF Rows
  <1>3. ASSUME NEW x \in Rows, NEW k \in Nat, k <= x[2] PROVE <<x[1], k>> \in Rows
    <2>1. k \in 0..Chunks[x[1]] - 1
      BY <1>1, <1>3
    <2> QED BY <1>1, <1>2, <2>1
  <1>4. ASSUME NEW t \in Turns PROVE \E x \in Rows : x[1] = t
    <2>1. 0 \in 0..Chunks[t] - 1
      BY PublicReplies
    <2>2. <<t, 0>> \in Rows
      BY <1>2, <2>1
    <2> QED BY <2>2
  <1>5. ASSUME NEW x \in Rows, NEW y \in Rows, x[1] = y[1], x[2] = y[2] PROVE x = y
    BY <1>1, <1>5
  <1>6. \A x \in Rows : x[1] \in Turns /\ x[2] \in Nat
    BY <1>1
  <1> QED BY <1>3, <1>4, <1>5, <1>6

(* A cancelled turn was never unattempted: it has a row to tell them apart. *)
LEMMA DeadFacts ==
  \A t \in Turns : /\ Dead(t) => ~Unattempted(t)
                   /\ \A x \in Rows : Dead(t) /\ x[1] = t => status[x] = "cancelled"
                   /\ (\A x \in Rows : x[1] = t => status[x] = "cancelled") => Dead(t)
PROOF
  BY RowFacts DEF Dead, Unattempted, RowsOf

(* The times the worker writes have their type. *)
LEMMA TimeFacts == Never \in 0..Never /\ \A t \in 0..MaxTime : t + LeaseTTL \in 0..Never
PROOF
  BY PublicBounds DEF Never

(* Nothing is committed at first. *)
LEMMA PublicInit == Init => PublicInv
PROOF
  <1> SUFFICES ASSUME Init PROVE PublicInv
    OBVIOUS
  <1>1. TypeOK
    <2>1. Cardinality(Turns) \in Nat
      BY PublicTurns, FS_CardinalityType
    <2> QED BY <2>1, TimeFacts, PublicBounds DEF Init, TypeOK, NoPlan
  <1>2. CommitsNumbered
    <2>1. Committed = {}
      BY DEF Init, Committed
    <2> QED BY <2>1, FS_EmptySet, RowFacts DEF Init, CommitsNumbered, NoPlan
  <1>3. NewsCovered /\ PlanCurrent
    BY DEF Init, NewsCovered, PlanCurrent, NoPlan
  <1>4. RunsFenced /\ SendsCounted /\ InOrder
    BY DEF Init, RunsFenced, SendsCounted, InOrder, Past, Started
  <1> QED BY <1>1, <1>2, <1>3, <1>4 DEF PublicInv
-----------------------------------------------------------------------------
(* What the turns tell is not touched by rows that change, as long as rows
   neither appear nor vanish and a cancelled row stays cancelled. *)
LEMMA TurnsRest ==
  ASSUME PublicInv, UNCHANGED turnVars,
         \A x \in Rows : /\ status'[x] = "absent" <=> status[x] = "absent"
                         /\ status[x] = "cancelled" => status'[x] = "cancelled"
  PROVE  (CommitsNumbered /\ NewsCovered /\ PlanCurrent)'
PROOF
  <1> USE DEF PublicInv, turnVars
  <1>1. CommitsNumbered'
    BY DEF CommitsNumbered, Committed
  <1>2. \A t \in Turns : Dead(t) => Dead(t)'
    BY DEF Dead, RowsOf
  <1>3. NewsCovered'
    BY <1>2 DEF NewsCovered
  <1>4. PlanCurrent'
    BY <1>2 DEF PlanCurrent
  <1> QED BY <1>1, <1>3, <1>4

(* The order is not touched by rows that change without being claimed, made
   active again or taken back after their delivery. *)
LEMMA OrderRests ==
  ASSUME PublicInv, UNCHANGED version,
         \A x \in Rows : /\ status'[x] \in Started => status[x] \in Started
                         /\ status[x] \notin Active => status'[x] \notin Active
                         /\ status[x] = "delivered" => status'[x] = "delivered"
  PROVE  InOrder'
PROOF
  <1> SUFFICES ASSUME NEW x \in Rows, NEW y \in Rows, status'[y] \in Started, Before(x, y)'
               PROVE  /\ status'[x] \notin Active
                      /\ x[1] = y[1] => status'[x] = "delivered"
    BY DEF InOrder, Started
  <1>1. Before(x, y)
    BY DEF Before
  <1> QED BY <1>1 DEF PublicInv, InOrder

(* A run that moves back, or learns that the channel was not called, keeps
   the invariant as long as no row changes. *)
LEMMA RunMoves ==
  ASSUME PublicInv, NEW r \in Runs, UNCHANGED <<turnVars, rowVars, sends>>,
         clock' \in 0..MaxTime,
         pc' \in [Runs -> {"idle", "begun", "claimed", "fenced", "accepted", "not_called", "failing"}],
         now' \in [Runs -> 0..MaxTime], row' \in [Runs -> Rows \cup {NoRow}],
         \A q \in Runs \ {r} : pc'[q] = pc[q] /\ row'[q] = row[q],
         \/ pc'[r] \in {"idle", "begun"}
         \/ /\ pc[r] \notin {"idle", "begun"} /\ row'[r] = row[r]
            /\ pc'[r] = "failing" \/ (pc[r] = "fenced" /\ pc'[r] = "not_called")
  PROVE  PublicInv'
PROOF
  <1> USE DEF PublicInv, rowVars
  <1>1. TypeOK'
    BY DEF TypeOK, turnVars
  <1>2. (CommitsNumbered /\ NewsCovered /\ PlanCurrent)'
    BY TurnsRest
  <1>3. InOrder'
    BY OrderRests DEF turnVars
  <1>4. RunsFenced'
    BY DEF RunsFenced, Past
  <1>5. SendsCounted'
    BY DEF SendsCounted
  <1> QED BY <1>1, <1>2, <1>3, <1>4, <1>5

(* The end of a run, and a jump to another point of it, change that run. *)
LEMMA EndFacts ==
  ASSUME TypeOK, NEW r \in Runs, EndRun(r)
  PROVE  /\ pc' \in [Runs -> {"idle", "begun", "claimed", "fenced", "accepted", "not_called", "failing"}]
         /\ now' \in [Runs -> 0..MaxTime] /\ row' \in [Runs -> Rows \cup {NoRow}]
         /\ pc'[r] = "idle"
         /\ \A q \in Runs \ {r} : pc'[q] = pc[q] /\ row'[q] = row[q]
PROOF
  BY PublicBounds DEF TypeOK, EndRun

LEMMA GotoFacts ==
  ASSUME TypeOK, NEW r \in Runs,
         NEW s \in {"claimed", "fenced", "accepted", "not_called", "failing"}, Goto(r, s)
  PROVE  /\ pc' \in [Runs -> {"idle", "begun", "claimed", "fenced", "accepted", "not_called", "failing"}]
         /\ pc'[r] = s /\ UNCHANGED <<now, row>>
         /\ \A q \in Runs \ {r} : pc'[q] = pc[q]
PROOF
  BY DEF TypeOK, Goto

(* The steps of a run that write nothing keep the invariant. *)
LEMMA QuietSteps ==
  ASSUME PublicInv, NEW r \in Runs,
         BeginRun(r) \/ FenceFails(r) \/ SendFails(r) \/ CompleteFails(r) \/ Lost(r) \/ Crash(r)
  PROVE  PublicInv'
PROOF
  <1>0. TypeOK
    BY DEF PublicInv
  <1>1. CASE BeginRun(r)
    <2>1. /\ pc' \in [Runs -> {"idle", "begun", "claimed", "fenced", "accepted", "not_called", "failing"}]
          /\ now' \in [Runs -> 0..MaxTime] /\ pc'[r] = "begun"
          /\ \A q \in Runs \ {r} : pc'[q] = pc[q]
          /\ UNCHANGED <<clock, turnVars, rowVars, sends, row>>
      BY <1>0, <1>1 DEF BeginRun, TypeOK
    <2> QED BY <1>0, <2>1, RunMoves DEF TypeOK
  <1>2. CASE FenceFails(r) \/ CompleteFails(r)
    <2>1. /\ pc[r] \notin {"idle", "begun"} /\ Goto(r, "failing")
          /\ UNCHANGED <<clock, turnVars, rowVars, sends>>
      BY <1>2 DEF FenceFails, CompleteFails
    <2> QED BY <1>0, <2>1, RunMoves, GotoFacts DEF TypeOK
  <1>3. CASE SendFails(r)
    <2>1. PICK s \in {"not_called", "failing"} : Goto(r, s)
      BY <1>3 DEF SendFails
    <2> QED BY <1>0, <1>3, <2>1, RunMoves, GotoFacts DEF TypeOK, SendFails
  <1>4. CASE Lost(r) \/ Crash(r)
    <2>1. EndRun(r) /\ UNCHANGED <<clock, turnVars, rowVars, sends>>
      BY <1>4 DEF Lost, Crash
    <2> QED BY <1>0, <2>1, RunMoves, EndFacts DEF TypeOK
  <1> QED BY <1>1, <1>2, <1>3, <1>4

(* Time, events and the preparation of a turn do not touch rows and runs. *)
LEMMA PlanMoves ==
  ASSUME PublicInv, UNCHANGED <<version, tells, coverage, rowVars, sends, runVars>>,
         clock' \in 0..MaxTime, happened' \subseteq Events,
         plan' \in [turn : Turns \cup {None}, events : SUBSET Events, absorbs : SUBSET Completions],
         plan'.turn # None => version[plan'.turn] = 0,
         \A e \in plan'.events, u \in Turns : e \in tells[u] => Dead(u) \/ u \in plan'.absorbs
  PROVE  PublicInv'
PROOF
  <1> USE DEF PublicInv, rowVars, runVars
  <1>1. TypeOK'
    BY DEF TypeOK
  <1>2. CommitsNumbered'
    BY DEF CommitsNumbered, Committed
  <1>3. NewsCovered'
    BY DEF NewsCovered, Dead, RowsOf
  <1>4. PlanCurrent'
    BY DEF PlanCurrent, Dead, RowsOf
  <1>5. RunsFenced'
    BY DEF RunsFenced, Past
  <1>6. SendsCounted'
    BY DEF SendsCounted
  <1>7. InOrder'
    BY DEF InOrder, Before
  <1> QED BY <1>1, <1>2, <1>3, <1>4, <1>5, <1>6, <1>7

(* An abandoned turn, an event, and an instant of time keep the invariant. *)
LEMMA SmallSteps ==
  ASSUME PublicInv, Tick \/ AbandonTurn \/ (\E e \in Events : Happen(e)) \/ UNCHANGED vars
  PROVE  PublicInv'
PROOF
  <1> USE DEF PublicInv
  <1>1. NoPlan \in [turn : Turns \cup {None}, events : SUBSET Events, absorbs : SUBSET Completions]
        /\ NoPlan.turn = None /\ NoPlan.events = {}
    BY DEF NoPlan
  <1>2. CASE AbandonTurn
    BY <1>1, <1>2, PlanMoves DEF AbandonTurn, TypeOK
  <1>3. CASE Tick \/ (\E e \in Events : Happen(e)) \/ UNCHANGED vars
    <2>1. /\ UNCHANGED <<version, tells, coverage, plan, rowVars, sends, runVars>>
          /\ clock' \in 0..MaxTime /\ happened' \subseteq Events
      BY <1>3, PublicBounds DEF Tick, Happen, vars, turnVars, TypeOK
    <2> QED BY <2>1, PlanMoves DEF TypeOK, CommitsNumbered, PlanCurrent
  <1> QED BY <1>2, <1>3

(* A completion is prepared for news that nobody tells. *)
LEMMA PrepareCompletionStep ==
  ASSUME PublicInv, NEW t \in Completions, NEW news \in SUBSET Events, PrepareCompletion(t, news)
  PROVE  PublicInv'
PROOF
  <1> USE DEF PublicInv, PrepareCompletion
  <1>1. t \in Turns /\ t # None
    BY PublicTurns DEF Turns
  <1>2. /\ plan' \in [turn : Turns \cup {None}, events : SUBSET Events, absorbs : SUBSET Completions]
        /\ plan'.turn = t /\ plan'.events = news
    BY <1>1
  <1>3. \A e \in news, u \in Turns : e \notin tells[u]
    BY DEF Fresh, NewsCovered
  <1> QED BY <1>2, <1>3, PlanMoves DEF TypeOK

(* Whoever tells what a customer turn is prepared to tell is absorbed by it or
   has been cancelled. *)
LEMMA PrepareCustomerStep ==
  ASSUME PublicInv, NEW t \in Customers, PrepareCustomer(t) PROVE PublicInv'
PROOF
  <1> USE DEF PublicInv
  <1>1. t \in Turns /\ t # None
    BY PublicTurns DEF Turns
  <1>2. PICK untold : untold = {e \in happened : coverage[e] # None /\ Unattempted(coverage[e])}
    OBVIOUS
  <1>3. /\ version[t] = 0
        /\ plan' = [turn |-> t, events |-> Fresh \cup untold,
                    absorbs |-> {coverage[e] : e \in untold}]
        /\ UNCHANGED <<clock, happened, version, tells, coverage, rowVars, sends, runVars>>
    BY <1>2 DEF PrepareCustomer
  <1>4. /\ Fresh \cup untold \subseteq Events
        /\ {coverage[e] : e \in untold} \subseteq Completions
    BY <1>2 DEF Fresh, TypeOK, Unattempted
  <1>5. /\ plan' \in [turn : Turns \cup {None}, events : SUBSET Events, absorbs : SUBSET Completions]
        /\ plan'.turn = t /\ plan'.events = Fresh \cup untold
        /\ plan'.absorbs = {coverage[e] : e \in untold}
    BY <1>1, <1>3, <1>4
  <1>6. ASSUME NEW e \in Fresh \cup untold, NEW u \in Turns, e \in tells[u]
        PROVE  Dead(u) \/ u \in {coverage[d] : d \in untold}
    <2>1. e \in untold
      BY <1>4, <1>6 DEF Fresh, NewsCovered
    <2>2. PICK c \in Turns : c = coverage[e] /\ Unattempted(c) /\ e \in tells[c]
      BY <1>2, <1>4, <2>1 DEF TypeOK, NewsCovered
    <2>3. CASE u = c
      BY <2>1, <2>2, <2>3
    <2>4. CASE u # c
      BY <1>4, <1>6, <2>2, <2>4, DeadFacts DEF NewsCovered
    <2> QED BY <2>3, <2>4
  <1> QED BY <1>1, <1>3, <1>5, <1>6, PlanMoves DEF TypeOK
-----------------------------------------------------------------------------
(* The fence takes a leased row, on which no other run is beyond it. *)
LEMMA FenceStep == ASSUME PublicInv, NEW r \in Runs, Fence(r) PROVE PublicInv'
PROOF
  <1> USE DEF PublicInv
  <1>1. PICK c \in Rows : c = row[r]
    BY DEF Fence, RunsFenced
  <1>2. /\ pc[r] = "claimed" /\ status[c] = "leased" /\ holder[c] = r
        /\ status' = [status EXCEPT ![c] = "dispatch_fenced"]
        /\ authority' = [authority EXCEPT ![c] = "dispatch_fenced"]
        /\ Goto(r, "fenced")
        /\ UNCHANGED <<clock, turnVars, holder, expires, sends>>
    BY <1>1 DEF Fence, MayFence, Holds
  <1>3. /\ pc'[r] = "fenced" /\ row' = row /\ now' = now
        /\ \A q \in Runs \ {r} : pc'[q] = pc[q]
        /\ \A x \in Rows : status'[x] = IF x = c THEN "dispatch_fenced" ELSE status[x]
    BY <1>2, GotoFacts DEF TypeOK
  <1>4. TypeOK'
    <2>1. /\ status' \in [Rows -> {"absent"} \cup Active \cup Ended]
          /\ authority' \in [Rows -> {"available", "bound", "dispatch_fenced", "terminal",
                                      "manual_review", "closed"}]
      BY <1>2 DEF TypeOK, Active
    <2> QED BY <1>2, <2>1, GotoFacts DEF TypeOK, turnVars
  <1>5. (CommitsNumbered /\ NewsCovered /\ PlanCurrent)'
    BY <1>2, <1>3, TurnsRest
  <1>6. InOrder'
    BY <1>2, <1>3, OrderRests DEF turnVars, Started, Active
  <1>7. RunsFenced'
    BY <1>1, <1>2, <1>3 DEF RunsFenced, Past
  <1>8. SendsCounted'
    BY <1>1, <1>2, <1>3 DEF SendsCounted
  <1> QED BY <1>4, <1>5, <1>6, <1>7, <1>8

(* A send happens once per fence. *)
LEMMA SendStep == ASSUME PublicInv, NEW r \in Runs, Send(r) PROVE PublicInv'
PROOF
  <1> USE DEF PublicInv
  <1>1. PICK c \in Rows : c = row[r]
    BY DEF Send, RunsFenced
  <1>2. PICK s \in {"accepted", "failing"} : Goto(r, s)
    BY DEF Send
  <1>3. /\ pc[r] = "fenced" /\ Past(r) /\ sends[c] = 0
        /\ sends' = [sends EXCEPT ![c] = @ + 1]
        /\ UNCHANGED <<clock, turnVars, rowVars>>
        /\ status[c] \in {"manual_review", "dispatch_fenced"}
    BY <1>1 DEF Send, SendsCounted, RunsFenced, Past
  <1>4. /\ pc'[r] = s /\ row' = row /\ now' = now
        /\ \A q \in Runs \ {r} : pc'[q] = pc[q]
        /\ \A x \in Rows : sends'[x] = IF x = c THEN 1 ELSE sends[x]
    BY <1>2, <1>3, GotoFacts DEF TypeOK
  <1>5. TypeOK'
    <2>1. sends' \in [Rows -> Nat]
      BY <1>3 DEF TypeOK
    <2> QED BY <1>2, <1>3, <2>1, GotoFacts DEF TypeOK, turnVars, rowVars
  <1>6. (CommitsNumbered /\ NewsCovered /\ PlanCurrent)'
    BY <1>3, TurnsRest DEF rowVars
  <1>7. InOrder'
    BY <1>3, OrderRests DEF turnVars, rowVars
  <1>8. RunsFenced'
    BY <1>3, <1>4 DEF RunsFenced, Past, rowVars
  <1>9. SendsCounted'
    <2>1. \A q \in Runs \ {r} : Past(q) => row[q] # c
      BY <1>1, <1>3 DEF RunsFenced
    <2>2. \A q \in Runs \ {r} : Past(q) => row[q] \in Rows
      BY DEF RunsFenced, Past
    <2> QED BY <1>1, <1>3, <1>4, <2>1, <2>2 DEF SendsCounted, Past, rowVars
  <1> QED BY <1>5, <1>6, <1>7, <1>8, <1>9

(* A run closes its own row: other runs beyond the fence have other rows. *)
LEMMA CloseStep ==
  ASSUME PublicInv, NEW r \in Runs, pc[r] \notin {"idle", "begun"},
         Holds(r, {"leased", "dispatch_fenced"}), NEW st, NEW auth, Close(r, st, auth),
         auth \in {"terminal", "bound", "manual_review"},
         \/ st = "delivered" /\ pc[r] = "accepted"
         \/ st = "pending" /\ pc[r] = "not_called"
         \/ st = "manual_review"
  PROVE  PublicInv'
PROOF
  <1> USE DEF PublicInv
  <1>1. PICK c \in Rows : c = row[r]
    BY DEF RunsFenced
  <1>2. /\ status[c] \in {"leased", "dispatch_fenced"} /\ holder[c] = r
        /\ status' = [status EXCEPT ![c] = st]
        /\ holder' = [holder EXCEPT ![c] = None]
        /\ expires' = [expires EXCEPT ![c] = Never]
        /\ authority' = [authority EXCEPT ![c] = auth]
        /\ EndRun(r)
        /\ UNCHANGED <<clock, turnVars, sends>>
    BY <1>1 DEF Close, Holds
  <1>3. /\ pc'[r] = "idle"
        /\ \A q \in Runs \ {r} : pc'[q] = pc[q] /\ row'[q] = row[q]
        /\ \A x \in Rows : status'[x] = IF x = c THEN st ELSE status[x]
        /\ \A x \in Rows \ {c} : holder'[x] = holder[x]
    BY <1>2, EndFacts DEF TypeOK
  <1>4. TypeOK'
    <2>1. /\ status' \in [Rows -> {"absent"} \cup Active \cup Ended]
          /\ holder' \in [Rows -> Runs \cup {None}]
          /\ authority' \in [Rows -> {"available", "bound", "dispatch_fenced", "terminal",
                                      "manual_review", "closed"}]
      BY <1>2 DEF TypeOK, Active, Ended
    <2>2. expires' \in [Rows -> 0..Never]
      BY <1>2, TimeFacts DEF TypeOK
    <2> QED BY <1>2, <2>1, <2>2, EndFacts DEF TypeOK, turnVars
  <1>5. (CommitsNumbered /\ NewsCovered /\ PlanCurrent)'
    BY <1>2, <1>3, TurnsRest
  <1>6. InOrder'
    BY <1>2, <1>3, OrderRests DEF turnVars, Started, Active
  <1>7. ASSUME NEW q \in Runs \ {r}, Past(q) PROVE row[q] \in Rows \ {c}
    BY <1>2, <1>7 DEF RunsFenced, Past
  <1>8. RunsFenced'
    <2>1. \A q \in Runs : pc'[q] \notin {"idle", "begun"} => row'[q] \in Rows
      BY <1>3 DEF RunsFenced
    <2>2. \A q \in Runs : Past(q)' => q # r /\ Past(q) /\ row'[q] = row[q]
      BY <1>3 DEF Past
    <2>3. \A q \in Runs : Past(q)' =>
            \/ status'[row'[q]] = "manual_review"
            \/ status'[row'[q]] = "dispatch_fenced" /\ holder'[row'[q]] = q
      BY <1>3, <1>7, <2>2 DEF RunsFenced
    <2>4. \A q, p \in Runs : Past(q)' /\ Past(p)' /\ row'[q] = row'[p] => q = p
      BY <2>2 DEF RunsFenced
    <2> QED BY <2>1, <2>3, <2>4 DEF RunsFenced
  <1>9. SendsCounted'
    BY <1>1, <1>2, <1>3 DEF SendsCounted
  <1> QED BY <1>4, <1>5, <1>6, <1>8, <1>9

(* complete, release and the mark for review close the row of a run. *)
LEMMA ClosingSteps ==
  ASSUME PublicInv, NEW r \in Runs, Complete(r) \/ Release(r) \/ MarkReview(r)
  PROVE  PublicInv'
PROOF
  <1>1. CASE Complete(r)
    BY <1>1, CloseStep DEF Complete, Holds
  <1>2. CASE Release(r)
    BY <1>2, CloseStep DEF Release, Holds
  <1>3. CASE MarkReview(r)
    BY <1>3, CloseStep DEF MarkReview
  <1> QED BY <1>1, <1>2, <1>3
-----------------------------------------------------------------------------
(* What the recovery may do to a row. *)
LEMMA RecoveredFacts ==
  ASSUME PublicInv, NEW x \in Rows, NEW t
  PROVE  /\ Recovered(x, t) \in {"absent"} \cup Active \cup Ended
         /\ \/ Recovered(x, t) = status[x]
            \/ status[x] = "dispatch_fenced" /\ Recovered(x, t) = "manual_review"
            \/ status[x] \in {"pending", "leased"} /\ Recovered(x, t) \in {"pending", "cancelled"}
PROOF
  BY DEF PublicInv, TypeOK, Recovered, Active, Ended

(* A row that is claimed follows rows that are through. *)
LEMMA EligibleFacts ==
  ASSUME PublicInv, NEW t, NEW c \in Eligible([x \in Rows |-> Recovered(x, t)])
  PROVE  /\ c \in Rows /\ Recovered(c, t) = "pending" /\ status[c] \in {"pending", "leased"}
         /\ \A x \in Rows : Before(x, c) =>
              /\ Recovered(x, t) \notin Active
              /\ x[1] = c[1] => Recovered(x, t) = "delivered"
PROOF
  <1> USE DEF PublicInv
  <1>1. /\ c \in Rows /\ Recovered(c, t) = "pending"
        /\ \A y \in Rows : version[y[1]] < version[c[1]] => Recovered(y, t) \notin Active
        /\ c[2] = 0 \/ [x \in Rows |-> Recovered(x, t)][<<c[1], c[2] - 1>>] = "delivered"
    BY DEF Eligible
  <1>2. status[c] \in {"pending", "leased"}
    BY <1>1, RecoveredFacts
  <1>3. ASSUME NEW x \in Rows, x[1] = c[1], x[2] < c[2] PROVE Recovered(x, t) = "delivered"
    <2>1. x[2] \in Nat /\ c[2] \in Nat /\ c[2] # 0 /\ c[1] \in Turns
      BY <1>1, <1>3, RowFacts
    <2>2. PICK p \in Rows : p = <<c[1], c[2] - 1>>
      BY <1>1, <2>1, RowFacts
    <2>3. p[1] = c[1] /\ p[2] = c[2] - 1 /\ Recovered(p, t) = "delivered"
      BY <1>1, <2>1, <2>2
    <2>4. status[p] = "delivered"
      BY <2>3, RecoveredFacts
    <2>5. CASE x[2] = p[2]
      BY <1>3, <2>3, <2>5, RowFacts
    <2>6. CASE x[2] # p[2]
      <3>1. Before(x, p)
        BY <1>3, <2>1, <2>3, <2>6 DEF Before
      <3>2. status[x] = "delivered"
        BY <1>3, <2>3, <2>4, <3>1 DEF InOrder, Started
      <3> QED BY <3>2, RecoveredFacts
    <2> QED BY <2>5, <2>6
  <1>4. ASSUME NEW x \in Rows, Before(x, c)
        PROVE  /\ Recovered(x, t) \notin Active
               /\ x[1] = c[1] => Recovered(x, t) = "delivered"
    <2>1. CASE version[x[1]] < version[c[1]]
      <3>1. x[1] # c[1]
        BY <2>1, <1>1, RowFacts DEF TypeOK
      <3> QED BY <2>1, <3>1, <1>1
    <2>2. CASE x[1] = c[1] /\ x[2] < c[2]
      BY <2>2, <1>3 DEF Active
    <2> QED BY <1>4, <2>1, <2>2 DEF Before
  <1> QED BY <1>1, <1>2, <1>4

(* The recovery and the claim keep the invariant. *)
LEMMA ClaimStep == ASSUME PublicInv, NEW r \in Runs, Claim(r) PROVE PublicInv'
PROOF
  <1> USE DEF PublicInv
  <1> DEFINE t        == now[r]
             st       == [x \in Rows |-> Recovered(x, t)]
             eligible == Eligible(st)
             changed  == {y \in Rows : st[y] # status[y]}
             chosen   == CHOOSE y \in eligible : TRUE
  <1>1. /\ pc[r] = "begun" /\ UNCHANGED <<clock, turnVars, sends>>
        /\ authority' = [y \in Rows |->
             CASE y \in changed /\ st[y] = "manual_review" -> "manual_review"
               [] y \in changed /\ st[y] = "cancelled" -> "closed"
               [] OTHER -> authority[y]]
    BY DEF Claim
  <1>2. eligible = {} =>
          /\ status' = st
          /\ holder' = [y \in Rows |-> IF y \in changed THEN None ELSE holder[y]]
          /\ expires' = [y \in Rows |-> IF y \in changed THEN Never ELSE expires[y]]
          /\ EndRun(r)
    BY DEF Claim
  <1>3. eligible # {} =>
          /\ status' = [st EXCEPT ![chosen] = "leased"]
          /\ holder' = [y \in Rows |-> IF y = chosen THEN r
                                       ELSE IF y \in changed THEN None ELSE holder[y]]
          /\ expires' = [y \in Rows |-> IF y = chosen THEN t + LeaseTTL
                                        ELSE IF y \in changed THEN Never ELSE expires[y]]
          /\ pc' = [pc EXCEPT ![r] = "claimed"]
          /\ row' = [row EXCEPT ![r] = chosen]
          /\ UNCHANGED now
    BY DEF Claim
  <1>4. eligible # {} => chosen \in eligible
    OBVIOUS
  <1>5. \A c \in eligible :
          /\ c \in Rows /\ st[c] = "pending" /\ status[c] \in {"pending", "leased"}
          /\ \A x \in Rows : Before(x, c) =>
               /\ st[x] \notin Active
               /\ x[1] = c[1] => st[x] = "delivered"
    BY EligibleFacts
  <1>6. /\ st \in [Rows -> {"absent"} \cup Active \cup Ended]
        /\ \A x \in Rows :
             \/ st[x] = status[x]
             \/ status[x] = "dispatch_fenced" /\ st[x] = "manual_review"
             \/ status[x] \in {"pending", "leased"} /\ st[x] \in {"pending", "cancelled"}
    BY RecoveredFacts
  <1>7. t \in 0..MaxTime /\ changed \subseteq Rows
    BY DEF TypeOK
  <1>8. \A x \in Rows \ changed : st[x] = status[x]
    OBVIOUS
  <1> HIDE DEF t, st, eligible, changed, chosen
  <1>9. authority' \in [Rows -> {"available", "bound", "dispatch_fenced", "terminal",
                                 "manual_review", "closed"}]
    BY <1>1 DEF TypeOK
  <1>10. (CommitsNumbered /\ NewsCovered /\ PlanCurrent)'
    <2>1. \A x \in Rows : /\ status'[x] = "absent" <=> status[x] = "absent"
                          /\ status[x] = "cancelled" => status'[x] = "cancelled"
      <3>1. CASE eligible = {}
        BY <1>2, <1>6, <3>1
      <3>2. CASE eligible # {}
        <4>1. /\ chosen \in Rows /\ status[chosen] \in {"pending", "leased"}
              /\ \A x \in Rows : status'[x] = IF x = chosen THEN "leased" ELSE st[x]
          BY <1>3, <1>4, <1>5, <1>6, <3>2
        <4> QED BY <1>6, <4>1
      <3> QED BY <3>1, <3>2
    <2> QED BY <1>1, <2>1, TurnsRest
  <1>11. CASE eligible = {}
    <2>0. EndRun(r) /\ status' = st /\ TypeOK
      BY <1>2, <1>11
    <2>1. TypeOK'
      <3>1. holder' \in [Rows -> Runs \cup {None}] /\ expires' \in [Rows -> 0..Never]
        BY <1>2, <1>11, TimeFacts DEF TypeOK
      <3> QED BY <1>1, <1>6, <1>9, <2>0, <3>1, EndFacts DEF TypeOK, turnVars
    <2>2. InOrder'
      BY <1>1, <1>6, <2>0, OrderRests DEF turnVars, Started, Active
    <2>3. /\ pc'[r] = "idle" /\ \A q \in Runs \ {r} : pc'[q] = pc[q] /\ row'[q] = row[q]
      BY <2>0, EndFacts
    <2>4. \A x \in Rows : st[x] = "dispatch_fenced" => holder'[x] = holder[x]
      <3>1. \A x \in Rows : st[x] = "dispatch_fenced" => x \notin changed
        BY <1>6 DEF changed
      <3> QED BY <1>2, <1>11, <3>1
    <2>5. RunsFenced'
      BY <1>6, <2>0, <2>3, <2>4 DEF RunsFenced, Past
    <2>6. SendsCounted'
      BY <1>1, <1>6, <2>0, <2>3 DEF SendsCounted
    <2> QED BY <1>10, <2>1, <2>2, <2>5, <2>6
  <1>12. CASE eligible # {}
    <2>1. PICK c \in Rows :
            /\ st[c] = "pending" /\ status[c] \in {"pending", "leased"}
            /\ \A x \in Rows : Before(x, c) =>
                 /\ st[x] \notin Active
                 /\ x[1] = c[1] => st[x] = "delivered"
            /\ c = chosen
      BY <1>4, <1>5, <1>12
    <2>2. /\ status' = [st EXCEPT ![c] = "leased"]
          /\ holder' = [y \in Rows |-> IF y = c THEN r
                                       ELSE IF y \in changed THEN None ELSE holder[y]]
          /\ expires' = [y \in Rows |-> IF y = c THEN t + LeaseTTL
                                        ELSE IF y \in changed THEN Never ELSE expires[y]]
          /\ pc' = [pc EXCEPT ![r] = "claimed"]
          /\ row' = [row EXCEPT ![r] = c]
          /\ UNCHANGED now
      BY <1>3, <1>12, <2>1
    <2>3. /\ \A x \in Rows : status'[x] = IF x = c THEN "leased" ELSE st[x]
          /\ pc'[r] = "claimed" /\ row'[r] = c
          /\ \A q \in Runs \ {r} : pc'[q] = pc[q] /\ row'[q] = row[q]
          /\ \A x \in Rows : st[x] = "dispatch_fenced" => holder'[x] = holder[x]
      <3>1. \A x \in Rows : status'[x] = IF x = c THEN "leased" ELSE st[x]
        BY <1>6, <2>2
      <3>2. /\ pc'[r] = "claimed" /\ row'[r] = c
            /\ \A q \in Runs \ {r} : pc'[q] = pc[q] /\ row'[q] = row[q]
        BY <2>2 DEF TypeOK
      <3>3. \A x \in Rows : st[x] = "dispatch_fenced" => x # c /\ x \notin changed
        BY <1>6, <2>1 DEF changed
      <3> QED BY <2>2, <3>1, <3>2, <3>3
    <2>4. TypeOK'
      <3>1. /\ status' \in [Rows -> {"absent"} \cup Active \cup Ended]
            /\ holder' \in [Rows -> Runs \cup {None}]
        BY <1>6, <2>2 DEF TypeOK, Active
      <3>2. expires' \in [Rows -> 0..Never]
        BY <1>7, <2>2, TimeFacts DEF TypeOK
      <3>3. /\ pc' \in [Runs -> {"idle", "begun", "claimed", "fenced", "accepted", "not_called",
                                 "failing"}]
            /\ row' \in [Runs -> Rows \cup {NoRow}]
        BY <2>2 DEF TypeOK
      <3> QED BY <1>1, <1>9, <2>2, <3>1, <3>2, <3>3 DEF TypeOK, turnVars
    <2>5. InOrder'
      <3> SUFFICES ASSUME NEW x \in Rows, NEW y \in Rows, status'[y] \in Started, Before(x, y)'
                   PROVE  /\ status'[x] \notin Active
                          /\ x[1] = y[1] => status'[x] = "delivered"
        BY DEF InOrder, Started
      <3>1. Before(x, y)
        BY <1>1 DEF Before, turnVars
      <3>2. CASE y = c
        <4>1. st[x] \notin Active /\ x # c
          BY <2>1, <3>1, <3>2 DEF Active
        <4> QED BY <2>1, <2>3, <3>1, <3>2, <4>1
      <3>3. CASE y # c
        <4>1. status[y] \in Started
          BY <1>6, <2>3, <3>3 DEF Started
        <4>2. status[x] \notin Active /\ (x[1] = y[1] => status[x] = "delivered")
          BY <3>1, <4>1 DEF InOrder
        <4>3. x # c /\ st[x] = status[x]
          BY <1>6, <2>1, <4>2 DEF Active
        <4> QED BY <2>3, <4>2, <4>3
      <3> QED BY <3>2, <3>3
    <2>6. RunsFenced'
      <3>1. \A q \in Runs : pc'[q] \notin {"idle", "begun"} => row'[q] \in Rows
        BY <2>3 DEF RunsFenced
      <3>2. \A q \in Runs : Past(q)' => q # r /\ Past(q) /\ row'[q] = row[q] /\ row[q] \in Rows
        BY <2>3 DEF Past, RunsFenced
      <3>3. \A q \in Runs : Past(q)' =>
              \/ status'[row'[q]] = "manual_review"
              \/ status'[row'[q]] = "dispatch_fenced" /\ holder'[row'[q]] = q
        BY <1>6, <2>1, <2>3, <3>2 DEF RunsFenced
      <3>4. \A q, p \in Runs : Past(q)' /\ Past(p)' /\ row'[q] = row'[p] => q = p
        BY <3>2 DEF RunsFenced
      <3> QED BY <3>1, <3>3, <3>4 DEF RunsFenced
    <2>7. SendsCounted'
      BY <1>1, <1>6, <2>1, <2>3 DEF SendsCounted
    <2> QED BY <1>10, <2>4, <2>5, <2>6, <2>7
  <1> QED BY <1>11, <1>12
-----------------------------------------------------------------------------
(* A commit numbers its turn above every committed one. *)
LEMMA NextVersion ==
  ASSUME PublicInv, NEW t \in Turns, version[t] = 0,
         version' = [version EXCEPT ![t] = Cardinality(Committed) + 1]
  PROVE  /\ version' \in [Turns -> 0..Cardinality(Turns)]
         /\ version'[t] > 0
         /\ \A u \in Turns \ {t} : version'[u] = version[u] /\ version'[u] < version'[t]
         /\ \A u \in Turns : version'[u] <= Cardinality(Committed')
PROOF
  <1> USE DEF PublicInv
  <1>1. IsFiniteSet(Committed) /\ Cardinality(Committed) \in Nat
    BY PublicTurns, FS_Subset, FS_CardinalityType DEF Committed
  <1>2. Cardinality(Committed \cup {t}) = Cardinality(Committed) + 1
    <2>1. t \notin Committed
      BY DEF Committed
    <2> QED BY <1>1, <2>1, FS_AddElement
  <1>3. Cardinality(Turns) \in Nat /\ Cardinality(Committed) + 1 <= Cardinality(Turns)
    <2>1. Committed \cup {t} \in SUBSET Turns
      BY DEF Committed
    <2>2. Cardinality(Committed \cup {t}) <= Cardinality(Turns) /\ Cardinality(Turns) \in Nat
      BY <2>1, PublicTurns, FS_Subset, FS_CardinalityType
    <2> QED BY <1>2, <2>2
  <1>4. /\ version'[t] = Cardinality(Committed) + 1
        /\ \A u \in Turns \ {t} : version'[u] = version[u]
        /\ \A u \in Turns : version[u] \in Nat /\ version[u] <= Cardinality(Committed)
    BY <1>3 DEF TypeOK, CommitsNumbered
  <1>5. Committed' = Committed \cup {t}
    <2>1. \A u \in Turns : version'[u] # 0 <=> (version[u] # 0 \/ u = t)
      BY <1>1, <1>4
    <2> QED BY <2>1 DEF Committed
  <1>6. version' \in [Turns -> 0..Cardinality(Turns)]
    BY <1>1, <1>3 DEF TypeOK
  <1>7. \A u \in Turns : version'[u] <= Cardinality(Committed) + 1
    BY <1>1, <1>4
  <1>8. \A u \in Turns \ {t} : version'[u] < version'[t]
    BY <1>1, <1>4
  <1> QED BY <1>1, <1>2, <1>4, <1>5, <1>6, <1>7, <1>8

(* The commit cancels whoever told its news and starts a turn of its own. *)
LEMMA CommitStep == ASSUME PublicInv, CommitTurn PROVE PublicInv'
PROOF
  <1> USE DEF PublicInv
  <1>1. PICK t \in Turns : t = plan.turn
    BY DEF CommitTurn, TypeOK
  <1>2. PICK A \in SUBSET Completions : A = plan.absorbs
    BY DEF TypeOK
  <1>3. PICK E \in SUBSET Events : E = plan.events
    BY DEF TypeOK
  <1>4. /\ version[t] = 0 /\ \A u \in A : Unattempted(u)
        /\ version' = [version EXCEPT ![t] = Cardinality(Committed) + 1]
        /\ tells' = [tells EXCEPT ![t] = E]
        /\ coverage' = [e \in Events |-> IF e \in E /\ coverage[e] = None THEN t ELSE coverage[e]]
        /\ status' = [x \in Rows |-> CASE x[1] = t -> "pending"
                                       [] x[1] \in A -> "cancelled"
                                       [] OTHER -> status[x]]
        /\ holder' = [x \in Rows |-> IF x[1] \in A THEN None ELSE holder[x]]
        /\ expires' = [x \in Rows |-> IF x[1] \in A THEN Never ELSE expires[x]]
        /\ authority' = [x \in Rows |-> IF x[1] = t THEN "bound" ELSE authority[x]]
        /\ plan' = NoPlan
        /\ UNCHANGED <<clock, happened, sends, runVars>>
    BY <1>1, <1>2, <1>3 DEF CommitTurn, StillUnattempted, CommitsNumbered, Committed
  <1>5. /\ version' \in [Turns -> 0..Cardinality(Turns)]
        /\ version'[t] > 0
        /\ \A u \in Turns \ {t} : version'[u] = version[u] /\ version'[u] < version'[t]
        /\ \A u \in Turns : version'[u] <= Cardinality(Committed')
    BY <1>4, NextVersion
  <1>6. /\ \A x \in Rows : x[1] = t => status[x] = "absent" /\ status'[x] = "pending"
        /\ \A x \in Rows : x[1] \in A => /\ status[x] \in {"pending", "leased"}
                                         /\ status'[x] = "cancelled"
        /\ \A x \in Rows : x[1] # t /\ x[1] \notin A => status'[x] = status[x] /\ holder'[x] = holder[x]
        /\ t \notin A
    <2>1. \A x \in Rows : x[1] = t => status[x] = "absent"
      BY <1>4 DEF CommitsNumbered
    <2>2. \A x \in Rows : x[1] \in A => status[x] \in {"pending", "leased"}
      BY <1>4 DEF Unattempted, RowsOf
    <2>3. t \notin A
      BY <2>1, <2>2, RowFacts
    <2>4. \A x \in Rows : x[1] = t => status'[x] = "pending"
      BY <1>4, <2>3
    <2>5. \A x \in Rows : x[1] \in A => status'[x] = "cancelled"
      BY <1>4, <2>3
    <2>6. \A x \in Rows : x[1] # t /\ x[1] \notin A => status'[x] = status[x] /\ holder'[x] = holder[x]
      BY <1>4
    <2> QED BY <2>1, <2>2, <2>3, <2>4, <2>5, <2>6
  <1>7. NoPlan \in [turn : Turns \cup {None}, events : SUBSET Events, absorbs : SUBSET Completions]
        /\ NoPlan.turn = None /\ NoPlan.events = {}
    BY DEF NoPlan
  <1>8. TypeOK'
    <2>1. status' \in [Rows -> {"absent"} \cup Active \cup Ended]
      BY <1>4 DEF TypeOK, Active, Ended
    <2>2. holder' \in [Rows -> Runs \cup {None}] /\ expires' \in [Rows -> 0..Never]
      BY <1>4, TimeFacts DEF TypeOK
    <2>3. /\ authority' \in [Rows -> {"available", "bound", "dispatch_fenced", "terminal",
                                      "manual_review", "closed"}]
          /\ tells' \in [Turns -> SUBSET Events]
          /\ coverage' \in [Events -> Turns \cup {None}]
      BY <1>4 DEF TypeOK
    <2> QED BY <1>4, <1>5, <1>7, <2>1, <2>2, <2>3 DEF TypeOK, runVars
  <1>9. CommitsNumbered'
    <2>1. ASSUME NEW x \in Rows PROVE version'[x[1]] = 0 <=> status'[x] = "absent"
      <3>1. x[1] \in Turns
        BY RowFacts
      <3>2. CASE x[1] = t
        BY <1>5, <1>6, <3>2
      <3>3. CASE x[1] # t
        BY <1>5, <1>6, <3>1, <3>3 DEF CommitsNumbered
      <3> QED BY <3>2, <3>3
    <2> QED BY <1>4, <1>5, <1>7, <2>1 DEF CommitsNumbered
  <1>10. /\ \A u \in Turns : Dead(u) => u # t /\ Dead(u)'
         /\ \A u \in A : Dead(u)'
    <2>1. ASSUME NEW u \in Turns, Dead(u) PROVE u # t /\ Dead(u)'
      <3>1. u # t
        BY <2>1, <1>6, DeadFacts, RowFacts
      <3>2. \A x \in Rows : x[1] = u => status'[x] = "cancelled"
        BY <2>1, <3>1, <1>6, DeadFacts
      <3> QED BY <3>1, <3>2 DEF Dead, RowsOf
    <2>2. ASSUME NEW u \in A PROVE Dead(u)'
      BY <1>6 DEF Dead, RowsOf
    <2> QED BY <2>1, <2>2
  <1>11. NewsCovered'
    <2>1. /\ tells'[t] = E /\ \A u \in Turns \ {t} : tells'[u] = tells[u]
          /\ tells[t] = {}
          /\ \A e \in Events : coverage'[e] = IF e \in E /\ coverage[e] = None THEN t ELSE coverage[e]
      BY <1>4 DEF TypeOK, NewsCovered
    <2>2. \A u \in Turns : version'[u] = 0 => tells'[u] = {}
      BY <1>5, <2>1 DEF NewsCovered
    <2>3. \A u \in Turns, e \in Events : e \in tells'[u] => coverage'[e] # None
      BY <2>1, PublicTurns DEF NewsCovered
    <2>4. \A e \in Events : coverage'[e] # None => e \in tells'[coverage'[e]]
      BY <2>1 DEF NewsCovered, TypeOK
    <2>5. ASSUME NEW u \in Turns \ {t}, NEW e \in Events, e \in E, e \in tells[u] PROVE Dead(u)'
      BY <1>2, <1>3, <1>10, <2>5 DEF PlanCurrent
    <2>6. \A u, v \in Turns, e \in Events :
            u # v /\ e \in tells'[u] /\ e \in tells'[v] => Dead(u)' \/ Dead(v)'
      BY <1>10, <2>1, <2>5 DEF NewsCovered
    <2> QED BY <2>2, <2>3, <2>4, <2>6 DEF NewsCovered
  <1>12. PlanCurrent'
    BY <1>4, <1>7 DEF PlanCurrent
  <1>13. RunsFenced'
    <2>1. ASSUME NEW r \in Runs, Past(r)
          PROVE  row[r] \in Rows /\ row[r][1] # t /\ row[r][1] \notin A
      BY <2>1, <1>6 DEF RunsFenced, Past
    <2> QED BY <1>4, <1>6, <2>1 DEF RunsFenced, Past, runVars
  <1>14. SendsCounted'
    <2>1. ASSUME NEW x \in Rows
          PROVE  \/ status'[x] = status[x]
                 \/ /\ status[x] \in {"absent", "pending", "leased"}
                    /\ status'[x] \in {"pending", "cancelled"}
      BY <1>6
    <2> QED BY <1>4, <2>1 DEF SendsCounted, runVars
  <1>15. InOrder'
    <2> SUFFICES ASSUME NEW x \in Rows, NEW y \in Rows, status'[y] \in Started, Before(x, y)'
                 PROVE  /\ status'[x] \notin Active
                        /\ x[1] = y[1] => status'[x] = "delivered"
      BY DEF InOrder, Started
    <2>1. y[1] # t /\ y[1] \notin A /\ status[y] \in Started
      BY <1>6 DEF Started
    <2>2. x[1] \in Turns /\ y[1] \in Turns
      BY RowFacts
    <2>3. x[1] # t /\ Before(x, y)
      <3>1. version'[x[1]] < version'[y[1]] \/ (x[1] = y[1] /\ x[2] < y[2])
        BY DEF Before
      <3>2. /\ version'[t] \in Nat /\ version'[y[1]] \in Nat
            /\ version'[y[1]] < version'[t] /\ version'[y[1]] = version[y[1]]
        BY <1>5, <2>1, <2>2, PublicTurns, FS_CardinalityType
      <3>3. x[1] # t
        BY <2>1, <3>1, <3>2
      <3>4. version'[x[1]] = version[x[1]]
        BY <1>5, <2>2, <3>3
      <3> QED BY <3>1, <3>2, <3>3, <3>4 DEF Before
    <2>4. status[x] \notin Active /\ (x[1] = y[1] => status[x] = "delivered")
      BY <2>1, <2>3 DEF InOrder
    <2>5. status'[x] = status[x]
      BY <1>6, <2>3, <2>4 DEF Active
    <2> QED BY <2>4, <2>5
  <1> QED BY <1>8, <1>9, <1>11, <1>12, <1>13, <1>14, <1>15
-----------------------------------------------------------------------------
(* Every step, and every stuttering step, preserves the invariant. *)
LEMMA PublicStep == ASSUME PublicInv, [Next]_vars PROVE PublicInv'
PROOF
  <1>1. CASE Tick \/ AbandonTurn \/ (\E e \in Events : Happen(e)) \/ UNCHANGED vars
    BY <1>1, SmallSteps
  <1>2. ASSUME NEW t \in Completions, NEW news \in SUBSET Events, PrepareCompletion(t, news)
        PROVE  PublicInv'
    BY <1>2, PrepareCompletionStep
  <1>3. ASSUME NEW t \in Customers, PrepareCustomer(t) PROVE PublicInv'
    BY <1>3, PrepareCustomerStep
  <1>4. CASE CommitTurn
    BY <1>4, CommitStep
  <1>5. ASSUME NEW r \in Runs, RunStep(r) \/ Crash(r) PROVE PublicInv'
    <2>1. CASE BeginRun(r) \/ FenceFails(r) \/ SendFails(r) \/ CompleteFails(r) \/ Lost(r) \/ Crash(r)
      BY <2>1, QuietSteps
    <2>2. CASE Claim(r)
      BY <2>2, ClaimStep
    <2>3. CASE Fence(r)
      BY <2>3, FenceStep
    <2>4. CASE Send(r)
      BY <2>4, SendStep
    <2>5. CASE Complete(r) \/ Release(r) \/ MarkReview(r)
      BY <2>5, ClosingSteps
    <2> QED BY <1>5, <2>1, <2>2, <2>3, <2>4, <2>5 DEF RunStep
  <1> QED BY <1>1, <1>2, <1>3, <1>4, <1>5 DEF Next

(* The inductive invariant holds in every state of the public delivery. *)
THEOREM PublicInductive == Spec => []PublicInv
PROOF
  BY PublicInit, PublicStep, PTL DEF Spec

(* No row reaches the channel twice, and of two turns that tell the same news
   only one is ever sent: cancel_unattempted_completions and the fence decide
   which one. *)
THEOREM LeadHearsOnce == Spec => []NewsToldOnce
PROOF
  <1>1. ASSUME PublicInv PROVE NewsToldOnce
    <2> USE <1>1 DEF PublicInv
    <2>1. \A x \in Rows : /\ sends[x] <= 1
                          /\ status[x] = "delivered" => sends[x] = 1
                          /\ status[x] \in {"pending", "leased", "cancelled"} => sends[x] = 0
      BY DEF SendsCounted
    <2>2. \A t \in Turns : Sent(t) => ~Dead(t)
      BY DEF Sent, Dead, RowsOf, SendsCounted
    <2>3. \A t, u \in Turns : t # u /\ Sent(t) /\ Sent(u) => tells[t] \cap tells[u] = {}
      BY <2>2 DEF NewsCovered, TypeOK
    <2> QED BY <2>1, <2>3 DEF NewsToldOnce
  <1> QED BY <1>1, PublicInductive, PTL

(* Only a send past the fence raises sends. *)
LEMMA SendsOnlyBySend ==
  ASSUME PublicInv, [Next]_vars, sends' # sends
  PROVE  \E r \in Runs : Send(r)
PROOF
  <1>1. ~(Tick \/ AbandonTurn \/ CommitTurn \/ (\E e \in Events : Happen(e)) \/ UNCHANGED vars)
    BY DEF Tick, AbandonTurn, CommitTurn, Happen, vars
  <1>2. ~(\E t \in Completions, news \in SUBSET Events : PrepareCompletion(t, news))
    BY DEF PrepareCompletion
  <1>3. ~(\E t \in Customers : PrepareCustomer(t))
    BY DEF PrepareCustomer
  <1>4. \A r \in Runs : ~(Complete(r) \/ Release(r) \/ MarkReview(r) \/ Claim(r) \/ Fence(r))
    BY DEF Complete, Release, MarkReview, Close, Claim, Fence
  <1>5. \A r \in Runs : ~(BeginRun(r) \/ FenceFails(r) \/ SendFails(r) \/ CompleteFails(r) \/ Lost(r)
                          \/ Crash(r))
    BY DEF BeginRun, FenceFails, SendFails, CompleteFails, Lost, Crash
  <1> QED BY <1>1, <1>2, <1>3, <1>4, <1>5 DEF Next, RunStep

(* The queries of claim_public_delivery keep the conversation in order: no
   row is sent after a later one, except by a run that people know about. *)
THEOREM LeadHearsInOrder == Spec => OrderKept
PROOF
  <1>1. ASSUME PublicInv, [Next]_vars, NEW x \in Rows, NEW y \in Rows,
               sends'[x] > sends[x], Before(x, y), sends[y] > 0
        PROVE  status[x] = "manual_review"
    <2> USE <1>1 DEF PublicInv
    <2>1. PICK r \in Runs : Send(r)
      <3>1. sends' # sends
        BY DEF TypeOK
      <3> QED BY <3>1, SendsOnlyBySend
    <2>2. x = row[r]
      BY <2>1 DEF Send, TypeOK
    <2>3. status[x] = "manual_review" \/ status[x] = "dispatch_fenced"
      BY <2>1, <2>2 DEF Send, RunsFenced, Past
    <2>4. status[y] \in Started
      BY DEF SendsCounted, TypeOK, Started, Active, Ended
    <2>5. status[x] \notin Active
      BY <2>4 DEF InOrder
    <2> QED BY <2>3, <2>5 DEF Active
  <1>2. PublicInv /\ [Next]_vars =>
          [\A x, y \in Rows : sends'[x] > sends[x] /\ Before(x, y) /\ sends[y] > 0 =>
             status[x] = "manual_review"]_vars
    BY <1>1
  <1> QED BY <1>2, PublicInductive, PTL DEF Spec, OrderKept
=============================================================================
