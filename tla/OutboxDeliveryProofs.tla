------------------------ MODULE OutboxDeliveryProofs ------------------------
(* Leases of the outbox exclude and overtaken runs never write, for any       *)
(* number of messages and runs.                                               *)
EXTENDS OutboxDelivery, TLAPS

(* Run r has claimed message m and not ended. *)
On(r, m) == claim[r].message = m

(* No claim is newer than its row.  The newest one is the lease in the row;
   every older one had expired when the row was last written. *)
ClaimsDated ==
  \A r \in Runs, m \in Messages : On(r, m) =>
    /\ status[m] # "absent"
    /\ claim[r].token <= token[m]
    /\ claim[r].token = token[m] => status[m] = "leased" /\ lease[m] = claim[r].lease
    /\ claim[r].token < token[m] => claim[r].lease.expires <= updatedAt[m]

(* No two runs have the same claim. *)
ClaimsUnique ==
  \A r, q \in Runs, m \in Messages :
    On(r, m) /\ On(q, m) /\ claim[r].token = claim[q].token => r = q

OutboxInv == TypeOK /\ ClaimsDated /\ ClaimsUnique /\ OverlapOnlyAfterExpiry
-----------------------------------------------------------------------------
(* An empty lease and an empty claim have their types, and 0 is no message. *)
LEMMA EmptyTypes ==
  /\ NoLease \in Lease /\ NoClaim \in Claim /\ Never \in 0..Never /\ Never \in Nat
  /\ NoClaim.message = 0 /\ 0 \notin Messages /\ 0..MaxTime \subseteq 0..Never
  /\ \A t \in 0..MaxTime : t + LeaseTTL \in 0..Never
PROOF
  BY MessagesAssumption, LeaseAssumption, OutboxBounds
     DEF NoLease, NoClaim, Lease, Claim, Never

(* Nothing is in the outbox at first. *)
LEMMA OutboxInit == Init => OutboxInv
PROOF
  <1> SUFFICES ASSUME Init PROVE OutboxInv
    OBVIOUS
  <1>1. TypeOK
    BY EmptyTypes, OutboxBounds DEF Init, TypeOK
  <1>2. ClaimsDated /\ ClaimsUnique
    BY EmptyTypes DEF Init, ClaimsDated, ClaimsUnique, On
  <1>3. OverlapOnlyAfterExpiry
    BY EmptyTypes DEF Init, OverlapOnlyAfterExpiry
  <1> QED BY <1>1, <1>2, <1>3 DEF OutboxInv

(* What a run leaves behind when it ends without a write. *)
LEMMA EndTypes ==
  ASSUME TypeOK, NEW r \in Runs, EndRun(r)
  PROVE  /\ pc' \in [Runs -> {"idle", "begun", "claimed", "delivered", "failed"}]
         /\ now' \in [Runs -> 0..MaxTime] /\ claim' \in [Runs -> Claim]
         /\ receipt' \in [Runs -> 0..Never]
         /\ pc'[r] = "idle" /\ claim'[r] = NoClaim
         /\ \A q \in Runs \ {r} : pc'[q] = pc[q] /\ claim'[q] = claim[q]
         /\ \A q \in Runs : pc'[q] \notin {"idle", "begun"} => claim'[q].message \in Messages
PROOF
  <1>1. /\ pc' \in [Runs -> {"idle", "begun", "claimed", "delivered", "failed"}]
        /\ now' \in [Runs -> 0..MaxTime] /\ claim' \in [Runs -> Claim]
        /\ receipt' \in [Runs -> 0..Never]
    BY EmptyTypes, OutboxBounds DEF TypeOK, EndRun
  <1>2. /\ pc'[r] = "idle" /\ claim'[r] = NoClaim
        /\ \A q \in Runs \ {r} : pc'[q] = pc[q] /\ claim'[q] = claim[q]
    BY DEF TypeOK, EndRun
  <1>3. \A q \in Runs : pc'[q] \notin {"idle", "begun"} => claim'[q].message \in Messages
    BY <1>2 DEF TypeOK
  <1> QED BY <1>1, <1>2, <1>3

(* Claims that stay, or go, beside rows that stay keep the invariant. *)
LEMMA ClaimsRest ==
  ASSUME OutboxInv, UNCHANGED <<status, lease, token, updatedAt>>,
         \A r \in Runs : claim'[r] = claim[r] \/ claim'[r] = NoClaim
  PROVE  (ClaimsDated /\ ClaimsUnique /\ OverlapOnlyAfterExpiry)'
PROOF
  <1>1. ClaimsDated'
    BY EmptyTypes DEF OutboxInv, ClaimsDated, On
  <1>2. ClaimsUnique'
    BY EmptyTypes DEF OutboxInv, ClaimsUnique, On
  <1>3. OverlapOnlyAfterExpiry'
    BY EmptyTypes DEF OutboxInv, OverlapOnlyAfterExpiry
  <1> QED BY <1>1, <1>2, <1>3

(* Steps that write no row that is in the outbox: time, a new run, the
   transport, a refusal, a crash. *)
LEMMA RestKeeps ==
  ASSUME OutboxInv,
         \/ Tick \/ UNCHANGED vars
         \/ \E r \in Runs : \/ BeginRun(r) \/ ClaimNothing(r) \/ Deliver(r)
                            \/ DeliveryFails(r) \/ RunRefused(r) \/ Crash(r)
  PROVE  OutboxInv'
PROOF
  <1> USE DEF OutboxInv
  <1>1. CASE Tick
    <2>1. TypeOK'
      BY <1>1, OutboxBounds DEF Tick, TypeOK, rowVars, runVars, transportVars
    <2> QED BY <1>1, <2>1, ClaimsRest DEF Tick, rowVars, runVars
  <1>2. CASE UNCHANGED vars
    <2>1. TypeOK'
      BY <1>2 DEF vars, TypeOK, rowVars, runVars, transportVars
    <2> QED BY <1>2, <2>1, ClaimsRest DEF vars, rowVars, runVars
  <1>3. ASSUME NEW r \in Runs, BeginRun(r) PROVE OutboxInv'
    <2>1. TypeOK'
      BY <1>3 DEF BeginRun, TypeOK, rowVars, transportVars
    <2> QED BY <1>3, <2>1, ClaimsRest DEF BeginRun, rowVars
  <1>4. ASSUME NEW r \in Runs, ClaimNothing(r) \/ RunRefused(r) \/ Crash(r) PROVE OutboxInv'
    <2>1. /\ EndRun(r)
          /\ UNCHANGED <<clock, status, createdAt, updatedAt, lease, token, deliveredAt, sent,
                         transportFailures>>
      BY <1>4 DEF ClaimNothing, RunRefused, Crash, rowVars, transportVars
    <2>2. TypeOK'
      BY <2>1, EndTypes DEF TypeOK
    <2>3. \A q \in Runs : claim'[q] = claim[q] \/ claim'[q] = NoClaim
      BY <2>1, EndTypes
    <2> QED BY <2>1, <2>2, <2>3, ClaimsRest
  <1>5. ASSUME NEW r \in Runs, Deliver(r) PROVE OutboxInv'
    <2>1. UNCHANGED <<clock, status, createdAt, updatedAt, lease, token, deliveredAt, now, claim,
                      transportFailures>> /\ pc[r] = "claimed"
      BY <1>5 DEF Deliver, rowVars
    <2>2. PICK t \in 0..Never : receipt' = [receipt EXCEPT ![r] = t]
      <3>1. now[r] \in 0..Never /\ clock \in 0..Never
        BY EmptyTypes DEF TypeOK
      <3> QED BY <1>5, <3>1 DEF Deliver
    <2>3. TypeOK'
      <3>1. claim[r].message \in Messages
        BY <2>1 DEF TypeOK
      <3>2. sent' \in [Messages -> Nat]
        BY <1>5, <3>1 DEF Deliver, TypeOK
      <3>3. receipt' \in [Runs -> 0..Never]
        BY <2>2 DEF TypeOK
      <3>4. pc' \in [Runs -> {"idle", "begun", "claimed", "delivered", "failed"}]
        BY <1>5 DEF Deliver, TypeOK
      <3>5. \A q \in Runs : pc'[q] \notin {"idle", "begun"} => claim'[q].message \in Messages
        BY <1>5, <2>1, <3>1 DEF Deliver, TypeOK
      <3> QED BY <2>1, <3>2, <3>3, <3>4, <3>5 DEF TypeOK
    <2> QED BY <2>1, <2>3, ClaimsRest
  <1>6. ASSUME NEW r \in Runs, DeliveryFails(r) PROVE OutboxInv'
    <2>1. UNCHANGED <<clock, status, createdAt, updatedAt, lease, token, deliveredAt, now, claim,
                      receipt>> /\ pc[r] = "claimed"
      BY <1>6 DEF DeliveryFails, rowVars
    <2>2. TypeOK'
      <3>1. claim[r].message \in Messages
        BY <2>1 DEF TypeOK
      <3>2. sent' \in [Messages -> Nat]
        BY <1>6, <3>1 DEF DeliveryFails, TypeOK
      <3>3. transportFailures' \in 0..MaxFailures
        BY <1>6, OutboxBounds DEF DeliveryFails, TypeOK
      <3>4. pc' \in [Runs -> {"idle", "begun", "claimed", "delivered", "failed"}]
        BY <1>6 DEF DeliveryFails, TypeOK
      <3>5. \A q \in Runs : pc'[q] \notin {"idle", "begun"} => claim'[q].message \in Messages
        BY <1>6, <2>1, <3>1 DEF DeliveryFails, TypeOK
      <3> QED BY <2>1, <3>2, <3>3, <3>4, <3>5 DEF TypeOK
    <2> QED BY <2>1, <2>2, ClaimsRest
  <1> QED BY <1>1, <1>2, <1>3, <1>4, <1>5, <1>6

(* A row that is inserted has never been claimed. *)
LEMMA InsertKeeps ==
  ASSUME OutboxInv, NEW m \in Messages, InsertOutbox(m)
  PROVE  OutboxInv'
PROOF
  <1> USE DEF OutboxInv
  <1>1. PICK t \in 0..clock : /\ createdAt' = [createdAt EXCEPT ![m] = t]
                              /\ updatedAt' = [updatedAt EXCEPT ![m] = t]
    BY DEF InsertOutbox
  <1>2. /\ status[m] = "absent" /\ status' = [status EXCEPT ![m] = "pending"]
        /\ UNCHANGED <<clock, lease, token, deliveredAt, pc, now, claim, receipt, sent,
                       transportFailures>>
    BY DEF InsertOutbox, runVars, transportVars
  <1>3. t \in 0..MaxTime
    BY OutboxBounds DEF TypeOK
  <1>4. TypeOK'
    BY <1>1, <1>2, <1>3 DEF TypeOK
  <1>5. \A r \in Runs : ~On(r, m)
    BY <1>2 DEF ClaimsDated
  <1>6. ClaimsDated'
    BY <1>1, <1>2, <1>5 DEF ClaimsDated, On, TypeOK
  <1>7. (ClaimsUnique /\ OverlapOnlyAfterExpiry)'
    BY <1>2 DEF ClaimsUnique, On, OverlapOnlyAfterExpiry
  <1> QED BY <1>4, <1>6, <1>7

(* A new claim is newer than every other; those had all expired when it was
   made. *)
LEMMA ClaimKeeps ==
  ASSUME OutboxInv, NEW r \in Runs, ClaimOutbox(r)
  PROVE  OutboxInv'
PROOF
  <1> USE DEF OutboxInv
  <1> DEFINE t == now[r]
  <1> DEFINE fresh == [acquired |-> t, expires |-> t + LeaseTTL]
  <1>1. PICK m \in Messages :
          /\ IsHead(m, t) /\ ClaimTimeValid(m, t)
          /\ status' = [status EXCEPT ![m] = "leased"]
          /\ token' = [token EXCEPT ![m] = @ + 1]
          /\ lease' = [lease EXCEPT ![m] = fresh]
          /\ updatedAt' = [updatedAt EXCEPT ![m] = t]
          /\ claim' = [claim EXCEPT ![r] =
                         [message |-> m, token |-> token[m] + 1, lease |-> fresh]]
    BY DEF ClaimOutbox
  <1>2. /\ pc[r] = "begun" /\ pc' = [pc EXCEPT ![r] = "claimed"]
        /\ UNCHANGED <<clock, createdAt, deliveredAt, now, receipt, sent, transportFailures>>
    BY DEF ClaimOutbox, transportVars
  <1>3. /\ t \in 0..MaxTime /\ updatedAt[m] <= t
        /\ status[m] = "pending" \/ (status[m] = "leased" /\ lease[m].expires <= t)
    BY <1>1 DEF IsHead, Claimable, ClaimTimeValid, TypeOK
  <1>4. fresh \in Lease /\ fresh.acquired = t
    BY <1>3, EmptyTypes DEF Lease
  <1> HIDE DEF fresh
  <1>5. /\ claim'[r] = [message |-> m, token |-> token[m] + 1, lease |-> fresh]
        /\ \A q \in Runs \ {r} : claim'[q] = claim[q]
        /\ token'[m] = token[m] + 1 /\ updatedAt'[m] = t /\ status'[m] = "leased"
        /\ lease'[m] = fresh
        /\ \A o \in Messages \ {m} : /\ token'[o] = token[o] /\ updatedAt'[o] = updatedAt[o]
                                     /\ status'[o] = status[o] /\ lease'[o] = lease[o]
    BY <1>1 DEF TypeOK
  <1>6. /\ token[m] \in Nat /\ updatedAt[m] \in Nat /\ t \in Nat
        /\ \A q \in Runs : claim[q].token \in Nat /\ claim[q].lease.expires \in Nat
                           /\ claim[q].lease.acquired \in Nat
    BY <1>3 DEF TypeOK, Claim, Lease
  <1>7. TypeOK'
    <2>1. claim'[r] \in Claim
      BY <1>4, <1>5, <1>6 DEF Claim
    <2>2. claim' \in [Runs -> Claim]
      BY <1>1, <1>5, <2>1 DEF TypeOK
    <2>3. /\ token' \in [Messages -> Nat] /\ lease' \in [Messages -> Lease]
          /\ updatedAt' \in [Messages -> 0..MaxTime]
          /\ status' \in [Messages -> {"absent", "pending", "leased", "delivered"}]
      BY <1>1, <1>3, <1>4 DEF TypeOK
    <2>4. pc' \in [Runs -> {"idle", "begun", "claimed", "delivered", "failed"}]
      BY <1>2 DEF TypeOK
    <2>5. \A q \in Runs : pc'[q] \notin {"idle", "begun"} => claim'[q].message \in Messages
      BY <1>2, <1>5 DEF TypeOK
    <2> QED BY <1>2, <2>2, <2>3, <2>4, <2>5 DEF TypeOK
  <1>8. \A q \in Runs : On(q, m) => claim[q].token <= token[m] /\ claim[q].lease.expires <= t
    BY <1>3, <1>6 DEF ClaimsDated
  <1> HIDE DEF t
  <1>9. ClaimsDated'
    <2> SUFFICES ASSUME NEW q \in Runs, NEW o \in Messages, On(q, o)'
                 PROVE  /\ status'[o] # "absent"
                        /\ claim'[q].token <= token'[o]
                        /\ claim'[q].token = token'[o] =>
                             status'[o] = "leased" /\ lease'[o] = claim'[q].lease
                        /\ claim'[q].token < token'[o] => claim'[q].lease.expires <= updatedAt'[o]
      BY DEF ClaimsDated
    <2>1. CASE q = r
      BY <1>5, <1>6, <2>1 DEF On
    <2>2. CASE q # r /\ o = m
      BY <1>5, <1>6, <1>8, <2>2 DEF On
    <2>3. CASE q # r /\ o # m
      BY <1>5, <2>3 DEF On, ClaimsDated
    <2> QED BY <2>1, <2>2, <2>3
  <1>10. ClaimsUnique'
    <2> SUFFICES ASSUME NEW p \in Runs, NEW q \in Runs, NEW o \in Messages,
                        On(p, o)', On(q, o)', claim'[p].token = claim'[q].token, p # q
                 PROVE  FALSE
      BY DEF ClaimsUnique
    <2>1. CASE p # r /\ q # r
      BY <1>5, <2>1 DEF On, ClaimsUnique
    <2>2. CASE p = r
      BY <1>5, <1>6, <1>8, <2>2 DEF On
    <2>3. CASE q = r
      BY <1>5, <1>6, <1>8, <2>3 DEF On
    <2> QED BY <2>1, <2>2, <2>3
  <1>11. OverlapOnlyAfterExpiry'
    <2> SUFFICES ASSUME NEW p \in Runs, NEW q \in Runs,
                        claim'[p].message = claim'[q].message, claim'[p].message # 0,
                        claim'[p].token < claim'[q].token
                 PROVE  claim'[p].lease.expires <= claim'[q].lease.acquired
      BY DEF OverlapOnlyAfterExpiry
    <2>1. CASE p # r /\ q # r
      BY <1>5, <2>1 DEF OverlapOnlyAfterExpiry
    <2>2. CASE p = r /\ q = r
      BY <1>5, <1>6, <2>2
    <2>3. CASE p = r /\ q # r
      BY <1>5, <1>6, <1>8, <2>3 DEF On
    <2>4. CASE q = r /\ p # r
      BY <1>4, <1>5, <1>6, <1>8, <2>4 DEF On
    <2> QED BY <2>1, <2>2, <2>3, <2>4
  <1> QED BY <1>7, <1>9, <1>10, <1>11

(* The holder of a row writes it back and ends; it was the only one with the
   newest claim. *)
LEMMA WriteBackKeeps ==
  ASSUME OutboxInv, NEW r \in Runs, CompleteOutbox(r) \/ ReleaseOutbox(r)
  PROVE  OutboxInv'
PROOF
  <1> USE DEF OutboxInv
  <1>1. PICK m \in Messages : m = claim[r].message
    BY DEF CompleteOutbox, ReleaseOutbox, TypeOK
  <1>2. /\ LiveClaim(r) /\ EndRun(r)
        /\ lease' = [lease EXCEPT ![m] = NoLease]
        /\ updatedAt' = [updatedAt EXCEPT ![m] = now[r]]
        /\ UNCHANGED <<clock, createdAt, token, sent, transportFailures>>
    BY <1>1 DEF CompleteOutbox, ReleaseOutbox, transportVars
  <1>3. \E s \in {"pending", "delivered"} : status' = [status EXCEPT ![m] = s]
    BY <1>1 DEF CompleteOutbox, ReleaseOutbox
  <1>4. deliveredAt' \in [Messages -> 0..Never]
    BY <1>1 DEF CompleteOutbox, ReleaseOutbox, TypeOK
  <1>5. TypeOK'
    <2>1. /\ lease' \in [Messages -> Lease] /\ updatedAt' \in [Messages -> 0..MaxTime]
          /\ status' \in [Messages -> {"absent", "pending", "leased", "delivered"}]
      BY <1>2, <1>3, EmptyTypes DEF TypeOK
    <2> QED BY <1>2, <1>4, <2>1, EndTypes DEF TypeOK
  <1>6. /\ claim[r].token = token[m] /\ updatedAt[m] <= now[r] /\ On(r, m)
        /\ updatedAt[m] \in Nat /\ now[r] \in Nat /\ token[m] \in Nat
        /\ \A q \in Runs : claim[q].token \in Nat /\ claim[q].lease.expires \in Nat
    BY <1>1, <1>2 DEF LiveClaim, On, TypeOK, Claim, Lease
  <1>7. \A q \in Runs \ {r} : On(q, m) => claim[q].token < token[m]
    BY <1>6 DEF ClaimsDated, ClaimsUnique
  <1>8. /\ claim'[r].message = 0
        /\ \A q \in Runs \ {r} : claim'[q] = claim[q]
        /\ updatedAt'[m] = now[r] /\ status'[m] # "absent"
        /\ \A o \in Messages \ {m} : /\ updatedAt'[o] = updatedAt[o] /\ status'[o] = status[o]
                                     /\ lease'[o] = lease[o]
    BY <1>2, <1>3, EndTypes, EmptyTypes DEF TypeOK
  <1>9. ClaimsDated'
    <2> SUFFICES ASSUME NEW q \in Runs, NEW o \in Messages, On(q, o)'
                 PROVE  /\ status'[o] # "absent"
                        /\ claim'[q].token <= token'[o]
                        /\ claim'[q].token = token'[o] =>
                             status'[o] = "leased" /\ lease'[o] = claim'[q].lease
                        /\ claim'[q].token < token'[o] => claim'[q].lease.expires <= updatedAt'[o]
      BY DEF ClaimsDated
    <2>1. q # r
      BY <1>8, EmptyTypes DEF On
    <2>2. CASE o = m
      <3>1. claim[q].token < token[m] /\ claim[q].lease.expires <= updatedAt[m]
        BY <1>7, <1>8, <2>1, <2>2 DEF On, ClaimsDated
      <3> QED BY <1>2, <1>6, <1>8, <2>1, <2>2, <3>1
    <2>3. CASE o # m
      BY <1>2, <1>8, <2>1, <2>3 DEF On, ClaimsDated
    <2> QED BY <2>2, <2>3
  <1>10. ClaimsUnique'
    BY <1>8, EmptyTypes DEF On, ClaimsUnique
  <1>11. OverlapOnlyAfterExpiry'
    BY <1>8 DEF OverlapOnlyAfterExpiry
  <1> QED BY <1>5, <1>9, <1>10, <1>11

(* Every step preserves the invariant. *)
LEMMA OutboxStep == OutboxInv /\ [Next]_vars => OutboxInv'
PROOF
  BY RestKeeps, InsertKeeps, ClaimKeeps, WriteBackKeeps DEF Next, RunStep

(* The invariant of the outbox holds in every reachable state. *)
THEOREM OutboxInductive == Spec => []OutboxInv
PROOF
  <1>1. Init => OutboxInv
    BY OutboxInit
  <1>2. OutboxInv /\ [Next]_vars => OutboxInv'
    BY OutboxStep
  <1> QED BY <1>1, <1>2, PTL DEF Spec

(* claim_outbox gives a message to a second run only when the lease of the
   first had expired at the time the second was given. *)
THEOREM LeasesExclude == Spec => []OverlapOnlyAfterExpiry
PROOF
  <1>1. OutboxInv => OverlapOnlyAfterExpiry
    BY DEF OutboxInv
  <1> QED BY <1>1, OutboxInductive, PTL

(* complete_outbox and release_outbox write only for the run whose token is
   in the row, and a delivered row is never written again. *)
THEOREM HoldersWrite == Spec => OnlyHolderWrites
PROOF
  <1> DEFINE A == \A m \in Messages :
       /\ status[m] = "delivered" =>
            UNCHANGED <<status[m], deliveredAt[m], token[m], updatedAt[m]>>
       /\ status[m] = "leased" /\ status'[m] # "leased" =>
            \E r \in Runs : /\ claim[r].message = m
                            /\ claim[r].token = token[m]
                            /\ pc'[r] = "idle"
  <1>1. ASSUME OutboxInv, [Next]_vars PROVE [A]_vars
    <2>0. TypeOK
      BY <1>1 DEF OutboxInv
    <2> SUFFICES ASSUME NEW m \in Messages
                 PROVE  /\ status[m] = "delivered" =>
                             UNCHANGED <<status[m], deliveredAt[m], token[m], updatedAt[m]>>
                        /\ status[m] = "leased" /\ status'[m] # "leased" =>
                             \E r \in Runs : /\ claim[r].message = m
                                             /\ claim[r].token = token[m]
                                             /\ pc'[r] = "idle"
      OBVIOUS
    <2>1. CASE UNCHANGED <<status, deliveredAt, token, updatedAt>>
      BY <2>1
    <2>2. ASSUME NEW o \in Messages, InsertOutbox(o)
          PROVE  /\ status[m] = "delivered" =>
                      UNCHANGED <<status[m], deliveredAt[m], token[m], updatedAt[m]>>
                 /\ status[m] = "leased" => status'[m] = "leased"
      BY <2>0, <2>2 DEF InsertOutbox, TypeOK
    <2>3. ASSUME NEW r \in Runs, ClaimOutbox(r)
          PROVE  /\ status[m] = "delivered" =>
                      UNCHANGED <<status[m], deliveredAt[m], token[m], updatedAt[m]>>
                 /\ status[m] = "leased" => status'[m] = "leased"
      <3>1. PICK o \in Messages :
              /\ Claimable(o, now[r])
              /\ status' = [status EXCEPT ![o] = "leased"]
              /\ token' = [token EXCEPT ![o] = @ + 1]
              /\ updatedAt' = [updatedAt EXCEPT ![o] = now[r]]
        BY <2>3 DEF ClaimOutbox, IsHead
      <3>2. UNCHANGED deliveredAt
        BY <2>3 DEF ClaimOutbox
      <3> QED BY <2>0, <3>1, <3>2 DEF Claimable, TypeOK
    <2>4. ASSUME NEW r \in Runs, CompleteOutbox(r) \/ ReleaseOutbox(r)
          PROVE  /\ status[m] = "delivered" =>
                      UNCHANGED <<status[m], deliveredAt[m], token[m], updatedAt[m]>>
                 /\ status[m] = "leased" /\ status'[m] # "leased" =>
                      /\ claim[r].message = m /\ claim[r].token = token[m]
                      /\ pc'[r] = "idle"
      <3>1. claim[r].message \in Messages /\ LiveClaim(r) /\ UNCHANGED token
        BY <2>0, <2>4 DEF CompleteOutbox, ReleaseOutbox, TypeOK
      <3>2. pc'[r] = "idle"
        BY <2>0, <2>4 DEF CompleteOutbox, ReleaseOutbox, EndRun, TypeOK
      <3>3. \A o \in Messages \ {claim[r].message} :
              UNCHANGED <<status[o], deliveredAt[o], updatedAt[o]>>
        BY <2>0, <2>4, <3>1 DEF CompleteOutbox, ReleaseOutbox, TypeOK
      <3> QED BY <3>1, <3>2, <3>3 DEF LiveClaim
    <2>5. ASSUME NEW r \in Runs,
                 \/ BeginRun(r) \/ ClaimNothing(r) \/ Deliver(r) \/ DeliveryFails(r)
                 \/ RunRefused(r) \/ Crash(r)
          PROVE  UNCHANGED <<status, deliveredAt, token, updatedAt>>
      BY <2>5 DEF BeginRun, ClaimNothing, Deliver, DeliveryFails, RunRefused, Crash, rowVars
    <2>6. Tick \/ UNCHANGED vars => UNCHANGED <<status, deliveredAt, token, updatedAt>>
      BY DEF Tick, vars, rowVars
    <2> QED BY <1>1, <2>1, <2>2, <2>3, <2>4, <2>5, <2>6 DEF Next, RunStep
  <1>2. OutboxInv /\ [Next]_vars => [A]_vars
    BY <1>1
  <1> QED BY <1>2, OutboxInductive, PTL DEF Spec, OnlyHolderWrites
=============================================================================
