--------------------------- MODULE OutboxDelivery ---------------------------
(***************************************************************************)
(* Delivery of the outbox of reservation_execution: claim_outbox,          *)
(* complete_outbox and release_outbox of SQLiteUnitOfWork, OutboxWorker,   *)
(* and an external transport.                                              *)
(*                                                                         *)
(* One action is one store transaction or one transport call.  run_once    *)
(* gets one time from its caller and uses it for the claim and for the     *)
(* completion; the run may stall anywhere in between.  An exception of a   *)
(* store method ends the run and leaves the row as it was.                 *)
(***************************************************************************)
EXTENDS Naturals, FiniteSets

CONSTANTS
  Messages,       \* message ids; numbers, because SQL orders by id
  Runs,           \* concurrent invocations of OutboxWorker.run_once
  LeaseTTL,       \* lease_ttl
  ReceiptDating,  \* clocks a transport may date receipts with
  MaxFailures,    \* bound: failed transport calls
  MaxTime         \* bound: last instant of the clock

ASSUME MessagesAssumption == Messages \subseteq Nat \ {0}
ASSUME LeaseAssumption == LeaseTTL \in Nat \ {0}
ASSUME DatingAssumption == ReceiptDating \subseteq {"caller", "transport"}
ASSUME OutboxBounds == MaxFailures \in Nat /\ MaxTime \in Nat

VARIABLES
  clock,
  \* outbox_messages; fencing_token and delivery_attempts are equal
  status, createdAt, updatedAt, lease, token, deliveredAt,
  \* one run_once per element of Runs
  pc, now, claim, receipt,
  sent,           \* transport: calls that reached the recipient
  transportFailures

rowVars == <<status, createdAt, updatedAt, lease, token, deliveredAt>>
runVars == <<pc, now, claim, receipt>>
transportVars == <<sent, transportFailures>>
vars == <<clock, rowVars, runVars, transportVars>>

Never   == MaxTime + LeaseTTL + 1     \* a timestamp column that is NULL
NoLease == [acquired |-> Never, expires |-> Never]
NoClaim == [message |-> 0, token |-> 0, lease |-> NoLease]
-----------------------------------------------------------------------------
Init ==
  /\ clock = 0
  /\ status = [m \in Messages |-> "absent"]
  /\ createdAt = [m \in Messages |-> 0]
  /\ updatedAt = [m \in Messages |-> 0]
  /\ lease = [m \in Messages |-> NoLease]
  /\ token = [m \in Messages |-> 0]
  /\ deliveredAt = [m \in Messages |-> Never]
  /\ pc = [r \in Runs |-> "idle"]
  /\ now = [r \in Runs |-> 0]
  /\ claim = [r \in Runs |-> NoClaim]
  /\ receipt = [r \in Runs |-> Never]
  /\ sent = [m \in Messages |-> 0]
  /\ transportFailures = 0

Tick ==
  /\ clock < MaxTime
  /\ clock' = clock + 1
  /\ UNCHANGED <<rowVars, runVars, transportVars>>

(* _insert_outbox, inside the transaction that records a summary or an
   outcome; created_at is the time of that event. *)
InsertOutbox(m) ==
  /\ status[m] = "absent"
  /\ status' = [status EXCEPT ![m] = "pending"]
  /\ \E t \in 0..clock : /\ createdAt' = [createdAt EXCEPT ![m] = t]
                         /\ updatedAt' = [updatedAt EXCEPT ![m] = t]
  /\ UNCHANGED <<clock, lease, token, deliveredAt, runVars, transportVars>>
-----------------------------------------------------------------------------
EndRun(r) ==
  /\ pc' = [pc EXCEPT ![r] = "idle"]
  /\ now' = [now EXCEPT ![r] = 0]
  /\ claim' = [claim EXCEPT ![r] = NoClaim]
  /\ receipt' = [receipt EXCEPT ![r] = Never]

BeginRun(r) ==
  /\ pc[r] = "idle"
  /\ pc' = [pc EXCEPT ![r] = "begun"]
  /\ now' = [now EXCEPT ![r] = clock]
  /\ UNCHANGED <<clock, rowVars, claim, receipt, transportVars>>

(* Mutant: the query forgets rows whose lease was orphaned. *)
ClaimablePending(m, t) == status[m] = "pending"

(* Mutant: the query takes leased rows whether or not the lease has expired. *)
ClaimableLeased(m, t) == status[m] \in {"pending", "leased"}

Claimable(m, t) ==
  \/ status[m] = "pending"
  \/ status[m] = "leased" /\ lease[m].expires <= t

(* ORDER BY created_at, message_id LIMIT 1 *)
IsHead(m, t) ==
  /\ Claimable(m, t)
  /\ \A o \in Messages :
       Claimable(o, t) => \/ createdAt[m] < createdAt[o]
                          \/ createdAt[m] = createdAt[o] /\ m <= o

ClaimTimeValid(m, t) == t >= createdAt[m] /\ t >= updatedAt[m]

(* Nothing eligible, or the head is newer than the caller's time. *)
ClaimNothing(r) ==
  /\ pc[r] = "begun"
  /\ \A m \in Messages : IsHead(m, now[r]) => ~ClaimTimeValid(m, now[r])
  /\ EndRun(r)
  /\ UNCHANGED <<clock, rowVars, transportVars>>

ClaimOutbox(r) ==
  LET t     == now[r]
      fresh == [acquired |-> t, expires |-> t + LeaseTTL]
  IN
  /\ pc[r] = "begun"
  /\ \E m \in Messages :
       /\ IsHead(m, t)
       /\ ClaimTimeValid(m, t)
       /\ status' = [status EXCEPT ![m] = "leased"]
       /\ token' = [token EXCEPT ![m] = @ + 1]
       /\ lease' = [lease EXCEPT ![m] = fresh]
       /\ updatedAt' = [updatedAt EXCEPT ![m] = t]
       /\ claim' = [claim EXCEPT ![r] =
                      [message |-> m, token |-> token[m] + 1, lease |-> fresh]]
  /\ pc' = [pc EXCEPT ![r] = "claimed"]
  /\ UNCHANGED <<clock, createdAt, deliveredAt, now, receipt, transportVars>>

(* deliver returns a receipt: the message reached its recipient *)
Deliver(r) ==
  /\ pc[r] = "claimed"
  /\ sent' = [sent EXCEPT ![claim[r].message] = @ + 1]
  /\ \E dating \in ReceiptDating :
       receipt' = [receipt EXCEPT ![r] = IF dating = "caller" THEN now[r] ELSE clock]
  /\ pc' = [pc EXCEPT ![r] = "delivered"]
  /\ UNCHANGED <<clock, rowVars, now, claim, transportFailures>>

(* deliver raises: the message was lost, or only its answer was *)
DeliveryFails(r) ==
  /\ pc[r] = "claimed"
  /\ transportFailures < MaxFailures
  /\ transportFailures' = transportFailures + 1
  /\ \E arrived \in BOOLEAN :
       sent' = [sent EXCEPT ![claim[r].message] = IF arrived THEN @ + 1 ELSE @]
  /\ pc' = [pc EXCEPT ![r] = "failed"]
  /\ UNCHANGED <<clock, rowVars, now, claim, receipt>>

(* Mutant: the token is not compared, only that somebody holds a lease. *)
LiveClaimAnyToken(r) ==
  /\ status[claim[r].message] = "leased"
  /\ now[r] < claim[r].lease.expires

(* _assert_live_outbox_claim *)
LiveClaim(r) ==
  LET m == claim[r].message IN
  /\ status[m] = "leased"
  /\ lease[m] = claim[r].lease
  /\ token[m] = claim[r].token
  /\ updatedAt[m] = claim[r].lease.acquired
  /\ now[r] >= updatedAt[m]
  /\ now[r] < claim[r].lease.expires

(* The receipt's date against the completion time and the claim *)
ReceiptDateValid(r) == claim[r].lease.acquired <= receipt[r] /\ receipt[r] <= now[r]

CompleteOutbox(r) ==
  LET m == claim[r].message IN
  /\ pc[r] = "delivered"
  /\ LiveClaim(r)
  /\ ReceiptDateValid(r)
  /\ status' = [status EXCEPT ![m] = "delivered"]
  /\ lease' = [lease EXCEPT ![m] = NoLease]
  /\ deliveredAt' = [deliveredAt EXCEPT ![m] = receipt[r]]
  /\ updatedAt' = [updatedAt EXCEPT ![m] = now[r]]
  /\ EndRun(r)
  /\ UNCHANGED <<clock, createdAt, token, transportVars>>

ReleaseOutbox(r) ==
  LET m == claim[r].message IN
  /\ pc[r] = "failed"
  /\ LiveClaim(r)
  /\ status' = [status EXCEPT ![m] = "pending"]
  /\ lease' = [lease EXCEPT ![m] = NoLease]
  /\ updatedAt' = [updatedAt EXCEPT ![m] = now[r]]
  /\ EndRun(r)
  /\ UNCHANGED <<clock, createdAt, token, deliveredAt, transportVars>>

(* The claim is stale, the receipt is refused, or the row is delivered
   already: answered or raised without a write. *)
RunRefused(r) ==
  /\ \/ pc[r] = "delivered" /\ ~(LiveClaim(r) /\ ReceiptDateValid(r))
     \/ pc[r] = "failed" /\ ~LiveClaim(r)
  /\ EndRun(r)
  /\ UNCHANGED <<clock, rowVars, transportVars>>

(* The process dies.  Bound: only leases that expire within MaxTime are
   orphaned, so that the model sees them taken over. *)
Crash(r) ==
  /\ pc[r] \notin {"idle", "begun"}
  /\ claim[r].lease.expires <= MaxTime
  /\ EndRun(r)
  /\ UNCHANGED <<clock, rowVars, transportVars>>
-----------------------------------------------------------------------------
RunStep(r) ==
  \/ BeginRun(r)
  \/ ClaimNothing(r)
  \/ ClaimOutbox(r)
  \/ Deliver(r)
  \/ DeliveryFails(r)
  \/ CompleteOutbox(r)
  \/ ReleaseOutbox(r)
  \/ RunRefused(r)

Next ==
  \/ Tick
  \/ \E m \in Messages : InsertOutbox(m)
  \/ \E r \in Runs : RunStep(r) \/ Crash(r)

Spec == Init /\ [][Next]_vars

(* Time passes and the caller polls run_once for ever. *)
FairSpec == Spec /\ WF_vars(Tick) /\ \A r \in Runs : WF_vars(RunStep(r))
-----------------------------------------------------------------------------
Lease == [acquired : 0..Never, expires : 0..Never]
Claim == [message : Messages \cup {0}, token : Nat, lease : Lease]

(* Every column and every run holds a value of its type; a run that works
   holds the claim of a message. *)
TypeOK ==
  /\ clock \in 0..MaxTime
  /\ status \in [Messages -> {"absent", "pending", "leased", "delivered"}]
  /\ createdAt \in [Messages -> 0..MaxTime]
  /\ updatedAt \in [Messages -> 0..MaxTime]
  /\ lease \in [Messages -> Lease]
  /\ token \in [Messages -> Nat]
  /\ deliveredAt \in [Messages -> 0..Never]
  /\ pc \in [Runs -> {"idle", "begun", "claimed", "delivered", "failed"}]
  /\ now \in [Runs -> 0..MaxTime]
  /\ claim \in [Runs -> Claim]
  /\ receipt \in [Runs -> 0..Never]
  /\ sent \in [Messages -> Nat]
  /\ transportFailures \in 0..MaxFailures
  /\ \A r \in Runs : pc[r] \notin {"idle", "begun"} => claim[r].message \in Messages

(* Two runs work on one message only when the lease of the earlier one had
   expired at the time the later one was given: live leases exclude. *)
OverlapOnlyAfterExpiry ==
  \A r, q \in Runs :
    /\ claim[r].message = claim[q].message
    /\ claim[r].message # 0
    /\ claim[r].token < claim[q].token
    => claim[r].lease.expires <= claim[q].lease.acquired

(* A delivered row is final, and a lease is given back or completed only by
   the run that holds its token: a run that was overtaken never writes. *)
OnlyHolderWrites ==
  [][\A m \in Messages :
       /\ status[m] = "delivered" =>
            UNCHANGED <<status[m], deliveredAt[m], token[m], updatedAt[m]>>
       /\ status[m] = "leased" /\ status'[m] # "leased" =>
            \E r \in Runs : /\ claim[r].message = m
                            /\ claim[r].token = token[m]
                            /\ pc'[r] = "idle"]_vars

(* Every message of the outbox is eventually delivered, although runs crash,
   stall past their lease or lose the transport's answer; unless the transport
   dates receipts after the run's captured time again and again, for such a
   receipt of a live claim cannot be recorded. *)
EveryMessageDelivered ==
  \/ []<>(\E r \in Runs : pc[r] = "delivered" /\ LiveClaim(r) /\ ~ReceiptDateValid(r))
  \/ \A m \in Messages : (status[m] = "pending") ~> (status[m] = "delivered")
=============================================================================
