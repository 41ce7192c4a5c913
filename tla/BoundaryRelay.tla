---------------------------- MODULE BoundaryRelay ----------------------------
(***************************************************************************)
(* The relay of committed turns from the boundary store to the execution   *)
(* store (commands) and the follow-up store (handoffs): the relay queues   *)
(* of SQLiteBoundaryWorkerStore, BoundaryRelayWorker, and the idempotent   *)
(* ingress of the two targets.  Source and target are two databases; what  *)
(* one transaction does in one of them says nothing about the other.       *)
(*                                                                         *)
(* boundary_command_relays and the handoff rows of boundary_outbox have    *)
(* the same columns and the same claim, completion and release; a row is   *)
(* one relay of either table.  A run captures the time once, so its lease  *)
(* never looks expired to itself: only status and token protect a row.     *)
(***************************************************************************)
EXTENDS Naturals, FiniteSets

CONSTANTS
  Commands,       \* relay ids of commands; numbers, because SQL orders by id
  Handoffs,       \* job ids of handoff relays
  Turn,           \* [Commands \cup Handoffs -> aggregate_turn_id]
  Runs,           \* concurrent invocations of BoundaryRelayWorker.run_once
  MaxFailures,    \* releases before manual review (3)
  LeaseTTL,       \* lease_ttl
  MaxTime         \* bound: last instant of the clock

ASSUME RelayIds == Commands \subseteq Nat \ {0} /\ Handoffs \subseteq Nat \ {0}
ASSUME RelayTables == Commands \cap Handoffs = {}
ASSUME RelayBounds == MaxFailures \in Nat \ {0} /\ LeaseTTL \in Nat \ {0} /\ MaxTime \in Nat

VARIABLES
  clock,
  \* relay rows; fencing_token and claim_count are equal
  status, token, expires, failures,
  \* targets: ingress receipts, and how often a row's workflow was inserted
  receipt, inserted,
  \* one run_once per element of Runs
  pc, now, row, held

rowVars    == <<status, token, expires, failures>>
targetVars == <<receipt, inserted>>
runVars    == <<pc, now, row, held>>
vars       == <<clock, rowVars, targetVars, runVars>>

Rows  == Commands \cup Handoffs
Never == MaxTime + LeaseTTL + 1       \* a timestamp column that is NULL
Ended == {"acked", "manual_review"}

Init ==
  /\ clock = 0
  /\ status = [i \in Rows |-> "absent"]
  /\ token = [i \in Rows |-> 0]
  /\ expires = [i \in Rows |-> Never]
  /\ failures = [i \in Rows |-> 0]
  /\ receipt = [i \in Rows |-> FALSE]
  /\ inserted = [i \in Rows |-> 0]
  /\ pc = [r \in Runs |-> "idle"]
  /\ now = [r \in Runs |-> 0]
  /\ row = [r \in Runs |-> 0]
  /\ held = [r \in Runs |-> 0]

Tick ==
  /\ clock < MaxTime
  /\ clock' = clock + 1
  /\ UNCHANGED <<rowVars, targetVars, runVars>>

(* commit_turn_v8 inserts every relay of a turn together. *)
CommitTurn(t) ==
  /\ \A i \in Rows : Turn[i] = t => status[i] = "absent"
  /\ status' = [i \in Rows |-> IF Turn[i] = t THEN "pending" ELSE status[i]]
  /\ UNCHANGED <<clock, token, expires, failures, targetVars, runVars>>
-----------------------------------------------------------------------------
EndRun(r) ==
  /\ pc' = [pc EXCEPT ![r] = "idle"]
  /\ now' = [now EXCEPT ![r] = 0]
  /\ row' = [row EXCEPT ![r] = 0]
  /\ held' = [held EXCEPT ![r] = 0]

Goto(r, s) ==
  /\ pc' = [pc EXCEPT ![r] = s]
  /\ UNCHANGED <<now, row, held>>

BeginRun(r) ==
  /\ pc[r] = "idle"
  /\ pc' = [pc EXCEPT ![r] = "commands"]
  /\ now' = [now EXCEPT ![r] = clock]
  /\ UNCHANGED <<clock, rowVars, targetVars, row, held>>

Lapsed(table, t) == {i \in table : status[i] = "leased" /\ expires[i] <= t}

(* Mutant: only rows that were never leased are looked for. *)
AvailableOnce(table, t) == {i \in table : status[i] = "pending"}

Available(table, t) == {i \in table : status[i] = "pending"} \cup Lapsed(table, t)

(* Every lapsed lease of the table goes back to pending, then the lowest id
   is leased under the next token. *)
Take(r, table) ==
  LET avail == Available(table, now[r]) IN
  \E i \in avail :
    /\ \A m \in avail : i <= m
    /\ status' = [m \in Rows |-> IF m = i THEN "leased"
                                 ELSE IF m \in avail THEN "pending" ELSE status[m]]
    /\ expires' = [m \in Rows |-> IF m = i THEN now[r] + LeaseTTL
                                  ELSE IF m \in avail THEN Never ELSE expires[m]]
    /\ token' = [token EXCEPT ![i] = @ + 1]
    /\ row' = [row EXCEPT ![r] = i]
    /\ held' = [held EXCEPT ![r] = token[i] + 1]
    /\ pc' = [pc EXCEPT ![r] = "claimed"]
    /\ UNCHANGED <<clock, failures, targetVars, now>>

ClaimCommandRelay(r) == pc[r] = "commands" /\ Take(r, Commands)

(* Without a command relay the run looks for a handoff, in a transaction of
   its own. *)
NoCommandRelay(r) ==
  /\ pc[r] = "commands"
  /\ Available(Commands, now[r]) = {}
  /\ Goto(r, "handoffs")
  /\ UNCHANGED <<clock, rowVars, targetVars>>

ClaimInternalJob(r) == pc[r] = "handoffs" /\ Take(r, Handoffs)

NoInternalJob(r) ==
  /\ pc[r] = "handoffs"
  /\ Available(Handoffs, now[r]) = {}
  /\ EndRun(r)
  /\ UNCHANGED <<clock, rowVars, targetVars>>

(* Mutant: the claimed relay alone is handed over. *)
GroupOfOne(i) == {i}

(* load_command_relay_group: the whole turn of a command; a handoff goes
   alone *)
Group(i) == IF i \in Commands THEN {m \in Commands : Turn[m] = Turn[i]} ELSE {i}

(* Rows of the group without an ingress receipt; the others answer with the
   receipt they have. *)
Fresh(group) == {m \in group : ~receipt[m]}

(* accept_boundary_reservation_group, accept_boundary_handoff: one
   transaction of the target for the whole group *)
Accept(r) ==
  LET fresh == Fresh(Group(row[r])) IN
  /\ pc[r] = "claimed"
  /\ receipt' = [m \in Rows |-> receipt[m] \/ m \in fresh]
  /\ inserted' = [m \in Rows |-> IF m \in fresh THEN inserted[m] + 1 ELSE inserted[m]]
  /\ Goto(r, "accepted")
  /\ UNCHANGED <<clock, rowVars>>

(* An exception before or after the target's commit: the group cannot be
   loaded, the target refuses, the source is busy, the run is interrupted. *)
Fail(r) ==
  /\ pc[r] \in {"claimed", "accepted"}
  /\ Goto(r, "failing")
  /\ UNCHANGED <<clock, rowVars, targetVars>>

(* Mutant: whoever holds a token of the past may write as well. *)
HoldsAnyToken(r) == status[row[r]] = "leased"

(* WHERE status='leased' AND owner=? AND fencing_token=? *)
Holds(r) == status[row[r]] = "leased" /\ token[row[r]] = held[r]

Complete(r) ==
  /\ pc[r] = "accepted"
  /\ Holds(r)
  /\ status' = [status EXCEPT ![row[r]] = "acked"]
  /\ expires' = [expires EXCEPT ![row[r]] = Never]
  /\ EndRun(r)
  /\ UNCHANGED <<clock, token, failures, targetVars>>

CompletionLost(r) ==
  /\ pc[r] = "accepted"
  /\ ~Holds(r)
  /\ Goto(r, "failing")
  /\ UNCHANGED <<clock, rowVars, targetVars>>

AfterRelease(n) == IF n >= MaxFailures THEN "manual_review" ELSE "pending"

(* Any exception releases the claim and counts a failure, even when the
   target has accepted the relay. *)
Release(r) ==
  LET i == row[r] IN
  /\ pc[r] = "failing"
  /\ Holds(r)
  /\ failures' = [failures EXCEPT ![i] = @ + 1]
  /\ status' = [status EXCEPT ![i] = AfterRelease(failures[i] + 1)]
  /\ expires' = [expires EXCEPT ![i] = Never]
  /\ EndRun(r)
  /\ UNCHANGED <<clock, token, targetVars>>

ReleaseLost(r) ==
  /\ pc[r] = "failing"
  /\ ~Holds(r)
  /\ EndRun(r)
  /\ UNCHANGED <<clock, rowVars, targetVars>>

(* The process dies without a release.  Bound: only leases that lapse within
   MaxTime are orphaned. *)
Crash(r) ==
  /\ pc[r] \notin {"idle", "commands", "handoffs"}
  /\ now[r] + LeaseTTL <= MaxTime
  /\ EndRun(r)
  /\ UNCHANGED <<clock, rowVars, targetVars>>
-----------------------------------------------------------------------------
RunStep(r) ==
  \/ BeginRun(r)
  \/ ClaimCommandRelay(r)
  \/ NoCommandRelay(r)
  \/ ClaimInternalJob(r)
  \/ NoInternalJob(r)
  \/ Accept(r)
  \/ Fail(r)
  \/ Complete(r)
  \/ CompletionLost(r)
  \/ Release(r)
  \/ ReleaseLost(r)

Next ==
  \/ Tick
  \/ \E t \in {Turn[i] : i \in Rows} : CommitTurn(t)
  \/ \E r \in Runs : RunStep(r) \/ Crash(r)

Spec == Init /\ [][Next]_vars

(* Time passes and the worker cycle runs its queues again and again. *)
FairSpec ==
  /\ Spec
  /\ WF_vars(Tick)
  /\ \A r \in Runs : WF_vars(RunStep(r))
-----------------------------------------------------------------------------
(* Every column and every run holds a value of its type. *)
TypeOK ==
  /\ clock \in 0..MaxTime
  /\ status \in [Rows -> {"absent", "pending", "leased"} \cup Ended]
  /\ token \in [Rows -> Nat]
  /\ expires \in [Rows -> 0..Never]
  /\ failures \in [Rows -> 0..MaxFailures]
  /\ receipt \in [Rows -> BOOLEAN]
  /\ inserted \in [Rows -> Nat]
  /\ pc \in [Runs -> {"idle", "commands", "handoffs", "claimed", "accepted", "failing"}]
  /\ now \in [Runs -> 0..MaxTime]
  /\ row \in [Runs -> Rows \cup {0}]
  /\ held \in [Runs -> Nat]
  /\ \A r \in Runs : pc[r] \in {"claimed", "accepted", "failing"} => row[r] \in Rows

(* The execution store never sees part of a turn, nor a turn twice, although
   every relay of the turn hands over the whole of it, runs repeat what a
   crashed or overtaken run has done, and acknowledgements are lost; and an
   acknowledged relay has arrived. *)
TurnArrivesWhole ==
  /\ \A i \in Rows : inserted[i] <= 1 /\ (status[i] = "acked" => inserted[i] = 1)
  /\ \A i, m \in Commands : Turn[i] = Turn[m] => inserted[i] = inserted[m]

(* A row that a run has lost to another one is changed by the other only;
   an acknowledged or reviewed row never changes again. *)
OnlyHolderChanges ==
  [][\A i \in Rows :
       /\ status[i] \in Ended => status'[i] = status[i] /\ token'[i] = token[i]
       /\ status[i] = "leased" /\ status'[i] # "leased" =>
            \/ \E r \in Runs : row[r] = i /\ held[r] = token[i] /\ pc'[r] = "idle"
            \/ expires[i] <= clock]_vars

(* Every relay of a committed turn is acknowledged or left for review,
   whatever fails or dies on the way. *)
EveryRelayEnds ==
  \A i \in Rows : (status[i] = "pending") ~> (status[i] \in Ended)
=============================================================================
