---------------------------- MODULE CapacityIntents ----------------------------
(***************************************************************************)
(* What the coordinator asks of the compute provider: the intent of an     *)
(* allocation (hosted_capacity_intents) and the demand signals             *)
(* (hosted_capacity_signals), as rows that are leased, tried, answered and *)
(* tried again (postgres-hosted-store.ts). A row names the operation it    *)
(* stands for by its idempotency key; an intent passes from one operation  *)
(* to the next, a signal keeps its own. Waiting times are left out: what   *)
(* may be tried is tried by the next run.                                  *)
(***************************************************************************)
EXTENDS Naturals, FiniteSets

CONSTANTS
  Keys,         \* operations requested for the allocation
  Signals,      \* windows of queue demand, each the key of its signal
  Allocation,   \* the one allocation
  NoKey,
  MaxAttempts   \* max_attempts

ASSUME KeysAssumption ==
  Keys \cap Signals = {} /\ NoKey \notin Keys \cup Signals /\ Allocation \notin Signals
ASSUME AttemptsAssumption == MaxAttempts \in Nat \ {0}

VARIABLES
  task,   \* the intent's row and the rows of the signals
  past    \* hosted_capacity_operations: the keys the allocation has had

Tasks == {Allocation} \cup Signals
NoTask == [key |-> NoKey, status |-> "none", attempts |-> 0, token |-> 0, live |-> FALSE]

IntentsInit == task = [t \in Tasks |-> NoTask] /\ past = {}

Answers == {"APPLIED", "PENDING", "RETRY", "PERMANENT"}

(* reconcileCapacity: a key used before is a replay and changes nothing; a new one
   names the key the row has and starts the row afresh, its lease token excepted *)
RequestIntent(k, previous) ==
  /\ k \notin past
  /\ previous = task[Allocation].key
  /\ past' = past \cup {k}
  /\ task' = [task EXCEPT ![Allocation] =
                [NoTask EXCEPT !.key = k, !.status = "PENDING", !.token = task[Allocation].token]]

(* leaseCapacityExecutions, leaseCapacityDemandSignal *)
NeverReclaimed(r) == r.attempts < MaxAttempts /\ r.status \in {"PENDING", "RETRY"}
Tryable(r) ==
  /\ r.attempts < MaxAttempts
  /\ r.status \in {"PENDING", "RETRY"} \/ (r.status = "LEASED" /\ ~r.live)

Tried(n) == n + 1

LeasedRow(r) ==
  [r EXCEPT !.status = "LEASED", !.live = TRUE, !.token = @ + 1, !.attempts = Tried(@)]

LeaseOf(t, rows) == [of |-> t, key |-> rows[t].key, token |-> rows[t].token]

(* the row that a worker asks to write is still leased to it *)
TokenFits(r, lease) == r.token = lease.token
Holds(r, lease) == r.status = "LEASED" /\ r.live /\ r.token = lease.token

(* complete... on APPLIED and PENDING, fail... on a provider's error; a signal has no
   PENDING answer *)
Status(attempts, answer, success) ==
  CASE answer = "APPLIED" -> success
    [] answer = "PENDING" -> "RETRY"
    [] answer = "RETRY" -> IF attempts >= MaxAttempts THEN "FAILED" ELSE "RETRY"
    [] answer = "PERMANENT" -> "FAILED"

Answered(r, answer, success) ==
  [r EXCEPT !.status = Status(r.attempts, answer, success), !.live = FALSE]

(* the clock passes lease_expires_at *)
ExpireTask(t) ==
  /\ task[t].live
  /\ task' = [task EXCEPT ![t].live = FALSE]
  /\ UNCHANGED past
=============================================================================
