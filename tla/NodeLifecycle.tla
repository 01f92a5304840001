----------------------------- MODULE NodeLifecycle -----------------------------
(***************************************************************************)
(* Draining and retiring one prove node (postgres-hosted-store.ts,         *)
(* hosted_node_lifecycle_operations): the provider starts the drain or the *)
(* retirement on L1, and the operation is applied when its event is a      *)
(* canonical fact at or below the floor. Operations are numbered in the    *)
(* order of their creation, the number stands for the idempotency key.     *)
(***************************************************************************)
EXTENDS CapacityIntents, Sequences

CONSTANTS
  MaxOps,         \* bound: operations requested
  MaxBlocks,      \* bound: blocks an event is ever mined in
  MaxSurprises    \* bound: rewrites below the floor

ASSUME OpsAssumption == MaxOps \in Nat

VARIABLES
  op,          \* hosted_node_lifecycle_operations of the node, in order of creation
  active,      \* hosted_provider_nodes.active
  fact,        \* of each operation: the canonical fact of its event
  surprises

lifecycle == <<op, active, fact, surprises>>

Ops == 1 .. MaxOps
NoFact == [block |-> 0, final |-> FALSE]

LifecycleInit ==
  op = <<>> /\ active = TRUE /\ fact = [o \in Ops |-> NoFact] /\ surprises = 0

Unfinished == {"PENDING", "LEASED", "RETRY", "VERIFYING", "RECOVERY_REQUIRED"}

(* hosted_node_lifecycle_active_idx: a node has one unfinished operation *)
OneUnfinished(rows) == Cardinality({o \in DOMAIN rows : rows[o].status \in Unfinished}) <= 1

NewOp(state) == [state |-> state, status |-> "PENDING", attempts |-> 0, live |-> FALSE, bound |-> 0]

(* the drain a retirement names is applied and its fact still the canonical one *)
Drained(d) ==
  /\ op[d].state = "DRAINING" /\ op[d].status = "APPLIED"
  /\ fact[d].final /\ fact[d].block = op[d].bound

(* requestNodeLifecycle *)
RequestOp(state, previous) ==
  /\ Len(op) < MaxOps
  /\ \A o \in DOMAIN op : ~(op[o].state = "RETIRED" /\ op[o].status = "APPLIED")
  /\ state = "RETIRED" => Drained(previous)
  /\ op' = Append(op, NewOp(state))
  /\ OneUnfinished(op')
  /\ active' = (active /\ state # "DRAINING")
  /\ UNCHANGED <<fact, surprises>>

(* assignProviderNode *)
Assign ==
  /\ \E b \in BOOLEAN : active' = b /\ b # active
  /\ UNCHANGED <<op, fact, surprises>>

-----------------------------------------------------------------------------
(* leaseNodeLifecycleExecutions: the leases that ran out, then the lease *)
SweptOp(r) ==
  IF r.status = "LEASED" /\ ~r.live
  THEN [r EXCEPT !.status = IF r.attempts >= MaxAttempts THEN "FAILED" ELSE "RETRY"]
  ELSE r

LeasedOp(r) ==
  IF r.status \in {"PENDING", "RETRY"}
  THEN [r EXCEPT !.status = "LEASED", !.live = TRUE, !.attempts = @ + 1]
  ELSE r

LeaseOps ==
  /\ op' = [o \in DOMAIN op |-> LeasedOp(SweptOp(op[o]))]
  /\ UNCHANGED <<active, fact, surprises>>

(* lease_token is the number of the attempt *)
HoldsOp(r, lease) == r.status = "LEASED" /\ r.live /\ r.attempts = lease.token

(* completeNodeLifecycleExecution, failNodeLifecycleExecution *)
AnsweredOp(r, answer) ==
  [r EXCEPT !.status = Status(r.attempts, answer, "VERIFYING"), !.live = FALSE]

ExpireOp(o) ==
  /\ op[o].live
  /\ op' = [op EXCEPT ![o].live = FALSE]
  /\ UNCHANGED <<active, fact, surprises>>

-----------------------------------------------------------------------------
(* reconcileNodeLifecycleFacts, row by row in order of creation *)
Verified(o) ==
  CASE op[o].status \in {"VERIFYING", "APPLIED", "RECOVERY_REQUIRED"} /\ fact[o].final ->
         [op[o] EXCEPT !.status = "APPLIED", !.bound = fact[o].block]
    [] op[o].status = "APPLIED" /\ ~fact[o].final ->
         [op[o] EXCEPT !.status = "RECOVERY_REQUIRED", !.bound = 0]
    [] OTHER -> op[o]

VerifiedThrough(n) == [o \in DOMAIN op |-> IF o <= n THEN Verified(o) ELSE op[o]]

(* one row at a time meets the unique index: the transaction throws *)
Jammed == \E n \in DOMAIN op : ~OneUnfinished(VerifiedThrough(n))

ReconcileFacts ==
  /\ ~Jammed
  /\ op' = VerifiedThrough(Len(op))
  /\ UNCHANGED <<active, fact, surprises>>

-----------------------------------------------------------------------------
(* L1 and the index: an operation the provider carried out has an event. The
   registry retires only a node that drains, and drains it once. *)
DrainFacts == {d \in DOMAIN op : op[d].state = "DRAINING" /\ fact[d].block # 0}
Mineable(o) == IF op[o].state = "RETIRED" THEN DrainFacts # {} ELSE DrainFacts = {}

IngestEvent(o) ==
  /\ o \in DOMAIN op /\ fact[o].block = 0 /\ Mineable(o)
  /\ \E b \in 1 .. MaxBlocks : fact' = [fact EXCEPT ![o] = [block |-> b, final |-> FALSE]]
  /\ UNCHANGED <<op, active, surprises>>

FloorPasses(o) ==
  /\ fact[o].block # 0 /\ ~fact[o].final
  /\ op[o].state = "RETIRED" => \A d \in DrainFacts : fact[d].final
  /\ fact' = [fact EXCEPT ![o].final = TRUE]
  /\ UNCHANGED <<op, active, surprises>>

(* with the drain goes the retirement that followed it *)
Drop(o) ==
  LET gone == IF op[o].state = "DRAINING" THEN Ops ELSE {o}
  IN fact' = [p \in Ops |-> IF p \in gone THEN NoFact ELSE fact[p]]

(* a rollback above the floor, and a recovery below it *)
RollbackEvents(o) ==
  /\ fact[o].block # 0 /\ ~fact[o].final
  /\ Drop(o)
  /\ UNCHANGED <<op, active, surprises>>

SurpriseEvents(o) ==
  /\ fact[o].final /\ surprises < MaxSurprises
  /\ surprises' = surprises + 1
  /\ Drop(o)
  /\ UNCHANGED <<op, active>>
=============================================================================
