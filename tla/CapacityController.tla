-------------------------- MODULE CapacityController ---------------------------
(***************************************************************************)
(* The capacity worker (capacity-controller.ts, hosted-capacity-worker.ts) *)
(* over the provider's intents, demand signals and node operations. A run  *)
(* of processOnce is a sequence of stages; between the transactions of the *)
(* store stand the calls to the provider, during which leases run out, the *)
(* API supersedes an intent, the component passes to another worker or the *)
(* process dies. Every transaction first asserts the fence of the          *)
(* component's current delegation, here: the worker is the delegate.       *)
(***************************************************************************)
EXTENDS NodeLifecycle

CONSTANTS
  CapacityWorkers, FirstWorker,
  NoLease, NoAnswer,
  Loads,          \* bounds: the intents, signals and node operations requested, whether the
                  \* node is assigned anew, the PENDING answers to one operation
  MaxFaults       \* bound: takeovers and crashes

(* an operation of a node is named by its number, and by nothing else *)
ASSUME NamesAssumption ==
  /\ \A k \in Keys \cup Signals \cup {Allocation} : k \notin Nat
  /\ NoLease \notin [of : Tasks \cup Ops, key : Keys \cup Signals \cup Ops, token : Nat]
ASSUME WorkersAssumption == IsFiniteSet(CapacityWorkers)
ASSUME LoadsAssumption ==
  Loads \subseteq [keys : SUBSET Keys, signals : SUBSET Signals, ops : Nat, assign : BOOLEAN, waits : Nat]

VARIABLES
  delegate,   \* the worker the component is delegated to
  run,        \* of each worker: stage, leases not yet served, the call in flight
  done,       \* provider: the operations it carried out
  calls,      \* provider: calls received for each intent and signal
  postponed,  \* provider: PENDING answers given for each operation
  load, faults

provider == <<done, calls, postponed>>
vars == <<task, past, op, active, fact, surprises, delegate, run, done, calls, postponed, load, faults>>

Stages == {"idle", "signal", "intents", "reconcile", "nodes"}
NoRun == [stage |-> "idle", batch |-> {}, doing |-> NoLease, answer |-> NoAnswer]
Operations == Keys \cup Signals \cup Ops

Init ==
  /\ IntentsInit /\ LifecycleInit
  /\ delegate = FirstWorker /\ run = [w \in CapacityWorkers |-> NoRun]
  /\ done = {} /\ calls = [k \in Keys \cup Signals |-> 0] /\ postponed = [k \in Operations |-> 0]
  /\ load \in Loads /\ faults = 0

-----------------------------------------------------------------------------
Enter(w, stage, batch) ==
  run' = [run EXCEPT ![w] = [NoRun EXCEPT !.stage = stage, !.batch = batch]]

(* assertFence or writableFence throws, or a lease is lost: tick catches it *)
AbortRun(w) == run' = [run EXCEPT ![w] = NoRun]

Between(w, stage) == run[w].stage = stage /\ run[w].batch = {} /\ run[w].doing = NoLease

(* leaseCapacityDemandSignal: a new window freezes a signal, and one is leased *)
WithWindow(new) ==
  [t \in Tasks |-> IF t \in new THEN [NoTask EXCEPT !.key = t, !.status = "PENDING"] ELSE task[t]]

BeginRun(w) ==
  /\ Between(w, "idle") /\ w = delegate
  /\ \E new \in {{}} \cup {{s} : s \in {t \in load.signals : task[t].status = "none"}} :
       LET rows == WithWindow(new)
           ready == {s \in Signals : Tryable(rows[s])}
       IN \/ /\ ready = {}
             /\ task' = rows
             /\ Enter(w, "signal", {})
          \/ \E s \in ready :
               /\ task' = [rows EXCEPT ![s] = LeasedRow(@)]
               /\ Enter(w, "signal", {LeaseOf(s, task')})
  /\ UNCHANGED <<past, lifecycle, delegate, provider, load, faults>>

(* leaseCapacityExecutions *)
LeaseIntents(w) ==
  /\ Between(w, "signal")
  /\ IF w # delegate
     THEN AbortRun(w) /\ UNCHANGED task
     ELSE IF Tryable(task[Allocation])
     THEN /\ task' = [task EXCEPT ![Allocation] = LeasedRow(@)]
          /\ Enter(w, "intents", {LeaseOf(Allocation, task')})
     ELSE Enter(w, "intents", {}) /\ UNCHANGED task
  /\ UNCHANGED <<past, lifecycle, delegate, provider, load, faults>>

Reconcile(w) ==
  /\ Between(w, "intents")
  /\ IF w = delegate /\ ~Jammed
     THEN ReconcileFacts /\ Enter(w, "reconcile", {})
     ELSE AbortRun(w) /\ UNCHANGED lifecycle
  /\ UNCHANGED <<task, past, delegate, provider, load, faults>>

LeaseNodes(w) ==
  /\ Between(w, "reconcile")
  /\ IF w = delegate
     THEN /\ LeaseOps
          /\ Enter(w, "nodes", {[of |-> o, key |-> o, token |-> op'[o].attempts] :
                                   o \in {p \in DOMAIN op : op'[p] # SweptOp(op[p])}})
     ELSE AbortRun(w) /\ UNCHANGED lifecycle
  /\ UNCHANGED <<task, past, delegate, provider, load, faults>>

EndRun(w) ==
  /\ Between(w, "nodes")
  /\ AbortRun(w)
  /\ UNCHANGED <<task, past, lifecycle, delegate, provider, load, faults>>

(* HttpCapacityProvider: the provider acts on the key and answers, or the answer is
   lost or refused by the adapter's checks *)
Call(w) ==
  \E l \in run[w].batch, answer \in Answers :
    /\ run[w].doing = NoLease
    /\ answer = "PENDING" => l.of \notin Signals /\ postponed[l.key] < load.waits
    /\ calls' = [k \in DOMAIN calls |-> IF k = l.key THEN calls[k] + 1 ELSE calls[k]]
    /\ postponed' = [postponed EXCEPT ![l.key] = IF answer = "PENDING" THEN @ + 1 ELSE @]
    /\ \/ done' = done \cup {l.key}
       \/ answer # "APPLIED" /\ UNCHANGED done
    /\ run' = [run EXCEPT ![w].batch = @ \ {l}, ![w].doing = l, ![w].answer = answer]
    /\ UNCHANGED <<task, past, lifecycle, delegate, load, faults>>

(* complete... or fail... *)
Success(t) == IF t = Allocation THEN "APPLIED" ELSE "SENT"

Report(w) ==
  LET l == run[w].doing
  IN /\ l # NoLease
     /\ \/ /\ w = delegate /\ l.of \in Tasks /\ Holds(task[l.of], l)
           /\ task' = [task EXCEPT ![l.of] = Answered(@, run[w].answer, Success(l.of))]
           /\ run' = [run EXCEPT ![w].doing = NoLease, ![w].answer = NoAnswer]
           /\ UNCHANGED lifecycle
        \/ /\ w = delegate /\ l.of \in Ops /\ HoldsOp(op[l.of], l)
           /\ op' = [op EXCEPT ![l.of] = AnsweredOp(@, run[w].answer)]
           /\ run' = [run EXCEPT ![w].doing = NoLease, ![w].answer = NoAnswer]
           /\ UNCHANGED <<task, active, fact, surprises>>
        \/ /\ ~(w = delegate /\ IF l.of \in Tasks THEN Holds(task[l.of], l) ELSE HoldsOp(op[l.of], l))
           /\ AbortRun(w)
           /\ UNCHANGED <<task, lifecycle>>
     /\ UNCHANGED <<past, delegate, provider, load, faults>>

-----------------------------------------------------------------------------
(* the component's delegation passes to another worker; a process dies *)
TakeOver(w) ==
  /\ faults < MaxFaults /\ w # delegate
  /\ delegate' = w /\ faults' = faults + 1
  /\ UNCHANGED <<task, past, lifecycle, run, provider, load>>

RunDies(w) ==
  /\ faults < MaxFaults /\ run[w] # NoRun
  /\ AbortRun(w) /\ faults' = faults + 1
  /\ UNCHANGED <<task, past, lifecycle, delegate, provider, load>>

Keep == UNCHANGED <<delegate, run, provider, load, faults>>
Clients == (\E k \in load.keys, p \in Keys \cup {NoKey} : RequestIntent(k, p)) /\ UNCHANGED lifecycle /\ Keep
Admins ==
  /\ \/ /\ Len(op) < load.ops
        /\ RequestOp("DRAINING", 0) \/ \E d \in DOMAIN op : RequestOp("RETIRED", d)
     \/ load.assign /\ Assign
  /\ UNCHANGED <<task, past>> /\ Keep
TaskClock(t) == ExpireTask(t) /\ UNCHANGED lifecycle /\ Keep
OpClock(o) == o \in DOMAIN op /\ ExpireOp(o) /\ UNCHANGED <<task, past>> /\ Keep
Chain ==
  /\ \E o \in Ops : (o \in done /\ IngestEvent(o)) \/ FloorPasses(o) \/ RollbackEvents(o) \/ SurpriseEvents(o)
  /\ UNCHANGED <<task, past>> /\ Keep

Worker(w) ==
  BeginRun(w) \/ LeaseIntents(w) \/ Reconcile(w) \/ LeaseNodes(w) \/ EndRun(w) \/ Call(w) \/ Report(w)

Next ==
  \/ \E w \in CapacityWorkers : Worker(w) \/ TakeOver(w) \/ RunDies(w)
  \/ Clients \/ Admins \/ Chain
  \/ \E t \in Tasks : TaskClock(t)
  \/ \E o \in Ops : OpClock(o)

Spec == Init /\ [][Next]_vars

(* A live process goes on ticking, and time passes. *)
FairSpec ==
  /\ Spec
  /\ \A w \in CapacityWorkers : WF_vars(Worker(w))
  /\ \A t \in Tasks : WF_vars(TaskClock(t))
  /\ \A o \in Ops : WF_vars(OpClock(o))
-----------------------------------------------------------------------------
TypeOK ==
  /\ task \in [Tasks -> [key: Keys \cup Signals \cup {NoKey}, attempts: 0 .. MaxAttempts, token: Nat, live: BOOLEAN,
                        status: {"none", "PENDING", "LEASED", "RETRY", "APPLIED", "SENT", "FAILED"}]]
  /\ past \subseteq Keys
  /\ op \in Seq([state: {"DRAINING", "RETIRED"}, attempts: Nat, live: BOOLEAN, bound: 0 .. MaxBlocks,
                 status: Unfinished \cup {"APPLIED", "FAILED"}])
  /\ active \in BOOLEAN
  /\ fact \in [Ops -> [block: 0 .. MaxBlocks, final: BOOLEAN]]
  /\ delegate \in CapacityWorkers /\ load \in Loads
  /\ run \in [CapacityWorkers -> [stage: Stages, answer: Answers \cup {NoAnswer},
                          batch: SUBSET [of: Tasks \cup Ops, key: Operations, token: Nat],
                          doing: [of: Tasks \cup Ops, key: Operations, token: Nat] \cup {NoLease}]]
  /\ done \subseteq Operations /\ calls \in [Keys \cup Signals -> Nat] /\ postponed \in [Operations -> Nat]

(* The provider is called for an intent or a signal at most max_attempts times, also
   when workers die between the lease and the answer and when the key is superseded
   under a call (leaseCapacityExecutions counts the attempt with the lease). *)
CallsAreBounded ==
  /\ \A k \in Keys \cup Signals : calls[k] <= MaxAttempts
  /\ \A t \in Tasks : task[t].key # NoKey => calls[task[t].key] <= task[t].attempts

(* A row that says APPLIED, SENT or better is of the operation the provider carried
   out, whatever was superseded, leased again or taken over while the call was out
   (completeCapacityExecution, completeNodeLifecycleExecution), and within its attempts. *)
AppliedWasDone ==
  /\ \A t \in Tasks : task[t].status \in {"APPLIED", "SENT"} => task[t].key \in done
  /\ \A o \in DOMAIN op : op[o].status \in {"VERIFYING", "APPLIED", "RECOVERY_REQUIRED"} => o \in done
  /\ \A o \in Ops : fact[o] # NoFact => o \in done
  /\ CallsAreBounded

(* An applied operation whose event left the chain, or came back in another block, does
   not stay as it was (reconcileNodeLifecycleFacts). *)
Bound(o) == fact[o].final /\ fact[o].block = op[o].bound
Unbound(o) == o \in DOMAIN op /\ op[o].status = "APPLIED" /\ ~Bound(o)
RetractionIsNoticed == \A o \in Ops : Unbound(o) ~> ~Unbound(o) \/ Jammed

(* Neither a dead worker nor an expired lease keeps work for ever: an intent is
   applied, given up, superseded or out of attempts, and a node operation leaves the
   hands of the workers, and is taken up again when its event is lost, unless the
   transaction that reads the facts can only throw. *)
InHand(o) == o \in DOMAIN op /\ op[o].status \in {"PENDING", "LEASED", "RETRY"}
WorkEnds ==
  /\ \A k \in Keys :
       task[Allocation].key = k ~>
         \/ task[Allocation].key # k
         \/ task[Allocation].status \in {"APPLIED", "FAILED"}
         \/ task[Allocation].attempts = MaxAttempts
  /\ \A o \in Ops : InHand(o) ~> ~InHand(o) \/ Jammed
  /\ RetractionIsNoticed

(* reconcileNodeLifecycleFacts always commits. *)
FactsAreReadable == ~Jammed

(* systemSemanticProjection: a node is not eligible for work once its drain was
   requested. *)
DrainedIsInactive == active => \A o \in DOMAIN op : op[o].status = "FAILED"
=============================================================================
