------------------------------ MODULE HostedFence ------------------------------
(***************************************************************************)
(* The writer epoch of the hosted control plane: the coordinator lease and *)
(* the worker delegation in PostgreSQL (postgres-hosted-store.ts), and the *)
(* runtime of every process that writes (hosted-runtime.ts).               *)
(*                                                                         *)
(* A database transaction that locks the lease row is one step.  A process *)
(* goes on between its awaits: renew() is three steps, and a mutation      *)
(* captures the fence when it is called and is checked when it runs, any   *)
(* time later.  A process that closes leaves its last mutations to the     *)
(* draining pool, one that crashes takes them with it.                     *)
(*                                                                         *)
(* Data.  Time is one flag per row: it has not expired.  The clocks of the *)
(* processes are not compared with the database's.  The workers are those  *)
(* of one component; the gates of a promotion that look at replication and *)
(* L1 may refuse it at any time (PromotionFails).  The renewal timer does  *)
(* not fire again while a renewal is under way.  A renewal or promotion    *)
(* whose transaction commits after its process closed is a process that    *)
(* starts, or is promoted, and crashes.                                    *)
(***************************************************************************)
EXTENDS Naturals, FiniteSets

CONSTANTS
  Coordinators,    \* coordinator ids, one process each
  Standbys,        \* those configured as standby
  Workers,         \* worker ids of the component
  NoOne,
  MaxEpoch,        \* bound: fence tokens handed out
  MaxToken,        \* bound: worker fence tokens handed out
  MaxInFlight,     \* bound: mutations a process has in flight, by their fences
  MaxPromotions    \* bound: promotions of one process under way

ASSUME FenceAssumption ==
  /\ Standbys \subseteq Coordinators
  /\ Coordinators \cap Workers = {}
  /\ NoOne \notin Coordinators \cup Workers
  /\ {MaxEpoch, MaxToken, MaxInFlight, MaxPromotions} \subseteq Nat

Processes == Coordinators \cup Workers
Epochs == 0..MaxEpoch

(* CoordinatorFence: a delegated one names its worker *)
Fence == [holder : Coordinators \cup {NoOne}, epoch : Epochs,
          worker : Workers \cup {NoOne}, token : 0..MaxToken]
CoordinatorFence(c, e) == [holder |-> c, epoch |-> e, worker |-> NoOne, token |-> 0]
NoFence == CoordinatorFence(NoOne, 0)

VARIABLES
  lease,       \* coordinator_leases: holder, epoch, live
  checkpoint,  \* hosted_primary_wal_checkpoints: the fence that wrote it
  delegation,  \* hosted_worker_leases: the fence it grants, live
  pc,          \* process -> down, starting, up, renewing or renewed
  role,        \* process -> effectiveRole
  fence,       \* process -> this.fence
  renewal,     \* process -> what the renewal in progress was granted
  timer,       \* process -> the renewal timer was started
  promotions,  \* coordinator -> calls of promote() past their first test
  writes,      \* process -> the fences its mutations in flight captured
  last         \* history: the coordinator fence of the last mutation committed

database  == <<lease, checkpoint, delegation>>
runtime   == <<pc, role, fence, renewal, timer, promotions>>
mutations == <<writes, last>>
fenceVars == <<database, runtime, mutations>>

-------------------------------------------------------------------------------
(* Transactions *)

(* assertFence: every mutation starts with it *)
AssertCoordinator(f) == lease.live /\ f.holder = lease.holder /\ f.epoch = lease.epoch
AssertDelegation(f) == f.worker # NoOne => delegation.live /\ f = delegation.fence

(* Mutants (here and below): slips in the definition that follows, each of
   which some property must notice. *)
AssertHolderOnly(f) == lease.live /\ f.holder = lease.holder /\ AssertDelegation(f)

AssertFence(f) == AssertCoordinator(f) /\ AssertDelegation(f)

Transact(f) == AssertFence(f) /\ last' = CoordinatorFence(f.holder, f.epoch)

(* acquireLease: the live holder keeps its token, anyone gets the next one of
   a lease that expired *)
Acquirable(c) == lease.live => lease.holder = c
TokenKept(c) == IF lease.epoch = 0 THEN 1 ELSE lease.epoch

TokenFor(c) == IF lease.live /\ lease.holder = c THEN lease.epoch ELSE lease.epoch + 1

AcquireLease(c) ==
  /\ Acquirable(c)
  /\ TokenFor(c) <= MaxEpoch
  /\ lease' = [holder |-> c, epoch |-> TokenFor(c), live |-> TRUE]

RecordCheckpoint(f) == AssertFence(f) /\ checkpoint' = f

(* acquireWorkerLease: granted under a live coordinator epoch, and never over
   the live delegation another worker has in that epoch *)
NoDelegation == [fence |-> NoFence, live |-> FALSE]
SameEpoch(c) ==
  delegation.fence.holder = c /\ delegation.fence.epoch = lease.epoch
Delegable(w, c) ==
  /\ lease.live /\ lease.holder = c
  /\ (delegation.live /\ SameEpoch(c)) => delegation.fence.worker = w
DelegationToItself(w, c) ==
  [holder |-> c, epoch |-> lease.epoch, worker |-> c, token |-> delegation.fence.token + 1]

DelegationFor(w, c) ==
  LET kept == delegation.live /\ SameEpoch(c) /\ delegation.fence.worker = w
  IN [holder |-> c, epoch |-> lease.epoch, worker |-> w,
      token |-> IF kept THEN delegation.fence.token ELSE delegation.fence.token + 1]

AcquireWorkerLease(w, c) ==
  /\ Delegable(w, c)
  /\ DelegationFor(w, c).token <= MaxToken
  /\ delegation' = [fence |-> DelegationFor(w, c), live |-> TRUE]

(* acquireLeaseForPromotion: over an expired lease of another holder whose
   last checkpoint was written in its last epoch *)
PromotionWhileLive(c) ==
  /\ lease.holder \notin {NoOne, c}
  /\ checkpoint = CoordinatorFence(lease.holder, lease.epoch)

PromotionAllowed(c) ==
  /\ lease.holder \notin {NoOne, c} /\ ~lease.live
  /\ checkpoint = CoordinatorFence(lease.holder, lease.epoch)

AcquireForPromotion(c) ==
  LET next == CoordinatorFence(c, lease.epoch + 1)
  IN /\ PromotionAllowed(c)
     /\ next.epoch <= MaxEpoch
     /\ lease' = [holder |-> c, epoch |-> next.epoch, live |-> TRUE]
     /\ checkpoint' = next
     /\ delegation' = IF SameEpoch(lease.holder) THEN NoDelegation ELSE delegation

-------------------------------------------------------------------------------
(* Starting, promotion and the end of a process *)

Running(p) == pc[p] \in {"up", "renewing", "renewed"}

BecomeFenced(p) ==
  /\ fence' = [fence EXCEPT ![p] = NoFence]
  /\ role' = [role EXCEPT ![p] = "fenced"]

(* create() with a deferred lease, then activate() *)
Activate(c) ==
  /\ c \notin Standbys /\ pc[c] = "down"
  /\ AcquireLease(c)
  /\ pc' = [pc EXCEPT ![c] = "starting"]
  /\ role' = [role EXCEPT ![c] = "active"]
  /\ fence' = [fence EXCEPT ![c] = CoordinatorFence(c, TokenFor(c))]
  /\ UNCHANGED <<checkpoint, delegation, renewal, timer, promotions, mutations>>

Activated(c) ==
  /\ pc[c] = "starting"
  /\ RecordCheckpoint(fence[c])
  /\ pc' = [pc EXCEPT ![c] = "up"]
  /\ timer' = [timer EXCEPT ![c] = TRUE]
  /\ UNCHANGED <<lease, delegation, role, fence, renewal, promotions, mutations>>

(* an error of the cold start ends the process *)
ActivationFails(c) ==
  /\ pc[c] = "starting"
  /\ pc' = [pc EXCEPT ![c] = "down"]
  /\ BecomeFenced(c)
  /\ UNCHANGED <<database, renewal, timer, promotions, mutations>>

StartStandby(c) ==
  /\ c \in Standbys /\ pc[c] = "down"
  /\ pc' = [pc EXCEPT ![c] = "up"]
  /\ role' = [role EXCEPT ![c] = "standby"]
  /\ UNCHANGED <<database, fence, renewal, timer, promotions, mutations>>

StartWorker(w) ==
  /\ pc[w] = "down"
  /\ \E c \in Coordinators :
       /\ AcquireWorkerLease(w, c)
       /\ fence' = [fence EXCEPT ![w] = DelegationFor(w, c)]
  /\ pc' = [pc EXCEPT ![w] = "up"]
  /\ role' = [role EXCEPT ![w] = "active"]
  /\ timer' = [timer EXCEPT ![w] = TRUE]
  /\ UNCHANGED <<lease, checkpoint, renewal, promotions, mutations>>

AlreadyActive(c) == fence[c] # NoFence /\ role[c] = "active"

PromotionAnswered(c) ==
  /\ promotions[c] > 0
  /\ promotions' = [promotions EXCEPT ![c] = @ - 1]
  /\ UNCHANGED <<pc, renewal, timer, mutations>>

AskPromotion(c) ==
  /\ Running(c) /\ ~AlreadyActive(c)
  /\ promotions[c] < MaxPromotions
  /\ promotions' = [promotions EXCEPT ![c] = @ + 1]
  /\ UNCHANGED <<database, pc, role, fence, renewal, timer, mutations>>

Promote(c) ==
  /\ PromotionAnswered(c)
  /\ AcquireForPromotion(c)
  /\ fence' = [fence EXCEPT ![c] = CoordinatorFence(c, lease.epoch + 1)]
  /\ role' = [role EXCEPT ![c] = "active"]

(* also when it is the caller that holds the lease by now *)
PromotionRefused(c) ==
  /\ PromotionAnswered(c)
  /\ lease.live
  /\ fence' = [fence EXCEPT ![c] = NoFence]
  /\ role' = [role EXCEPT ![c] = "standby"]
  /\ UNCHANGED database

PromotionFails(c) ==
  /\ PromotionAnswered(c)
  /\ UNCHANGED <<database, role, fence>>

(* releaseLease: a coordinator's row expires, a worker's is deleted *)
Release(f) ==
  /\ checkpoint' = checkpoint
  /\ IF f.worker = NoOne
     THEN /\ lease' = IF f # NoFence /\ f = CoordinatorFence(lease.holder, lease.epoch)
                      THEN [lease EXCEPT !.live = FALSE] ELSE lease
          /\ delegation' = delegation
     ELSE /\ delegation' = IF f = delegation.fence THEN NoDelegation ELSE delegation
          /\ lease' = lease

Stop(p) ==
  /\ pc' = [pc EXCEPT ![p] = "down"]
  /\ timer' = [timer EXCEPT ![p] = FALSE]
  /\ renewal' = [renewal EXCEPT ![p] = NoFence]
  /\ promotions' = [c \in Coordinators |-> IF c = p THEN 0 ELSE promotions[c]]
  /\ BecomeFenced(p)

Close(p) ==
  /\ Running(p)
  /\ Release(fence[p])
  /\ Stop(p)
  /\ UNCHANGED <<mutations>>

Crash(p) ==
  /\ pc[p] # "down"
  /\ Stop(p)
  /\ writes' = [writes EXCEPT ![p] = {}]
  /\ UNCHANGED <<database, last>>

-------------------------------------------------------------------------------
(* renew() *)

RenewLease(c) ==
  /\ pc[c] = "up" /\ timer[c] /\ fence[c] # NoFence
  /\ \/ /\ AcquireLease(c)
        /\ renewal' = [renewal EXCEPT ![c] = CoordinatorFence(c, TokenFor(c))]
     \/ /\ ~Acquirable(c)
        /\ renewal' = [renewal EXCEPT ![c] = NoFence]
        /\ UNCHANGED lease
  /\ pc' = [pc EXCEPT ![c] = "renewing"]
  /\ UNCHANGED <<checkpoint, delegation, role, fence, timer, promotions, mutations>>

RenewDelegation(w) ==
  LET c == fence[w].holder IN
  /\ pc[w] = "up" /\ timer[w] /\ fence[w] # NoFence
  /\ \/ /\ AcquireWorkerLease(w, c)
        /\ renewal' = [renewal EXCEPT ![w] = DelegationFor(w, c)]
     \/ /\ ~Delegable(w, c)
        /\ renewal' = [renewal EXCEPT ![w] = NoFence]
        /\ UNCHANGED delegation
  /\ pc' = [pc EXCEPT ![w] = "renewing"]
  /\ UNCHANGED <<lease, checkpoint, role, fence, timer, promotions, mutations>>

StillMine(p) == fence[p] # NoFence /\ renewal[p] = fence[p]

(* a coordinator publishes its checkpoint before it takes the renewal over *)
RenewalKept(p) ==
  /\ pc[p] = "renewing"
  /\ StillMine(p)
  /\ \/ /\ p \in Coordinators
        /\ RecordCheckpoint(renewal[p])
        /\ pc' = [pc EXCEPT ![p] = "renewed"]
        /\ UNCHANGED renewal
     \/ /\ p \in Workers
        /\ pc' = [pc EXCEPT ![p] = "up"]
        /\ renewal' = [renewal EXCEPT ![p] = NoFence]
        /\ UNCHANGED checkpoint
  /\ UNCHANGED <<lease, delegation, role, fence, timer, promotions, mutations>>

(* the lease changed hands, the checkpoint is refused, or the database fails *)
RenewalFails(p) ==
  /\ pc[p] \in {"renewing", "renewed"}
  /\ pc' = [pc EXCEPT ![p] = "up"]
  /\ renewal' = [renewal EXCEPT ![p] = NoFence]
  /\ BecomeFenced(p)
  /\ UNCHANGED <<database, timer, promotions, mutations>>

(* whatever happened to this.fence since *)
RenewalEnds(p) ==
  /\ pc[p] = "renewed"
  /\ fence' = [fence EXCEPT ![p] = renewal[p]]
  /\ renewal' = [renewal EXCEPT ![p] = NoFence]
  /\ pc' = [pc EXCEPT ![p] = "up"]
  /\ UNCHANGED <<database, role, timer, promotions, mutations>>

(* writableFence() past the expiry it remembers, and verifyReady() *)
SelfFence(p) ==
  /\ Running(p) /\ fence[p] # NoFence
  /\ BecomeFenced(p)
  /\ UNCHANGED <<database, pc, renewal, timer, promotions, mutations>>

-------------------------------------------------------------------------------
(* Time, and the mutations *)

(* a delegation expires no later than the lease it was granted under *)
ExpireLease ==
  /\ lease.live
  /\ lease' = [lease EXCEPT !.live = FALSE]
  /\ delegation' = [delegation EXCEPT !.live = @ /\ ~SameEpoch(lease.holder)]
  /\ UNCHANGED <<checkpoint, runtime, mutations>>

ExpireDelegation ==
  /\ delegation.live
  /\ delegation' = [delegation EXCEPT !.live = FALSE]
  /\ UNCHANGED <<lease, checkpoint, runtime, mutations>>

Mutate(p) ==
  /\ Running(p) /\ fence[p] # NoFence
  /\ Cardinality(writes[p]) < MaxInFlight
  /\ writes' = [writes EXCEPT ![p] = @ \cup {fence[p]}]
  /\ UNCHANGED <<database, runtime, last>>

MutationCommits(p) ==
  \E f \in writes[p] :
    /\ Transact(f)
    /\ writes' = [writes EXCEPT ![p] = @ \ {f}]
    /\ UNCHANGED <<database, runtime>>

MutationFails(p) ==
  \E f \in writes[p] :
    /\ writes' = [writes EXCEPT ![p] = @ \ {f}]
    /\ UNCHANGED <<database, runtime, last>>

-------------------------------------------------------------------------------
FenceInit ==
  /\ lease = [holder |-> NoOne, epoch |-> 0, live |-> FALSE]
  /\ checkpoint = NoFence
  /\ delegation = NoDelegation
  /\ pc = [p \in Processes |-> "down"]
  /\ role = [p \in Processes |-> "fenced"]
  /\ fence = [p \in Processes |-> NoFence]
  /\ renewal = [p \in Processes |-> NoFence]
  /\ timer = [p \in Processes |-> FALSE]
  /\ promotions = [c \in Coordinators |-> 0]
  /\ writes = [p \in Processes |-> {}]
  /\ last = NoFence

CoordinatorStep(c) ==
  \/ Activate(c) \/ Activated(c) \/ ActivationFails(c) \/ StartStandby(c)
  \/ AskPromotion(c) \/ Promote(c) \/ PromotionRefused(c) \/ PromotionFails(c)
  \/ RenewLease(c)

WorkerStep(w) == StartWorker(w) \/ RenewDelegation(w)

RuntimeStep(p) ==
  RenewalKept(p) \/ RenewalFails(p) \/ RenewalEnds(p) \/ SelfFence(p)

MutationStep(p) == Mutate(p) \/ MutationCommits(p) \/ MutationFails(p)

FenceNext ==
  \/ \E c \in Coordinators : CoordinatorStep(c)
  \/ \E w \in Workers : WorkerStep(w)
  \/ \E p \in Processes : RuntimeStep(p) \/ MutationStep(p) \/ Close(p) \/ Crash(p)
  \/ ExpireLease \/ ExpireDelegation

FenceSpec == FenceInit /\ [][FenceNext]_fenceVars
-------------------------------------------------------------------------------
(* Properties *)

(* Every variable has its type. *)
FenceTypeOK ==
  /\ lease \in [holder : Coordinators \cup {NoOne}, epoch : Epochs, live : BOOLEAN]
  /\ checkpoint \in Fence
  /\ delegation \in [fence : Fence, live : BOOLEAN]
  /\ pc \in [Processes -> {"down", "starting", "up", "renewing", "renewed"}]
  /\ role \in [Processes -> {"standby", "active", "fenced"}]
  /\ fence \in [Processes -> Fence]
  /\ renewal \in [Processes -> Fence]
  /\ timer \in [Processes -> BOOLEAN]
  /\ promotions \in [Coordinators -> 0..MaxPromotions]
  /\ writes \in [Processes -> SUBSET Fence]
  /\ last \in Fence

(* All fences there are, in memory, in flight or in a row *)
Fences ==
  {fence[p] : p \in Processes} \cup {renewal[p] : p \in Processes}
    \cup (UNION {writes[p] : p \in Processes})
    \cup {checkpoint, delegation.fence, last}

(* An epoch has one holder, wherever a fence of it is kept, and no fence is
   ahead of the lease: a process that forgot, lost or is still waiting for its
   lease cannot pass for the one that has it.  (acquireLease, promotion) *)
OneHolderPerEpoch ==
  \A f \in Fences :
    /\ f.epoch <= lease.epoch
    /\ f.epoch = lease.epoch => f.holder = lease.holder
    /\ \A g \in Fences : f.epoch = g.epoch => f.holder = g.holder

(* Mutations commit in the order of the epochs: "a paused former active cannot
   write after a new replica is promoted", and neither can its workers.
   (assertFence, hosted-runtime.ts) *)
FormerWriterIsSilent ==
  [][/\ last'.epoch >= last.epoch
     /\ last'.epoch = last.epoch => last'.holder = last.holder]_fenceVars

(* The lease and the fences of the coordinators do what WriterEpoch promises:
   whatever expires, is released, renewed late, promoted or remembered by a
   renewal that ends after its process was fenced.  (hosted-runtime.ts) *)
Epoch == INSTANCE WriterEpoch WITH held <- [c \in Coordinators |-> fence[c].epoch]
ImplementsWriterEpoch == Epoch!EpochSpec

(* A coordinator that serves mutations keeps its lease alive: the TTL allows
   for "three missed renewals before expiry".  (hosted-runtime.ts) *)
HolderRenews ==
  \A c \in Coordinators : (Running(c) /\ AlreadyActive(c)) => timer[c]
=============================================================================
