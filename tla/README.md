# A TLA+ model of the zkdeal coordinator

This directory holds TLA+ modules for the state machines of `src/server/src`, the
TLC configurations that check them on small instances, and TLAPS proofs of the
results that hold for every value of the constants. Paths below are relative to
the repository; file names without a directory are in `src/server/src`.

## The system

The coordinator runs *rooms*: small rollups whose moves are batched, proved by a
remote prover and settled on an L1 contract. The same process offers two
products: a **demo control plane** (one process, a JSON snapshot file, a queue of
its own) and a **hosted control plane** (many coordinators and workers over one
PostgreSQL database, encrypted moves, withdrawals, billing).

| Part | State it keeps | Operations | Talks to | What is hard |
| --- | --- | --- | --- | --- |
| Demo room control plane: `demo-controller.ts`, `demo-checkpoint-state.ts`, `demo-store.ts`, `demo-runtime-checkpoint.ts`, `demo-live-runtime.ts` | a snapshot of rooms, moves, checkpoint records and jobs, mirrored to `state.json`; the set of running jobs | create, deploy, add a move, close, checkpoint, restart | prover, prove queue, L1, proving slot | handlers interleave at every `await`, saves are chained and may fail, a restart keeps L1 but loses memory |
| Proving slot: `demo-proving-queue.ts` | the holder and a line of waiters | `run` | demo rooms | one proof at a time, reported positions |
| L1 settlement watcher: `l1-settlement-watcher.ts` | hash watched, last receipt, announced placement, retry counters | one loop | L1 RPC providers, the room through callbacks | reorganisations between two reads, a rebroadcast racing the first transaction |
| Prove queue, file-backed: `prove-queue/queue-core.ts`, `queue-store.ts`, `queue-routes.ts` | jobs, the line of waiting jobs, index, request and result files | submit, lease, heartbeat, complete, fail, sweep, restart | submitters, prover nodes | leases that run out, late reports, torn writes, silent nodes |
| Prove queue, PostgreSQL: `prove-queue/postgres-queue-routes.ts`, store 10651-11546 | job rows, the GPU row, sponsorship reservations | the same over transactions | prover nodes, billing | leases that run out by the clock between two statements, quantities that must be given back |
| Coordinator and worker leases: `hosted-runtime.ts`, `hosted-worker.ts`, store 3772-4160 | lease rows with fencing tokens | acquire, renew, promote, release, assert | every hosted write | a holder that lost its lease goes on; a standby takes over |
| Admission of encrypted moves: `admission.ts`, store 4807-5110 | with the database one row per candidate id: RESERVED, COMMITTED, LEASED, ACKED; without it the room's archive, an id record and a queue in memory | reserve, sign, commit, lease, ack, recover; submit, drain | external signer, L1, batch builder, observer | several steps around an external signer; an id must be signed once; drains and archive writes in between |
| Observer: `observer-store.ts`, `observer-write.ts`, `finalized-anchor-store.ts` | one document per room, the finalized anchor | PUT, heartbeat, the admission's write | an external indexer, L1, viewers | two writers that hold the document across awaits, reorganisations |
| Canonical event index: `hosted-indexer.ts`, store 5305-5530, 6379-6730, 10275-10421 | block journal, facts, a cursor per source, sidecar requirements, floor, observations | journal, ingest, archive, advance the floor, roll back, audit, recover | L1 RPC quorum, publishers, billing, capacity | many transactions while L1 reorganises, also below its finalized block |
| L1 publishers: `managed-l1-publisher.ts`, `managed-blob-publisher.ts`, `hosted-publisher-worker.ts`, `shared-l1-transport.ts`, store 6011-6892 | the nonce journal | reserve, sign, attach, broadcast, watch, finalize, retract, exhaust, audit | L1 | nonces, two processes on one row, a crash at any await |
| Withdrawals: `hosted-withdrawal-worker.ts`, `withdrawal-claimer.ts`, `withdrawal-proofs.ts`, store 8041-8350 | withdrawal, claim and journal rows | prepare, sign, link, broadcast, confirm, retract | L1, the nonce journal, the index | three rows of one payout; anyone may claim first |
| Capacity and billing: store 8508-9490, 9742-9860 | aggregate members, charges, credits, refunds, sponsorship counters | reconcile inside the floor's and the rollback's transaction, refund | index, prove queue | outcomes that come, go and come back elsewhere |
| Node provisioning: `capacity-controller.ts`, `hosted-capacity-worker.ts`, store 9862-10101, 10538-10640, 11546-12047 | intents, demand signals, node operations | lease, call the provider, answer, apply by fact | provider, index | calls outside any transaction, superseded operations |
| Event stream: `hosting-routes.ts` 3060-3165, store 12047-12145, 12310-12379 | outbox, slot rows | append, reap, connect, read, renew, close | viewers | ids drawn before the commit, slots that outlive connections |
| Hosting HTTP routes: `hosting-routes.ts`, `hosting-capabilities.ts`, `app.ts` | none | parsing, authorisation, dispatch | all hosted parts | none of its own |
| RPC proxy and faucet: `rpc-proxy.ts`, `faucet.ts`, `quota.ts` | quotas | forward, transfer | L1 | rate limits |
| Configuration, presets, fixtures: `config.ts`, `demo-presets.ts`, `card-*`, `amm-*`, `erc*` | none | parsing | - | none |
| Web console: `src/web` | browser state | user interface | HTTP API | a separate program |

("store" is `postgres-hosted-store.ts`.)

`PROJECT.json` carries the same list with what is modelled of each part, and the
list of hazards with the line at which each one bites.

What makes the parts correct, in one line each:

* **room** - what it reports settled is settled for good on L1, with those moves,
  once; what was not settled stays pending; a crash, a failing save, a late or
  retracted transaction changes none of it; every attempt ends.
* **watcher** - it returns only what no reorganisation can undo, its caller is told
  of every acceptance and retraction, and it ends.
* **queue** - no job is lost, run by two nodes at once or leased a third time; a
  waiting job never moves back; an acknowledgement survives a restart; a silent
  node forfeits its job.
* **leases** - once a holder is superseded, nothing it still sends changes state.
* **admission** - one candidate id is signed for one move, ids have no gap, and an
  answered move is in the log, or in the archive.
* **observer** - no write takes back a receipt or what L1 has finalized.
* **index** - what readers are given is of one chain, nothing in it is skipped, and
  it catches up.
* **publishers, withdrawals** - one transaction per nonce and per operation; final
  means mined below a finalized block; the rows of a payout agree.
* **billing** - a sponsor's counters are the sums of the reservations, a charge is
  justified by a canonical outcome, and billing does not block the chain.
* **provisioning** - what a row says was done was done, and work ends.
* **event stream** - no event appears behind a viewer's cursor, slots are bounded
  and come free.

## Modules

```
DemoRoom            one room, its snapshot file, its jobs and the L1 room
  DemoRoom_proofs     theorems about it
Settlement          what the watcher promises its caller
SettlementWatcher   the watcher's loop; implements Settlement
ProveQueue          the file-backed prove queue
  Checkpoint_proofs   theorems about the queue and the watch a checkpoint awaits
WriterEpoch         what the coordinator lease promises the parts that write under it
HostedFence         the lease rows and the runtimes; implements WriterEpoch
EventStream         outbox, retention and streams
  MCEventStream       an instance for TLC
  HostedStore_proofs  theorems about the lease, and about the outbox and the
                      capacity worker, which work under it
AdmissionLedger     what the admission log promises
AdmissionWal        the admission log under takeovers; implements AdmissionLedger
ObserverArchive     the observer's document and the admission without a database
  MCAdmission         the admission service in either configuration, for TLC
  Admission_proofs    theorems about both
OperationLedger     what the nonce journal promises whoever asks for an operation
L1Journal           the nonce journal and the publishers; implements OperationLedger
  L1Journal_proofs
  MCL1Journal         an instance for TLC
WithdrawalClaims    payouts of withdrawals; implements OperationLedger
  WithdrawalClaims_proofs
CanonicalIndex      the canonical event index
  CanonicalIndex_proofs
HostedQueue         the PostgreSQL prove queue
AggregateBilling    extends HostedQueue by facts, charges and the floor
  AggregateBilling_proofs
CapacityIntents     rows that are leased, tried and answered
NodeLifecycle       draining and retiring a node
CapacityController  the worker over both, and the provider
  MCCapacityController  an instance for TLC
```

Composition. `DemoRoom` uses the watcher by the calls `Settlement` has (accepted at a
placement, retracted, finalized, gave up), which `SettlementWatcher` is proved to
implement; it keeps no placement and adds the watch's time budget. `AdmissionWal` uses the lease the same way: its variable
`writer` is the coordinator whose fence the database accepts, which is what
`WriterEpoch` grants and `HostedFence` is proved to implement. `L1Journal` and
`WithdrawalClaims` are both proved to implement `OperationLedger`, one with its
reads of L1 apart, the other with the rows around it, and `AdmissionWal` to implement
`AdmissionLedger`. `AggregateBilling` runs on the queue's
own actions, and `CapacityController` on those of the intents and of the nodes.

### DemoRoom

The controller is one JavaScript process, so the code between two `await`s is one
action and any action may run at an `await`. The most frequent `await` is
`persist()`, and it is the one that matters: saves are *chained* (`writes`, one
ticket per waiter), a save serialises the **live** snapshot when it *starts*
(`BeginSave`), renames it when it *ends*, and the code that waited goes on in the
step that ends its own save. So one waiter's save may carry another's half-made
change to disk, or end after a change it does not contain.

| Variable | Code |
| --- | --- |
| `room`, `disk`, `written` | the room in `this.snapshot`, in `state.json`, and in the text of the save in progress |
| `saving`, `writes` | the promise chain behind `persist()` |
| `job[i]` | where attempt `i` is in `checkpointRoom`, `launch`, `ProvingSlot.run` and `runCheckpoint`, the phase to fall back to, the batch it prepared |
| `deploy[d]` | where a deployment is in `deployRoom` and its job |
| `chain`, `final`, `broadcast` | L1, as the code uses it: batches per L1 room, how many are final, transactions that exist. A transaction may be mined late, or never; whatever is not final may be reorganised out |

Actions are named for the code: `AddAction`, `CloseRoom`, `DeployRoom` ..
`EndDeploy`, `CheckpointRoom`, `LaunchCheckpoint`, `Prepare` (head read,
`replayRequest`, prover, `assertPreparedMatches`), `BeginProving`, `Submit`,
`BatchAccepted`, `BatchRetracted`, `BatchFinalized`, `Complete`,
`CheckpointFails`, `Restart`. `CheckpointFails` is enabled at every await of the
work: the prover, the queue and L1 may fail at any of them. The watch is modelled by its
calls and its budget. `BatchRetracted` needs no reorganisation, since
`agreedReceipt` takes a receipt read that throws for one that is missing; a batch found
in another block is announced again without a retraction. So acceptances and retractions
may go on for ever as far as L1 is concerned, and `SpendBudget` (`stopAt`) ends them.

A state root is the sequence of the move sets of the batches behind it, which is
what the proof binds; blobs, journals, keys and economics are left out.

### SettlementWatcher and Settlement

`SettlementWatcher` has one action per RPC read of the loop, so that L1 mines,
reorganises and finalises between any two reads. Provider sets either agree or the
watch throws, so they are one provider that may throw; a receipt read may also
come back empty or from a cache that outlived a reorganisation. `Settlement` is
what the caller may rely on. It speaks of placements - the block a batch was found in -
because the loop does: `onAccepted` is called again, with no retraction before it, when
the placement has changed (`Unannounced`). What the contract forbids is to announce one
placement twice in a row, to retract what was not announced, and to return at a placement
other than the one announced last. The refinement maps the watcher's program counter,
the placement last announced and, at the end, that of the receipt returned.

### ProveQueue

`queue-store.ts` is synchronous, so an HTTP request is one action. Each starts with
the sweep of the code (`Swept`: reclaim what ran out, forget what is old) and ends
with the index save, which may fail *after* the memory has changed. A restart
restores the index and may find a request or result file the index does not name.
Time is one flag per job. Which eligible job a lease gets (priority classes,
deadlines, weighted fairness) is left open, and so is every entitlement cap except
the global one.

### HostedFence and WriterEpoch

A database transaction locks the lease row, so it is one action. A process goes on
between its awaits: a renewal is three actions (`RenewLease`, `RenewalKept`,
`RenewalEnds`), a promotion two (`AskPromotion`, then `Promote`, `PromotionRefused`
or `PromotionFails`), and a mutation captures its fence when it is called
(`Mutate`) and is checked when its transaction runs (`MutationCommits`), any time
later.

| Variable | Code |
| --- | --- |
| `lease`, `checkpoint`, `delegation` | the rows of `coordinator_leases`, `hosted_primary_wal_checkpoints` and `hosted_worker_leases` |
| `fence`, `role`, `timer` | `this.fence`, `effectiveRole` and whether `startRenewal` ran, in each process |
| `pc`, `renewal`, `promotions` | where a process is in `renew()`, what it was granted, how many `promote()` calls it has under way |
| `writes` | the fences that mutations in flight captured |
| `last` | history: the coordinator fence of the last mutation committed |

Time is one flag per row. The code also compares a remembered expiry with its own
clock (`writableFence`); since that clock may be wrong in either direction, a
process may fence itself at any time (`SelfFence`) and need not. `WriterEpoch` is
the promise: epochs are granted one after the other, each to one coordinator, and
no coordinator takes for its own an epoch that another one has.

### AdmissionWal and AdmissionLedger

`submitSerial` reads the database four times and writes it twice, with an external
signer in between; each of these is an action (`FindExisting`, `CheckDeposit`,
`Number`, `Reserve`, `Sign`, `Commit`), and all checks against room policy, L1 and
caps are one action that may refuse anywhere (`SubmitFails`). Submissions of a room
are chained in one process, so a coordinator serves one at a time; recovery
(`Recover` ..) runs before it listens and again whenever an administrator asks.
Builders lease and acknowledge through the coordinator that holds the lease
(`Drain`). `signed` remembers every promise the signer made, also one the log never
received. `AdmissionLedger` says what is promised: a sequence that only grows, one
entry per transaction and per deposit, delivered in order and settled once.

### ObserverArchive

One room's document is replaced by an external indexer (PUT), moved in its
freshness by heartbeats that leave its revision alone, and extended by the
admission of a coordinator without a database. Both writers hold a copy across
awaits: `Send` .. `Arrive` .. `Corroborate` .. `Replace` is a PUT, `Submission` ..
`NumberReceipt` .. `ArchiveReceipt` is a submission, and `doc`, `anchor` and
`issued` are files that a `Restart` keeps, `queue` is memory that it loses. The indexer is outside the repository: `Draft` and `ForkPoint` say what a
correct one sends, late or not. The handler is one action up to its first await,
because what it checks after that is the document and the anchor it has read.
`MCAdmission` composes it with `AdmissionWal` under the flag `hosted`
(`config.hostedWal`): a process is configured one way or the other.

### L1Journal and OperationLedger

A store method is a transaction and one action; between a read of L1 or of a row
and the write that uses it there is an await, so `task` keeps what each process
(an API publisher or the worker) has read. `row`, `nextNonce` are the tables,
`chain`, `final` and `sent` are L1: `sent` is every transaction a node was ever
handed, any of which may be mined while its nonce is next. L1 may also rewrite
finalized blocks (`Surprise`), which the audit looks for (`Audit`). A transaction
is its nonce and its signature; fees are left out. `OperationLedger`: an operation is
reserved once, bound to one signed transaction, ends once, and is reopened only for
an operator when finalized blocks were rewritten.

### WithdrawalClaims

`withdrawal`, `claim` and `op` are the three rows of one payout, written in
different transactions; `task` is where each worker's pass stands, with the
operation status it read. `canonical` says whether the block a row records is still on
L1, which is what the watch before finality and the audit after it compare: a payout
mined again in another block has moved, although it is final there. Relayers may claim first, leases run out, the component
passes to another worker (`TakeOver`), roots are retracted. Merkle proofs are
accepted or refused, fees left out.

### CanonicalIndex

A block is the path from the bootstrap anchor that leads to it, so ancestors and
forks are sequence operations. `run` is `runOnce` between its awaits: range read,
blocks journalled (with the rollback in the same transaction), each source's logs
ingested, sidecars checked, floor advanced. `Archive` obtains a sidecar, `Look`
and `Write` are the reconciler, `OpFinalizes` and `Audit` the publishers' part,
`InstallBranch` and `FinalizeRecovery` the operator's.

### HostedQueue and AggregateBilling

A queue method locks the coordinator's lease row first, so it is one action; time
is a flag (`live`) that the clock takes away also *between* two statements of a
transaction, which matters to the sweep and the GPU row. `AggregateBilling` adds
the facts an index of L1 gives (`facts`, with the balance charged for each), the
floor, and `Reconcile`: the pure function that is
`reconcileAggregateBillingTx`, part of every action that moves the floor, rolls
back, registers or resolves a recovery - and whatever it throws at makes that
action impossible. The code goes through what a pass gives back in the order of receipt
ids, and that order decides who gets scarce capacity and whether a retry is found to have
taken a quantity over; `Settles` allows every order, since ids follow the charges of
several passes. One aggregate carries one job.

### CapacityIntents, NodeLifecycle, CapacityController

`task` holds the rows that are leased, called and answered; `op`, `active` and
`fact` the operations of a node, applied by canonical facts at or below the floor.
`run` is where each worker stands in `processOnce`, with the leases it still has to
serve and the call in flight; `done`, `calls` and `postponed` are the provider's
side. Waiting times are left out: what may be tried is tried.

### EventStream

Ids come from a sequence when a row is inserted and are not given back. Writers
take the lock on the coordinator's lease row before they draw an id (`Unlocked`);
that lock, not the sequence, makes ids appear in order. `stream` is what the
handler of a connection keeps, `wire` what it has written and the viewer has not
received. Retention deletes the first rows of a class: by age, and safety rows only
when they are resolved. Assumed: a stream in service has read what is as old as the
retention.

## Runs

| Run | Asks | Holds |
| --- | --- | --- |
| `DemoRoom` | do records, history, snapshot file, phase and L1 agree under interleaving, a failing save, a restart and a reorganisation; does every attempt end | `AcceptedIsFinal`, `AttemptIsDurable`, `HistoryIsSound`, `RecordsAgree`, `AttemptEnds` |
| `SettlementWatcher` | does the watcher implement `Settlement`, is what it returns irreversible, does it end | `FinalizedIsIrreversible`, `ImplementsSettlement`, `WatchEnds` |
| `ProveQueue` | line, lease, attempt, result and acknowledgement promises, and the reclaiming of silent nodes | `LeasesAreSound`, `ResultsAreKept`, `PositionNeverGrows`, `SilentNodeForfeits` |
| `HostedFence` | does an epoch have one holder, is a former writer silent, do runtime and rows implement `WriterEpoch` | `OneHolderPerEpoch`, `FormerWriterIsSilent`, `ImplementsWriterEpoch` |
| `Admission` | with the database: is the log the ledger of promises, an id signed for one request, a batch one builder's. Without: do receipts and final facts survive the other writer, reorganisations and restarts | `PromisesAreKept`, `ImplementsLedger`, `ReceiptsAreKept`, `ArchiveAdvances` |
| `L1Journal` | one transaction per nonce, and what FINALIZED means, with an API and a worker on the same rows | `OneTransactionPerNonce`, `FinalIsMined`, `ImplementsOperationLedger` |
| `L1JournalLive` | does every operation end, is a rewritten finalized block noticed | `OperationEnds`, `SurpriseIsNoticed` |
| `WithdrawalClaims` | do withdrawal, claim, operation and L1 agree; is a request answered | `SentIsLinked`, `RowsAgree`, `ImplementsOperationLedger`, `RequestIsAnswered` |
| `CanonicalIndex` | is what readers see one chain, is nothing skipped without a reorganisation, does the index catch up | `ReadersSeeTheChain`, `CompleteWithoutReorg`, `IndexCatchesUp` |
| `AggregateBilling` | do leases, counters, reservations and charges agree, and can the floor move | `LeasesAgree`, `ReservationsAreKept`, `ChargeIsJustified`, `FloorIsNotBlocked` |
| `CapacityController` | was done what the rows say, does work end | `AppliedWasDone`, `WorkEnds` |
| `EventStream` | is a stream complete, are slots bounded, does a stream serve or end | `StreamIsComplete`, `SlotsAreBounded`, `StreamsServeOrEnd` |

Several of these are conjunctions of parts with a name of their own:
`HistoryIsSound` is `SettledOnce` and `BatchExtendsHistory`; `RecordsAgree` is
`CursorMatchesRecords`, `RunningHasWorker` and `InFlightIsClosed`;
`LeasesAreSound` is `LineIsQueued`, `LeasedAtMostTwice` and `OneProofPerNode`;
`ResultsAreKept` is `ResultIsHolders` and `AckedIsDurable`; `PromisesAreKept` is
`SignedIsReserved` and `OneBuilderAtATime`; `ReservationsAreKept` is
`CapacityIsKept` and `ReservationFollowsOutcome`; `ArchiveAdvances` is `FinalStays`
and `FreshStays`; `RowsAgree` contains `ConfirmedIsFinal`, `ReadersSeeTheChain`
contains `JournalIsAChain`; `AppliedWasDone` bounds the calls, and `WorkEnds`
says that a retracted event is noticed.

**Bounds and why they are enough.** `DemoRoom` runs two attempts over four moves
(two to a room block, and a checkpoint needs a move pending in each of its two blocks):
enough for a first batch and a second one that opens from it - states with two ACCEPTED
batches in one L1 room are reached, so `SettledOnce` compares their moves and
`BatchExtendsHistory` a history that is not empty - or for a failed attempt and a larger
retry that meets the first one's late transaction; one each of save failures, crashes
and reorganisations, in any order and at any step. The run's room is signed
(`SignedRooms`): the proof of an unsigned one cannot continue a history
(`assertPreparedMatches`), so its second batch is never prepared. With
`SignedRooms = {FALSE}` all five properties hold as well (checked by hand; 704,175 states),
and the theorems are for both. Two deployments are
in `DemoRoomRedeploy` and in the proofs; the properties of the main run other than
`AcceptedIsFinal` are about a room with one deployment. `SettlementWatcher` has two
broadcasts (all the code makes), blocks on both sides of the deadline and two
reorganisations, so that a placement is announced, then another one with or without a
retraction between, and retracted again. `ProveQueue` has two jobs, two nodes and two attempts each: a
line in which one waiter can overtake another, and a job that goes to a second node
while the first still reports; its jobs all need a GPU, which is the case in which
the one-lease rule applies. `HostedFence` has a primary, a standby and a worker, two
epochs and two delegations: the primary may start, delegate, lose its lease, be
replaced by the standby while its renewal, its mutations and its worker's are in
flight, and come back; more of each is in the proofs.

`Admission`, hosted: three requests - two name one deposit, two carry one
transaction - of which two can be admitted, so that a reservation is left behind,
recovered by the other coordinator and followed by the next; takeovers and crashes
are not bounded. Alone: two transactions, one indexer request that may be late by
any number of steps, two blocks, one reorganisation, one restart and three
revisions - a document, a receipt and a correction, in any order; two requests in
flight were checked once as well (3.4 million states, the same result). `L1Journal`
has two operations, an API and the worker, two signatures per operation, two
blocks, a reorganisation and a rewrite of final ones; two API processes inside one
reservation are in the proofs only. `L1JournalLive` has one
operation but two API processes and a crash. `WithdrawalClaims` has one withdrawal
- withdrawals share nothing but the nonces that `L1Journal` is about - two workers,
two takeovers, and one each of reorganisation, surprise and failed read.
`CanonicalIndex` has two sources, one with sidecars, forks at both of two heights,
and one each of reorganisation, surprise and error. `AggregateBilling` has a
sponsorship of capacity one contended by two jobs (either may be the other's
retry), two nodes, and three facts, so that an outcome goes and comes back, or comes
as its opposite. `CapacityController` splits what is requested *together* into
`Loads`: two operations of an allocation in turn; one with a signal; a node
operation that is drained and retired, alone; intents, signals and nodes meet only
in the worker's run. `EventStream` has two writers, two events of two classes, two
viewers that compete for one slot, two connections each, and one break.

Symmetry is declared only over sets the module tells nothing apart of, and only
where no property is a liveness property. `CHECK_DEADLOCK FALSE` stands in every
configuration because each system may really stop: a closed room with its bounds
reached, a watch that has returned, a queue whose nodes are all dead, a lease whose
epochs are spent, an L1 at its last block.

**Fairness.** Nothing is assumed of users, indexers, crashes or restarts, and of L1
only what is named here.

| Module | Fair | Because |
| --- | --- | --- |
| `DemoRoom` | saves, each job's own steps, and the clock of a watch (`SpendBudget`) | `post()` carries a time budget: an await of the work ends, if only by throwing; the loop of `watchSettlement` looks at `stopAt` on every turn |
| `SettlementWatcher` | its reads settle, its clock runs | it polls under a budget |
| `ProveQueue` | expiry and the 30-second sweeper; no node | `queue-routes.ts` starts the sweeper |
| `L1Journal` | the worker ticks (weak) and visits each row (strong), pending or for the audit, and L1 finalizes | `processOnce` takes pending rows in turn, on a timer, and the audit goes round by a cursor; that the cursor skips no operation is assumed, not modelled |
| `WithdrawalClaims` | workers tick, leases run out, claims are leased and visited in turn, L1 finalizes and is indexed; not that L1 mines | the worker's timer; the claim query's order |
| `CanonicalIndex` | runs of the indexer, each sidecar's retry, the audit, the operator's recovery | the worker's timer starts run after run, and each retries what is pending |
| `CapacityController` | live workers tick, time passes | the worker's timer; the store's clock |
| `EventStream` | page reads, renewals, heartbeats, delivery, expiry of a row nobody renews; no writer, no viewer, no reaper | `setInterval` in the handler; the store's clock |

`HostedFence`, `AggregateBilling` and `Admission` have safety properties only and
assume none.

**Conditions on properties.** `CursorMatchesRecords`, `RunningHasWorker` and
`AttemptEnds` are stated for runs without a failing save: the code does not keep
them otherwise (`demo-controller.ts` 498-512 refuses a request after its record was
made RUNNING, and no job ends that record before a restart). `PositionNeverGrows`
has the same condition, because a restart after a lost save restores an older line.
`ReceiptsAreKept` speaks of rows until the archive is rebuilt and of the queue until
a restart, since the queue is in memory only; that no id is given twice it says
without condition. `RowsAgree` excepts retracted withdrawals, `CompleteWithoutReorg`
says so itself, `IndexCatchesUp` excepts a rewrite of finalized blocks, and
`FloorIsNotBlocked` names the three states in which the floor *is* blocked.

## Further configurations, run by hand

Each of these checks one sentence that a reader of the code or its comments could
expect, and TLC answers with a behaviour of the code that does not have it. They are
not among the runs of `PROJECT.json`; `tlc -config X.cfg M` shows the trace, where
`M` is the module of the name's beginning (`MCCapacityController`,
`MCEventStream`).

* `DemoRoomClose` - `closeRoom` looks at `this.workers`, which a job enters only
  after the awaited save of its request. A close in between succeeds, and the job's
  phases re-open the room.
* `DemoRoomRestart` - `restoreSnapshot` fails the running record but keeps the phase
  (`PROVING`, ...): the room accepts neither moves nor the retry its message advises.
* `DemoRoomRedeploy` - two `deployRoom` requests with different idempotency keys
  both pass the `ROOM_READY` guard; the second re-activates the room under a batch
  in flight.
* `SettlementWatcherLate` - after a rebroadcast only the new hash is watched; if the
  first transaction is mined after all, the second reverts and the attempt is failed
  although L1 accepted its batch. `SettledOnce` shows that the next attempt cannot
  settle the moves twice.
* `ProveQueueGhost` - when the index save of a submission fails the body is removed
  but the job stays in memory, and the next save indexes it.
* `HostedFencePromoted` - `promote()` does not call `startRenewal`: a promoted
  coordinator never renews, and its lease ends one TTL after the promotion.
* `ObserverArchiveDrain` - `submitSerial` writes back the queue it read before its
  awaits: a drain in between is undone and its receipts are drained again.
* `ObserverArchiveAnchor` - the anchor advances by number alone, so a document
  written late leaves a batch of a dead branch below it; `finalizedFactViolation`
  then refuses the document that would correct it, although its comment has "Below
  the finalized anchor L1 cannot reorg, so an archived fact anchored there may never
  change" (`observer-write.ts` 110-111).
* `L1JournalRemined` - a transaction mined again at another price meets the gas cost
  recorded first: the row cannot be INCLUDED again and is exhausted, although its
  transaction is final.
* `WithdrawalClaimsRetracted` - a failed claim brings a withdrawal whose root was
  retracted back to FINALIZED.
* `CanonicalIndexSkips` - `runOnce` reads the cursors once (`hosted-indexer.ts`
  1067, 1092) and the store rolls the durable ones back during it
  (store 10377-10385): logs of a block that replaces one at or below the old cursor
  are not read, against "Each source owns a durable cursor, so a crash after
  journalling a block cannot skip its logs" (`hosted-indexer.ts` 465-466).
* `CanonicalIndexRecovery` - an installed recovery branch no longer than the old
  floor is never replayed, so its recovery cannot be resolved; and a rewrite below
  the floor that touches no finalized operation opens no recovery and halts the
  index.
* `CapacityControllerJam` - two retracted operations of a node, or one retracted
  under an unfinished other, violate a unique index, and every later run of the
  worker throws there, before it leases node operations.
* `CapacityControllerAssign` - `assignProviderNode` makes a draining or retired node
  active again, which `systemSemanticProjection` calls a failure (store 7592).
* `EventStreamGap` - an older unresolved safety row keeps `firstEventId` low, so the
  deletion of a younger audit row is not announced to a viewer that comes back.

Seen while modelling, without a configuration:

* Admission: `pendingDeposit` finds the row of the very request that is retried, so
  a request that names a deposit is refused instead of answered with its receipt. A
  restart without the database loses returned receipts from the queue, and a process
  that ends between the archive and the queue leaves a row nobody can deliver.
* Leases: a second `promote()` of one process is refused because the first holds the
  lease, and sets the process back to standby; worker tokens start at 1 again after
  a release.
* Billing: the three states of `Stuck` - a member bound to an allocation fact that
  was mined again in another block, an outcome for a TRANSFERRED job, an operation
  exhausted before its receipt cost was recorded - block the floor; a DONE job whose
  outcome never comes keeps its reservation; a failover costs a leased job an
  attempt; the RELEASED to CONSUMED branch cannot be reached.
* Provisioning: a row whose last attempt ends by expiry, or by PENDING, stays as it
  is and is never FAILED; PENDING answers to node operations are not bounded; a
  VERIFYING operation whose transaction is never mined is not retried; one fenced
  lease ends the run for the rest of its batch; a superseded operation's call may
  reach the provider after that of its successor.
* Event stream: a client that disconnects before the handler listens for `close`
  (`hosting-routes.ts` 3162) is found by the next write.

## Proofs

Every theorem is for all values of the constants that the module's named assumptions
allow: bounds are naturals, sets of names are disjoint where the code keeps them
apart, limits are positive, what a bill counts is finite. None bounds the number of
processes, crashes, reorganisations or messages. Of the 40 properties of the runs,
31 are proved.

| Module | Theorems | Inductive invariant |
| --- | --- | --- |
| `DemoRoom_proofs` | `TypeCorrect`, `AcceptedIsFinalAlways`, `AttemptIsDurableAlways`, `SettledOnceAlways`, `CursorsAndWorkersAgree`, `RecordsAgreeAlways`, `HistoryIsSoundAlways` | `IInv`, and on it `SavesInv`, `SlotsInv`, `OnceInv`, `AgreeInv`, `OneDeployInv` |
| `Checkpoint_proofs` | of `SettlementWatcher`: `FinalizedIsIrreversibleAlways`, `SettlementIsImplemented` | `WatchInv` |
| | of `ProveQueue`: `QueueTypeCorrect`, `LeasesAreSoundAlways`, `ResultsAreKeptAlways`, `PositionNeverGrowsAlways` | `QueueInv` |
| `HostedStore_proofs` | `FenceTypeCorrect`, `OneHolderPerEpochAlways`, `FormerWriterIsSilentAlways`, `FenceImplementsWriterEpoch` | `FenceInvariant`, `OwnFence` |
| | of `EventStream`: `StreamIsCompleteAlways`, `SlotsAreBoundedAlways` | `StreamInv`, `SlotInv` |
| | of `CapacityController`: `AppliedWasDoneAlways` | `CapacityInv` |
| `Admission_proofs` | `WalTypeCorrect`, `PromisesAreKeptAlways`, `LedgerIsImplemented` | `WalInv` |
| | of `ObserverArchive`: `ReceiptsAreKeptAlways`, `ArchiveAdvancesAlways` | `ArchiveInv` |
| `L1Journal_proofs` | `JournalTypeCorrect`, `OneTransactionPerNonceAlways`, `FinalIsMinedAlways`, `OperationLedgerIsImplemented` | `NonceInv`, and on it `FinalInv` |
| `WithdrawalClaims_proofs` | `ClaimsTypeCorrect`, `SentIsLinkedAlways`, `RowsAgreeAlways`, `ClaimsImplementOperationLedger` | `ClaimInv` |
| `CanonicalIndex_proofs` | `ReadersSeeTheChainAlways`, `CompleteWithoutReorgAlways` | `IndexInv`, and on it `LosslessInv` |
| `AggregateBilling_proofs` | `QueueTypeCorrect`, `LeasesAgreeAlways`, `ReservationsAreKeptAlways`, `ChargeIsJustifiedAlways`, `FloorIsNotBlockedAlways` | `BillingInv` |

**DemoRoom.** `AcceptedIsFinal` is not inductive by itself: when `Complete` marks a
record it says something of the batch the *job* carries. `IInv` adds `JobsOK`: a job
past `Prepare` has a record, its batch carries that record's moves under that
record's number, and from the finality read on the batch is final. The step uses
three facts: what is final stays (`L1Keeps`), a step other than `Complete` and
`Restart` makes no record ACCEPTED and changes no record's moves (`RoomStep`,
`AcceptsNone`), and a save or a restart only copies one of the three rooms into
another (`SaveStep`). `SavesInv` orders the rooms: the file is within the text being
saved, which is within memory (`Within`), so the save an attempt waits for has its
record, and only then is the attempt launched. `SlotsInv` says that at most one
record is RUNNING and that every working job is that record's. `OnceInv` says that
records bind moves once (`Sound`), that the moves being checkpointed are in no
ACCEPTED record and that no batch repeats a move of the state it opens from; from
this no move is in two batches. `AgreeInv` carries the cursors through all three
rooms, because a restart brings back the one on disk. `RecordsAgreeAlways` and
`HistoryIsSoundAlways` assume `MaxDeploys = 1`. Two deployments that race each other
really break the parts `InFlightIsClosed` and `BatchExtendsHistory`
(`DemoRoomRedeploy` shows it); the parts that survive, `SettledOnce`,
`CursorMatchesRecords` and `RunningHasWorker`, are theorems without the assumption.

**SettlementWatcher.** A receipt was true when it was read, and stays so while its block
is canonical, because the blocks below a block are part of it (`ReceiptWasTrue`, with
`ForksAreOld`: a replacing block is of a later fork). The rest of `WatchInv` is what the
loop knows at each await: which read is of which receipt, that the caller was told of
exactly the placement the loop remembers (`CallerIsTold`), that past the acceptance this
is the placement of the receipt in hand, so that what is returned is what was announced
last, and the counters' limits.

**ProveQueue.** `Sound` is said of memory *and* of the index, because a restart turns one
into the other, and `JobAgrees` relates the two job by job to the leases handed out,
the result file and what a caller was told. `SavedIsCore` (the index is the memory
while no save was lost) gives `PositionNeverGrows` its condition.

**HostedFence.** The invariant ranges over all fences there are (`Known`: in memory, in a
renewal, in flight, in a row, and the lease row's own): two of one epoch have one
holder, and none is ahead of the lease. It is needed in this strength because a renewal
or a mutation may bring back a fence captured any time ago. A step changes the lease
only by raising the epoch or by letting it expire, and makes no fence that is not a
copy of a known one or the lease row's new one. `OwnFence` adds that what a coordinator
keeps in `fence` or `renewal` is its own or none, which the refinement needs: it maps
each process to the epoch it would write under, and `MayHold` allows an epoch equal to
the lease's only to its holder. `FormerWriterIsSilent` follows because a mutation
commits only under the lease's epoch and `last` is a known fence.

**EventStream.** Proved beside the lease because it rests on it: at most one transaction is
open (the lease row is locked), so every id that is committed, or that a viewer has
seen, lies before every id still pending (`Past`). `StreamInv` says this of the rows,
of every cursor, page, id on the wire and id received, and that none of the viewer's
events up to there is missing (`Complete`); a commit then adds nothing behind a viewer.
`FirstOnes` is the lemma about a page: it leaves out nothing before one of its own.
`SlotInv` needs only that rows are counted and inserted under one lock.

**CapacityController.** Calls are bounded because an attempt is counted with the lease,
before the call: the calls made for a key and the workers that hold a lease for it and
have not called yet (`Spent`) are together at most the attempts of the row that names
the key. A dead worker leaves the sum smaller, never larger. A superseded key keeps what
it spent, and a key is new only if nothing was spent on it (`NotAskedIsQuiet`).
`LeaseStands` says that a lease whose token is still the row's, the row being leased, is
of the key the row names: superseding keeps the token but takes the row out of LEASED,
and leasing raises the token; so a late answer meets either its own row or a refusal.
`TasksInv` takes rows, calls and runs as parameters, so that one transaction can be proved
as the steps it is made of (a window opened, then a lease given). The operations of the
node need only that a verified one, or one with a fact, was done (`NodeInv`).

**AdmissionWal.** `LogInv` is about rows: no two name one transaction or one deposit, a
RESERVED row is the last, rows under a live lease come before all that is not
acknowledged. `TaskInv` is about what each process holds across its awaits: what is past
the reservation is in the log under that id, and an id before it is at most the next
one. The database's own check of the id, not the process's knowledge, makes the step
from one to the other.

**ObserverArchive.** Every copy of the document that someone holds across an await - the
submission's, each request's - and that has the revision of the document keeps the
document's receipts and every archived block L1 still has (`CopyInv`); a copy of an
older revision is refused when it is written. `Grounded` ties a copy's blocks to
branches that exist, and `ReceiptInv` ties the answers given to the archive, the queue
and what was drained.

**L1Journal.** `OneTransactionPerNonce` speaks of `sent` alone; `NonceInv` ties it to the
rows: a row keeps the first bytes it was given, no two rows that have a nonce share one,
all are below `nextNonce`, and a process sends and L1 holds only bytes that a row has.
`FinalInv` says that what a row or the worker knows of a block was so, and is so if the
block is below the final one and no final block was rewritten since.

**WithdrawalClaims.** `ClaimInv` says of each payout that what L1 made final stays
(`PaidOnce`), that a lease, a link and a broadcast presuppose each other
(`RowsAreBound`), and that fact, operation and claim say nothing that L1 does not
(`SaysPaid`); and of each worker what its task presupposes of the rows (`TaskIsBound`),
whichever rows others changed while it waited. Steps change one payout and one task,
which `OnePayout` turns into one obligation per action.

**CanonicalIndex.** A block is its path, so a parent is a front of it, and blocks at one
height with the same fronts are the same. `IndexInv` says that the journal has one block
a height, each with its parent in the journal, at the anchor or at the floor
(`OneChain`), and that cursors, facts, sidecars and the room's observation are of its
blocks (`Hangs`). While a recovery is open the floor itself may be off the journal: the
branch installed in its place is at its height and what follows hangs on it.
`LosslessInv` holds on top of it as long as L1 replaced no block: the journal is then
L1's own chain without a gap (`JournalIsL1`), the cursors a run read at its start are
still what they are, and none is more than one block behind the block being read
(`RunKnows`): this is what makes a crash after the journal write lose no log, since the
next run starts above the *lowest* of them. The proof needs `BlocksPerRun` to be positive,
as `maxBlocksPerRun` is (`hosted-indexer.ts` 468).

**AggregateBilling.** `BillingInv` adds to the checked properties which rows a job has in
each status (`JobIsSound`), that a job has one canonical outcome and one charged
(`OutcomesAreSound`), and that each charge is due to one outcome. Counters equal sums over
sets that change by one element (`CapacityIsKept`, by the lemmas on cardinalities). The
reconciliation looks at all facts at once; `Unfolds` names the sets of jobs it moves from
one account to another, and `ReconcileStep` is proved once for every action that
reconciles.

**Refinements.** `Settlement`, `WriterEpoch`, `AdmissionLedger` and, from both sides,
`OperationLedger` are proved to be implemented, initial states and every step, and so
the modules that use them in place of the detailed ones rest on proofs.

**Only model-checked.** The liveness properties (`AttemptEnds`, `WatchEnds`,
`SilentNodeForfeits`, `OperationEnds`, `SurpriseIsNoticed`, `RequestIsAnswered`,
`IndexCatchesUp`, `WorkEnds`, `StreamsServeOrEnd`) need `ENABLED` under fairness, which is
beyond the prover, as is induction over data. `RecordsAgree` and `HistoryIsSound` are
proved for a room that is deployed once; beyond that they are false.

## Not modelled, and what comes next

The map covers about 15 % of the lines of `src`. The larger part of the rest keeps
no state of its own: request validation, authorisation and dispatch
(`hosting-routes.ts`, `hosting-capabilities.ts`), read projections of the store,
configuration, presets, contract encodings and fixtures, and the web console, a
separate program. There a model could only repeat single assignments and guards.

Parts of modelled components that are left out are named with each component in
`PROJECT.json`. The ones with state are: principals, wallet sessions and nonces of
the hosted store (single-row operations with one guard each); provider offers,
orders and invoices; room templates and approver epochs; the archive's copies of
sidecars and their repair; template deployment, several rooms under one controller
and idempotency keys of the demo room; the positions told by the proving slot;
the order in which the PostgreSQL queue serves jobs; and reaping of old admission
rows (which may lower the id that `highWater` reads).

Next: the room reconciliation queue; several jobs per aggregate; orders and their
payments.
