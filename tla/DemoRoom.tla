------------------------------- MODULE DemoRoom -------------------------------
(***************************************************************************)
(* One room of the demo control plane: DemoController (demo-controller.ts) *)
(* with the bookkeeping of demo-checkpoint-state.ts, the snapshot file of  *)
(* demo-store.ts, the work a checkpoint does in demo-runtime-checkpoint.ts *)
(* and the L1 room it settles on.                                          *)
(*                                                                         *)
(* The controller is one JavaScript process: the code between two awaits   *)
(* is one step here, and everything else may happen at an await.  A save   *)
(* of the snapshot is such an await.  persist() chains the saves, each     *)
(* save serialises the live snapshot when it starts and renames it into    *)
(* place when it ends, and the code that awaited it goes on in the step    *)
(* that ends it: "writes" is the chain, its head the save in progress when *)
(* "saving" holds.                                                         *)
(*                                                                         *)
(* Data.  A move is its index in room.actions, an attempt (a checkpoint    *)
(* record and the job that runs it) its index in room.checkpoints, an L1   *)
(* room the number of the deployment that created it.  The state root of   *)
(* an L1 room is the sequence of the move sets its batches carried.        *)
(***************************************************************************)
EXTENDS Naturals, Sequences, FiniteSets

CONSTANTS
  SignedRooms,          \* subset of BOOLEAN: do the room's moves carry envelopes
  ActionsPerRoomBlock,  \* pending moves a room block holds (32 in the code)
  MaxMoves,             \* bound: moves ever accepted
  MaxAttempts,          \* bound: checkpoints ever started
  MaxDeploys,           \* bound: deployments ever started
  MaxSaveFailures,      \* bound: saves that fail
  MaxCrashes,           \* bound: restarts of the process
  MaxReorgs             \* bound: L1 reorganisations

ASSUME DemoRoomAssumption ==
  /\ SignedRooms \subseteq BOOLEAN
  /\ ActionsPerRoomBlock \in Nat
  /\ MaxMoves \in Nat /\ MaxAttempts \in Nat /\ MaxDeploys \in Nat
  /\ MaxSaveFailures \in Nat /\ MaxCrashes \in Nat /\ MaxReorgs \in Nat

Attempts == 1..MaxAttempts
Deploys  == 1..MaxDeploys
NoRoom   == 0
Places   == Deploys \cup {NoRoom}
Blocks   == {1, 2}

Phases == {"ROOM_READY", "DEPLOYED", "ACTIVE", "PROVING", "LOCALLY_VERIFIED",
           "L1_PENDING", "L1_ACCEPTED", "L1_FINALIZED", "CLOSED", "FAILED"}
OpenPhases == {"ACTIVE", "L1_FINALIZED"}
Outcomes == {"RUNNING", "ACCEPTED", "FAILED"}

Action == [block : Blocks, checkpointSequence : Nat]
Result == [at : Places, batchIndex : Nat]
Record == [actionIds : SUBSET Nat, outcome : Outcomes, result : Result]
Room   == [signed : BOOLEAN, phase : Phases, chainRoomId : Places,
           actions : Seq(Action), checkpoints : Seq(Record)]
Batch  == [by : Nat, at : Places, pre : Seq(SUBSET Nat), ids : SUBSET Nat]

NoResult == [at |-> NoRoom, batchIndex |-> 0]
NoBatch  == [by |-> 0, at |-> NoRoom, pre |-> << >>, ids |-> {}]

VARIABLES
  room,         \* the room in this.snapshot
  disk,         \* the room in state.json
  written,      \* the snapshot the save in progress serialised (disk when idle)
  saving,       \* a save is in progress
  writes,       \* the chain of persist() calls not yet settled
  job,          \* attempt -> where its code is, the phase to go back to, its batch,
                \* and whether the time budget of its watch is spent
  deploy,       \* deployment -> where its code is
  chain,        \* L1: room -> the batches it accepted, provisional ones included
  final,        \* L1: room -> how many of them are final
  broadcast,    \* L1: the batches whose transaction was ever broadcast
  saveFailures, crashes, reorgs

demoVars == <<room, disk, written, saving, writes, job, deploy>>
l1Vars   == <<chain, final, broadcast>>
bounds   == <<saveFailures, crashes, reorgs>>
vars     == <<demoVars, l1Vars, bounds>>

-------------------------------------------------------------------------------
(* demo-checkpoint-state.ts: pure functions over a stored room *)

RoomIsOpen(r) == r.phase \in OpenPhases

PendingActions(r) ==
  {m \in DOMAIN r.actions : r.actions[m].checkpointSequence = 0}

Running(r) == {k \in DOMAIN r.checkpoints : r.checkpoints[k].outcome = "RUNNING"}

Checkpointable(r) ==
  /\ RoomIsOpen(r)
  /\ r.chainRoomId # NoRoom
  /\ Running(r) = {}
  /\ \A b \in Blocks : \E m \in PendingActions(r) : r.actions[m].block = b

StartCheckpoint(r) ==
  [r EXCEPT !.checkpoints =
     Append(@, [actionIds |-> PendingActions(r), outcome |-> "RUNNING",
                result |-> NoResult])]

SetRecord(r, k, record) == [r EXCEPT !.checkpoints = [@ EXCEPT ![k] = record]]

(* Mutants (here and below): slips in the definition that follows, each of
   which some property of this module must notice. *)
CompleteWithoutCursor(r, k, result) ==
  SetRecord(r, k, [r.checkpoints[k] EXCEPT !.outcome = "ACCEPTED", !.result = result])

CompleteCheckpoint(r, k, result) ==
  LET record  == r.checkpoints[k]
      settled == SetRecord(r, k, [record EXCEPT !.outcome = "ACCEPTED", !.result = result])
  IN [settled EXCEPT !.actions =
        [m \in DOMAIN @ |-> IF m \in record.actionIds
                            THEN [@[m] EXCEPT !.checkpointSequence = k]
                            ELSE @[m]]]

FailCheckpoint(r, k) ==
  SetRecord(r, k, [r.checkpoints[k] EXCEPT !.outcome = "FAILED"])

RestoreAsIs(r) == r

RestoreDropping(r) ==
  [r EXCEPT !.checkpoints = SelectSeq(@, LAMBDA record : record.outcome # "RUNNING")]

(* restoreSnapshot: what the previous process left running is failed *)
RestoreSnapshot(r) ==
  [r EXCEPT !.checkpoints =
     [k \in DOMAIN @ |-> IF @[k].outcome = "RUNNING"
                         THEN [@[k] EXCEPT !.outcome = "FAILED"]
                         ELSE @[k]]]

-------------------------------------------------------------------------------
(* The L1 room (external): a batch opens from the root the room is at *)

Root(batches) == [k \in DOMAIN batches |-> batches[k].ids]

Included(b) == Len(chain[b.at]) > Len(b.pre) /\ chain[b.at][Len(b.pre) + 1] = b
FinalizedWhenAccepted(b) == Included(b)

Finalized(b) == Included(b) /\ final[b.at] > Len(b.pre)

Include(b) ==
  /\ b.pre = Root(chain[b.at])
  /\ chain' = [chain EXCEPT ![b.at] = Append(@, b)]
  /\ UNCHANGED <<demoVars, final, broadcast, bounds>>

Finalize(c) ==
  /\ final[c] < Len(chain[c])
  /\ final' = [final EXCEPT ![c] = @ + 1]
  /\ UNCHANGED <<demoVars, chain, broadcast, bounds>>

Reorg(c) ==
  /\ reorgs < MaxReorgs
  /\ \E keep \in final[c]..(Len(chain[c]) - 1) :
       chain' = [chain EXCEPT ![c] = SubSeq(@, 1, keep)]
  /\ reorgs' = reorgs + 1
  /\ UNCHANGED <<demoVars, final, broadcast, saveFailures, crashes>>

-------------------------------------------------------------------------------
(* persist(): saves are chained and each waiter resumes when its own ends *)

CheckpointTicket(i) == [kind |-> "checkpoint", id |-> i]
DeployTicket(d) == [kind |-> "deploy", id |-> d]
Reply == [kind |-> "reply", id |-> 0]       \* a handler that only answers after it
Tickets == [kind : {"checkpoint", "deploy", "reply"}, id : Nat]

BeginSave ==
  /\ ~saving /\ writes # << >>
  /\ saving' = TRUE
  /\ written' = room
  /\ UNCHANGED <<room, disk, writes, job, deploy, l1Vars, bounds>>

Saved(t) ==
  /\ saving /\ writes # << >> /\ Head(writes) = t
  /\ saving' = FALSE
  /\ disk' = written
  /\ UNCHANGED <<written, saveFailures>>

SaveFailed(t) ==
  /\ saving /\ writes # << >> /\ Head(writes) = t
  /\ saveFailures < MaxSaveFailures
  /\ saveFailures' = saveFailures + 1
  /\ saving' = FALSE
  /\ written' = disk
  /\ UNCHANGED disk

Settled(t) == Saved(t) \/ SaveFailed(t)
NoSave == UNCHANGED <<disk, written, saving, saveFailures>>

EndReply ==
  /\ Settled(Reply)
  /\ writes' = Tail(writes)
  /\ UNCHANGED <<room, job, deploy, l1Vars, crashes, reorgs>>

-------------------------------------------------------------------------------
(* Requests that only change the snapshot *)

AddAction(block) ==
  /\ Len(room.actions) < MaxMoves
  /\ RoomIsOpen(room)
  /\ Cardinality({m \in PendingActions(room) : room.actions[m].block = block})
       < ActionsPerRoomBlock
  /\ room' = [room EXCEPT !.actions =
                Append(@, [block |-> block, checkpointSequence |-> 0])]
  /\ writes' = Append(writes, Reply)
  /\ NoSave
  /\ UNCHANGED <<job, deploy, l1Vars, crashes, reorgs>>

(* this.workers: a job is in it from launch() to its .finally *)
CheckpointWorkers == {i \in Attempts : job[i].pc \notin {"idle", "starting"}}
DeployWorkers == {d \in Deploys : deploy[d] \notin {"idle", "starting", "done"}}

CloseRoom ==
  /\ CheckpointWorkers = {} /\ DeployWorkers = {}
  /\ room.phase # "CLOSED"
  /\ room' = [room EXCEPT !.phase = "CLOSED"]
  /\ writes' = Append(writes, Reply)
  /\ NoSave
  /\ UNCHANGED <<job, deploy, l1Vars, crashes, reorgs>>

-------------------------------------------------------------------------------
(* deployRoom() and the job it launches *)

DeployStates == {"idle", "starting", "launched", "toDeployed", "creating",
                 "toActive", "quiet", "done"}
DeployTo(d, pc) == deploy' = [deploy EXCEPT ![d] = pc]

(* phase(room, p): assign, then await the save *)
DeployPhase(d, p, pc) ==
  /\ room' = [room EXCEPT !.phase = p]
  /\ DeployTo(d, pc)

DeployRoom(d) ==
  /\ deploy[d] = "idle"
  /\ \A e \in Deploys : e < d => deploy[e] # "idle"
  /\ room.phase = "ROOM_READY"
  /\ DeployTo(d, "starting")
  /\ writes' = Append(writes, DeployTicket(d))
  /\ NoSave
  /\ UNCHANGED <<room, job, l1Vars, crashes, reorgs>>

LaunchDeploy(d) ==
  /\ deploy[d] = "starting"
  /\ \/ Saved(DeployTicket(d)) /\ DeployTo(d, "launched")
     \/ SaveFailed(DeployTicket(d)) /\ DeployTo(d, "done")
  /\ writes' = Tail(writes)
  /\ UNCHANGED <<room, job, l1Vars, crashes, reorgs>>

BeginDeployment(d) ==
  /\ deploy[d] = "launched"
  /\ DeployPhase(d, "DEPLOYED", "toDeployed")
  /\ writes' = Append(writes, DeployTicket(d))
  /\ NoSave
  /\ UNCHANGED <<job, l1Vars, crashes, reorgs>>

SendCreateRoom(d) ==
  /\ deploy[d] = "toDeployed"
  /\ Saved(DeployTicket(d))
  /\ DeployTo(d, "creating")
  /\ writes' = Tail(writes)
  /\ UNCHANGED <<room, job, l1Vars, crashes, reorgs>>

RoomCreated(d) ==
  /\ deploy[d] = "creating"
  /\ room' = [room EXCEPT !.chainRoomId = d, !.phase = "ACTIVE"]
  /\ DeployTo(d, "toActive")
  /\ writes' = Append(writes, DeployTicket(d))
  /\ NoSave
  /\ UNCHANGED <<job, l1Vars, crashes, reorgs>>

DeployDone(d) ==
  /\ deploy[d] = "toActive"
  /\ Saved(DeployTicket(d))
  /\ DeployTo(d, "quiet")
  /\ writes' = Append(Tail(writes), DeployTicket(d))
  /\ UNCHANGED <<room, job, l1Vars, crashes, reorgs>>

(* launch()'s catch without a recover function: the room becomes FAILED *)
DeployFails(d) ==
  /\ \/ /\ deploy[d] \in {"launched", "creating"}
        /\ NoSave
        /\ writes' = Append(writes, DeployTicket(d))
     \/ /\ deploy[d] \in {"toDeployed", "toActive"}
        /\ SaveFailed(DeployTicket(d))
        /\ writes' = Append(Tail(writes), DeployTicket(d))
  /\ DeployPhase(d, "FAILED", "quiet")
  /\ UNCHANGED <<job, l1Vars, crashes, reorgs>>

(* persistQuietly(), then .finally leaves this.workers *)
EndDeploy(d) ==
  /\ deploy[d] = "quiet"
  /\ Settled(DeployTicket(d))
  /\ DeployTo(d, "done")
  /\ writes' = Tail(writes)
  /\ UNCHANGED <<room, job, l1Vars, crashes, reorgs>>

-------------------------------------------------------------------------------
(* checkpointRoom(): the request, and launch() once its save has ended *)

IdleJob == [pc |-> "idle", open |-> "ACTIVE", batch |-> NoBatch, late |-> FALSE]
JobTo(i, pc) == job' = [job EXCEPT ![i].pc = pc]

CheckpointRoom(i) ==
  /\ i = Len(room.checkpoints) + 1
  /\ Checkpointable(room)
  /\ room' = StartCheckpoint(room)
  /\ job' = [job EXCEPT ![i] = [IdleJob EXCEPT !.pc = "starting", !.open = room.phase]]
  /\ writes' = Append(writes, CheckpointTicket(i))
  /\ NoSave
  /\ UNCHANGED <<deploy, l1Vars, crashes, reorgs>>

(* the states of a job whose work holds the proving slot *)
AfterPhase == [toProving   |-> "proving",    toVerified  |-> "verified",
               toPending   |-> "submitting", toAccepted  |-> "accepted",
               toRetracted |-> "watching",   toFinalized |-> "checking"]
Awaiting == {"reading", "prepared", "proving", "verified", "submitting",
             "watching", "accepted", "checking"}
JobStates == Awaiting \cup DOMAIN AfterPhase
             \cup {"idle", "starting", "reporting", "queued", "completing", "quiet"}
InSlot(i) == job[i].pc \in Awaiting \cup DOMAIN AfterPhase \cup {"completing"}
SlotFree == \A i \in Attempts : ~InSlot(i)

(* the slot may also be held for another subject: then the job queues *)
LaunchCheckpoint(i) ==
  /\ job[i].pc = "starting"
  /\ Saved(CheckpointTicket(i))
  /\ \/ SlotFree /\ JobTo(i, "reading") /\ writes' = Tail(writes)
     \/ JobTo(i, "reporting") /\ writes' = Append(Tail(writes), CheckpointTicket(i))
  /\ UNCHANGED <<room, deploy, l1Vars, crashes, reorgs>>

(* the save fails: checkpointRoom() throws to its caller, no job is launched *)
CheckpointRefused(i) ==
  /\ job[i].pc = "starting"
  /\ SaveFailed(CheckpointTicket(i))
  /\ job' = [job EXCEPT ![i] = IdleJob]
  /\ writes' = Tail(writes)
  /\ UNCHANGED <<room, deploy, l1Vars, crashes, reorgs>>

(* run(): a failed report is swallowed, the wait is what matters *)
Reported(i) ==
  /\ job[i].pc = "reporting"
  /\ Settled(CheckpointTicket(i))
  /\ JobTo(i, "queued")
  /\ writes' = Tail(writes)
  /\ UNCHANGED <<room, deploy, l1Vars, crashes, reorgs>>

TakeSlot(i) ==
  /\ job[i].pc = "queued"
  /\ SlotFree
  /\ JobTo(i, "reading")
  /\ NoSave
  /\ UNCHANGED <<room, writes, deploy, l1Vars, crashes, reorgs>>

-------------------------------------------------------------------------------
(* runCheckpoint() *)

(* the moves of the accepted attempts, in order *)
ProvedHistory(r) ==
  LET upTo[n \in 0 .. Len(r.checkpoints)] ==
        IF n = 0 THEN << >>
        ELSE IF r.checkpoints[n].outcome = "ACCEPTED"
             THEN Append(upTo[n - 1], r.checkpoints[n].actionIds)
             ELSE upTo[n - 1]
  IN upTo[Len(r.checkpoints)]

(* continuationOf() the head just read; batch 1 of a fresh room is not one *)
IsContinuation(i, head) == i > 1 \/ Len(head) > 0

(* replayRequest(): past batch 1, a browser-signed room replays every block it
   proved, and refuses when they are not as many as L1 says *)
Replays(r, head) == r.signed /\ Len(head) > 0
ReplayPossible(r, head) == Replays(r, head) => Len(ProvedHistory(r)) = Len(head)

(* what the prover prepares: the replayed history, or batch 1 from scratch *)
PreparedFrom(r, head) == IF Replays(r, head) THEN ProvedHistory(r) ELSE << >>

(* assertPreparedMatches(): the batch index is that of the pre-state root *)
PreparedMatches(pre, i, head) == IsContinuation(i, head) => pre = head

Prepare(i) ==
  LET head == Root(chain[room.chainRoomId])
      pre  == PreparedFrom(room, head)
  IN /\ job[i].pc = "reading"
     /\ ReplayPossible(room, head)
     /\ PreparedMatches(pre, i, head)
     /\ job' = [job EXCEPT
                  ![i].pc = "prepared",
                  ![i].batch = [by |-> i, at |-> room.chainRoomId, pre |-> pre,
                                ids |-> room.checkpoints[i].actionIds]]
     /\ NoSave
     /\ UNCHANGED <<room, writes, deploy, l1Vars, crashes, reorgs>>

(* onPhase(p): the job is at "from", assigns the phase and awaits the save *)
OnPhase(i, from, p, pc) ==
  /\ job[i].pc = from
  /\ room' = [room EXCEPT !.phase = p]
  /\ JobTo(i, pc)
  /\ writes' = Append(writes, CheckpointTicket(i))
  /\ NoSave
  /\ UNCHANGED <<deploy, l1Vars, crashes, reorgs>>

PhaseSaved(i) ==
  /\ job[i].pc \in DOMAIN AfterPhase
  /\ Saved(CheckpointTicket(i))
  /\ JobTo(i, AfterPhase[job[i].pc])
  /\ writes' = Tail(writes)
  /\ UNCHANGED <<room, deploy, l1Vars, crashes, reorgs>>

BeginProving(i) == OnPhase(i, "prepared", "PROVING", "toProving")
ProofVerified(i) == OnPhase(i, "proving", "LOCALLY_VERIFIED", "toVerified")
BeginSubmission(i) == OnPhase(i, "verified", "L1_PENDING", "toPending")

(* submitBatch names the room's chainRoomId of now, the journal its own: a
   transaction that names another room reverts *)
Submit(i) ==
  /\ job[i].pc = "submitting"
  /\ broadcast' = IF room.chainRoomId = job[i].batch.at
                  THEN broadcast \cup {job[i].batch} ELSE broadcast
  /\ JobTo(i, "watching")
  /\ NoSave
  /\ UNCHANGED <<room, writes, deploy, chain, final, crashes, reorgs>>

(* watchSettlement() as the calls Settlement has; SettlementWatcher has its reads.
   The loop looks at its budget on every turn: once it is spent, only the throw
   of CheckpointFails is left. *)
Watching == {"watching", "toAccepted", "accepted", "toRetracted"}

NoBudget(i) == TRUE

WithinBudget(i) == ~job[i].late

SpendBudget(i) ==
  /\ job[i].pc \in Watching /\ ~job[i].late
  /\ job' = [job EXCEPT ![i].late = TRUE]
  /\ NoSave
  /\ UNCHANGED <<room, writes, deploy, l1Vars, crashes, reorgs>>

(* again without a retraction when the batch was found in another block: no
   placement is kept here, but only a reorganisation changes one *)
BatchAccepted(i) ==
  /\ \/ OnPhase(i, "watching", "L1_ACCEPTED", "toAccepted")
     \/ reorgs > 0 /\ OnPhase(i, "accepted", "L1_ACCEPTED", "toAccepted")
  /\ WithinBudget(i)
  /\ Included(job[i].batch)

(* any receipt read may fail or come back empty: the batch may still be there *)
BatchRetracted(i) ==
  /\ OnPhase(i, "accepted", "L1_PENDING", "toRetracted")
  /\ WithinBudget(i)

BatchFinalized(i) ==
  /\ OnPhase(i, "accepted", "L1_FINALIZED", "toFinalized")
  /\ WithinBudget(i)
  /\ Finalized(job[i].batch)

(* the settled root is compared, the cursor moves, and the phase is saved *)
Complete(i) ==
  LET batch  == job[i].batch
      result == [at |-> batch.at, batchIndex |-> Len(batch.pre) + 1]
  IN /\ job[i].pc = "checking"
     /\ Root(chain[room.chainRoomId]) = Append(batch.pre, batch.ids)
     /\ room' = [CompleteCheckpoint(room, i, result) EXCEPT !.phase = "L1_FINALIZED"]
     /\ JobTo(i, "completing")
     /\ writes' = Append(writes, CheckpointTicket(i))
     /\ NoSave
     /\ UNCHANGED <<deploy, l1Vars, crashes, reorgs>>

CheckpointDone(i) ==
  /\ job[i].pc = "completing"
  /\ Saved(CheckpointTicket(i))
  /\ JobTo(i, "quiet")
  /\ writes' = Append(Tail(writes), CheckpointTicket(i))
  /\ UNCHANGED <<room, deploy, l1Vars, crashes, reorgs>>

(* any await of the work may throw; launch()'s catch fails the record and
   puts the room back in the phase the request found it in *)
CheckpointFails(i) ==
  /\ \/ /\ job[i].pc \in Awaiting
        /\ NoSave
        /\ writes' = Append(writes, CheckpointTicket(i))
     \/ /\ job[i].pc \in DOMAIN AfterPhase \cup {"completing"}
        /\ SaveFailed(CheckpointTicket(i))
        /\ writes' = Append(Tail(writes), CheckpointTicket(i))
  /\ room' = [FailCheckpoint(room, i) EXCEPT !.phase = job[i].open]
  /\ JobTo(i, "quiet")
  /\ UNCHANGED <<deploy, l1Vars, crashes, reorgs>>

EndCheckpoint(i) ==
  /\ job[i].pc = "quiet"
  /\ Settled(CheckpointTicket(i))
  /\ job' = [job EXCEPT ![i] = IdleJob]
  /\ writes' = Tail(writes)
  /\ UNCHANGED <<room, deploy, l1Vars, crashes, reorgs>>

-------------------------------------------------------------------------------
(* The process dies and starts again: initialize() repairs the snapshot it
   loads and saves it before the first request *)

Restart ==
  /\ crashes < MaxCrashes
  /\ crashes' = crashes + 1
  /\ room' = RestoreSnapshot(disk)
  /\ disk' = room'
  /\ written' = room'
  /\ saving' = FALSE
  /\ writes' = << >>
  /\ job' = [i \in Attempts |-> IdleJob]
  /\ deploy' = [d \in Deploys |-> IF deploy[d] = "idle" THEN "idle" ELSE "done"]
  /\ UNCHANGED <<l1Vars, saveFailures, reorgs>>

Init ==
  /\ \E signed \in SignedRooms :
       room = [signed |-> signed, phase |-> "ROOM_READY", chainRoomId |-> NoRoom,
               actions |-> << >>, checkpoints |-> << >>]
  /\ disk = room
  /\ written = room
  /\ saving = FALSE
  /\ writes = << >>
  /\ job = [i \in Attempts |-> IdleJob]
  /\ deploy = [d \in Deploys |-> "idle"]
  /\ chain = [d \in Deploys |-> << >>]
  /\ final = [d \in Deploys |-> 0]
  /\ broadcast = {}
  /\ saveFailures = 0 /\ crashes = 0 /\ reorgs = 0

DeployStep(d) ==
  \/ LaunchDeploy(d) \/ BeginDeployment(d) \/ SendCreateRoom(d) \/ RoomCreated(d)
  \/ DeployDone(d) \/ DeployFails(d) \/ EndDeploy(d)

CheckpointStep(i) ==
  \/ LaunchCheckpoint(i) \/ CheckpointRefused(i) \/ Reported(i) \/ TakeSlot(i)
  \/ Prepare(i) \/ BeginProving(i) \/ ProofVerified(i) \/ BeginSubmission(i)
  \/ PhaseSaved(i) \/ Submit(i)
  \/ SpendBudget(i) \/ BatchAccepted(i) \/ BatchRetracted(i) \/ BatchFinalized(i)
  \/ Complete(i) \/ CheckpointDone(i) \/ CheckpointFails(i) \/ EndCheckpoint(i)

L1Step ==
  \/ \E b \in broadcast : Include(b)
  \/ \E c \in Deploys : Finalize(c) \/ Reorg(c)

Next ==
  \/ BeginSave \/ EndReply
  \/ \E block \in Blocks : AddAction(block)
  \/ CloseRoom
  \/ \E d \in Deploys : DeployRoom(d) \/ DeployStep(d)
  \/ \E i \in Attempts : CheckpointRoom(i) \/ CheckpointStep(i)
  \/ L1Step
  \/ Restart

Spec == Init /\ [][Next]_vars

(* The event loop: a save that can start or end does, an await settles (the
   proof service and the L1 calls carry time budgets), and the clock reaches the
   stopAt of a watch.  Nothing is assumed of L1 or of the requests. *)
Fairness ==
  /\ WF_vars(BeginSave) /\ WF_vars(EndReply)
  /\ \A d \in Deploys : WF_vars(DeployStep(d))
  /\ \A i \in Attempts : WF_vars(CheckpointStep(i)) /\ WF_vars(SpendBudget(i))

FairSpec == Spec /\ Fairness
-------------------------------------------------------------------------------
(* Properties *)

(* Every variable has its type, and no more batches are final than included. *)
TypeOK ==
  /\ room \in Room /\ disk \in Room /\ written \in Room
  /\ saving \in BOOLEAN
  /\ writes \in Seq(Tickets)
  /\ job \in [Attempts -> [pc : JobStates, open : OpenPhases, batch : Batch, late : BOOLEAN]]
  /\ deploy \in [Deploys -> DeployStates]
  /\ chain \in [Deploys -> Seq(Batch)]
  /\ final \in [Deploys -> Nat]
  /\ \A c \in Deploys : final[c] <= Len(chain[c])
  /\ broadcast \subseteq Batch
  /\ saveFailures \in Nat /\ crashes \in Nat /\ reorgs \in Nat

SettledRecord(r, k) ==
  LET record == r.checkpoints[k]
  IN /\ record.result.at \in Deploys
     /\ record.result.batchIndex \in 1..final[record.result.at]
     /\ chain[record.result.at][record.result.batchIndex].by = k
     /\ chain[record.result.at][record.result.batchIndex].ids = record.actionIds

(* A checkpoint the controller reports ACCEPTED, live or in the snapshot file,
   is a final batch of the L1 room that carries exactly the record's moves: no
   reorganisation, restart or lost save makes the record claim more than L1
   holds.  (completeCheckpoint, watchSettlement) *)
AcceptedIsFinal ==
  \A r \in {room, disk, written} : \A k \in DOMAIN r.checkpoints :
    r.checkpoints[k].outcome = "ACCEPTED" => SettledRecord(r, k)

(* The cursor of a move names the one ACCEPTED attempt that carried it, and a
   move no accepted attempt carried is pending: the next checkpoint carries
   exactly what was never settled.  It is stated for a disk whose saves
   succeed: completeCheckpoint moves the cursor before a save whose failure
   fails the attempt.
   (completeCheckpoint, failCheckpoint) *)
CursorOf(r) ==
  \A m \in DOMAIN r.actions : \A k \in DOMAIN r.checkpoints :
    (r.actions[m].checkpointSequence = k) <=>
      /\ r.checkpoints[k].outcome = "ACCEPTED"
      /\ m \in r.checkpoints[k].actionIds
CursorMatchesRecords == saveFailures = 0 => CursorOf(room) /\ CursorOf(disk)

(* No move is in two batches of an L1 room, provisional batches included:
   a failed, retried or late attempt never settles a move a second time.
   (replayRequest, assertPreparedMatches and the cursor) *)
SettledOnce ==
  \A c \in Deploys : \A j, k \in DOMAIN chain[c] :
    j # k => chain[c][j].ids \cap chain[c][k].ids = {}

(* The attempt behind every transaction ever broadcast is in the snapshot file
   with the moves the transaction carries: a restart cannot reuse its sequence
   number for other moves.  (checkpointRoom saves before it launches, and
   restoreSnapshot keeps the records it fails) *)
AttemptIsDurable ==
  \A b \in broadcast :
    /\ b.by \in DOMAIN disk.checkpoints
    /\ disk.checkpoints[b.by].actionIds = b.ids

(* A RUNNING record has a job that will end it: while saves do not fail, no
   crash, refusal or race leaves a record that blocks every later checkpoint.
   (checkpointRoom, launch, restoreSnapshot) *)
RunningHasWorker ==
  saveFailures = 0 => \A k \in Running(room) :
    k \in Attempts /\ job[k].pc \notin {"idle", "quiet", "completing"}

(* While a batch is between the proof and its finality the room accepts no
   move: L1_ACCEPTED is provisional.  (addAction, roomIsOpen) *)
InFlight(i) == job[i].pc \in {"toProving", "proving", "toVerified", "verified",
                 "toPending", "submitting", "watching", "toAccepted", "accepted",
                 "toRetracted"}
InFlightIsClosed == \A i \in Attempts : InFlight(i) => ~RoomIsOpen(room)

(* A batch opens from the history the room's own records describe: what the
   next attempt proves is a continuation of what was accepted, never of an
   unrecorded or retracted batch.  (runCheckpoint) *)
BatchExtendsHistory ==
  \A i \in Attempts :
    InFlight(i) => job[i].batch.pre = ProvedHistory(room)

(* What L1 holds of a room is one history: no move twice, and every batch under way
   continues what the records say was accepted. *)
HistoryIsSound == SettledOnce /\ BatchExtendsHistory

(* The records of the checkpoints agree with the moves' cursors, with the jobs, and a
   batch under way keeps its room closed to moves. *)
RecordsAgree == CursorMatchesRecords /\ RunningHasWorker /\ InFlightIsClosed

(* A closed room stays closed. (closeRoom: "prevents a second caller from
   closing underneath a deployment or proof still in flight") *)
ClosedStaysClosed == [][room.phase = "CLOSED" => room'.phase = "CLOSED"]_vars

(* A deployed room no job works on accepts moves and checkpoints unless it is
   closed.  (restoreSnapshot: "Checkpoint the room again; exactly the same
   moves will be proved.") *)
IdleRoomIsOpen ==
  (/\ room.chainRoomId # NoRoom
   /\ room.phase # "CLOSED"
   /\ CheckpointWorkers = {} /\ DeployWorkers = {})
  => RoomIsOpen(room)

(* Every attempt ends: its record is ACCEPTED or FAILED as long as no save fails,
   though L1 may include the batch or not, and the reads of its receipt may fail
   and come back for ever, so that acceptances and retractions go on: the budget of
   the watch ends them.  (stopAt of watchSettlement, the budget of post(), launch's
   catch, restoreSnapshot) *)
AttemptEnds ==
  \A i \in Attempts :
    (i \in Running(room) /\ saveFailures = 0)
      ~> (i \notin Running(room) \/ saveFailures > 0)

=============================================================================
