---------------------------- MODULE DemoRoom_proofs ----------------------------
(***************************************************************************)
(* Theorems about one demo room, for every number of moves, attempts,      *)
(* deployments, lost saves, crashes and reorganisations.                   *)
(***************************************************************************)
EXTENDS DemoRoom, SequenceTheorems, WellFoundedInduction, TLAPS

-------------------------------------------------------------------------------
(* What the pure functions over a stored room return *)

LEMMA SeqOfLength ==
  ASSUME NEW S, NEW s \in Seq(S), NEW T, NEW f \in [DOMAIN s -> T]
  PROVE  f \in Seq(T) /\ Len(f) = Len(s) /\ DOMAIN f = DOMAIN s
<1>1. Len(s) \in Nat /\ DOMAIN s = 1..Len(s)
  BY LenProperties
<1>2. f \in Seq(T)
  BY <1>1, SeqDef
<1> QED
  BY <1>1, <1>2, LenProperties

LEMMA SeqUpdate ==
  ASSUME NEW S, NEW s \in Seq(S), NEW i, NEW e, i \in DOMAIN s => e \in S
  PROVE  /\ [s EXCEPT ![i] = e] \in Seq(S)
         /\ DOMAIN [s EXCEPT ![i] = e] = DOMAIN s
         /\ \A j \in DOMAIN s : [s EXCEPT ![i] = e][j] = IF j = i THEN e ELSE s[j]
<1>1. [s EXCEPT ![i] = e] \in [DOMAIN s -> S]
  BY LenProperties
<1> QED
  BY <1>1, SeqOfLength

LEMMA RecordUpdate ==
  ASSUME NEW record \in Record, NEW outcome \in Outcomes, NEW result \in Result
  PROVE  /\ [record EXCEPT !.outcome = outcome] \in Record
         /\ [record EXCEPT !.outcome = outcome].outcome = outcome
         /\ [record EXCEPT !.outcome = outcome].actionIds = record.actionIds
         /\ [record EXCEPT !.outcome = outcome, !.result = result] \in Record
         /\ [record EXCEPT !.outcome = outcome, !.result = result].result = result
         /\ [record EXCEPT !.outcome = outcome, !.result = result].actionIds = record.actionIds
BY DEF Record

LEMMA RoomRecord ==
  ASSUME NEW r \in Room
  PROVE  /\ r.checkpoints \in Seq(Record) /\ r.actions \in Seq(Action)
         /\ r.phase \in Phases /\ r.chainRoomId \in Places /\ r.signed \in BOOLEAN
         /\ Len(r.checkpoints) \in Nat
         /\ DOMAIN r.checkpoints = 1..Len(r.checkpoints)
         /\ \A k \in DOMAIN r.checkpoints : r.checkpoints[k] \in Record
<1>1. /\ r.checkpoints \in Seq(Record) /\ r.actions \in Seq(Action)
      /\ r.phase \in Phases /\ r.chainRoomId \in Places /\ r.signed \in BOOLEAN
  BY DEF Room
<1> QED
  BY <1>1, LenProperties, ElementOfSeq

LEMMA WithCheckpoints ==
  ASSUME NEW r \in Room, NEW records \in Seq(Record)
  PROVE  LET q == [r EXCEPT !.checkpoints = records] IN
         /\ q \in Room
         /\ q.checkpoints = records
         /\ q.actions = r.actions
         /\ q.chainRoomId = r.chainRoomId
         /\ q.phase = r.phase
BY DEF Room

LEMMA StartCheckpointType ==
  ASSUME NEW r \in Room
  PROVE  /\ StartCheckpoint(r) \in Room
         /\ StartCheckpoint(r).actions = r.actions
         /\ StartCheckpoint(r).chainRoomId = r.chainRoomId
         /\ StartCheckpoint(r).phase = r.phase
         /\ DOMAIN StartCheckpoint(r).checkpoints = 1..(Len(r.checkpoints) + 1)
         /\ \A k \in DOMAIN r.checkpoints :
              StartCheckpoint(r).checkpoints[k] = r.checkpoints[k]
         /\ StartCheckpoint(r).checkpoints[Len(r.checkpoints) + 1].outcome = "RUNNING"
         /\ StartCheckpoint(r).checkpoints[Len(r.checkpoints) + 1].actionIds = PendingActions(r)
<1> DEFINE record == [actionIds |-> PendingActions(r), outcome |-> "RUNNING",
                      result |-> NoResult]
           records == Append(r.checkpoints, record)
<1>1. PendingActions(r) \in SUBSET Nat
  BY DEF PendingActions, Room
<1>2. record \in Record /\ record.outcome = "RUNNING" /\ record.actionIds = PendingActions(r)
  BY <1>1 DEF Record, Outcomes, Result, NoResult, Places
<1>3. StartCheckpoint(r) = [r EXCEPT !.checkpoints = records]
  BY DEF StartCheckpoint
<1>4. r.checkpoints \in Seq(Record)
  BY DEF Room
<1> HIDE DEF record
<1>5. /\ records \in Seq(Record)
      /\ DOMAIN records = 1..(Len(r.checkpoints) + 1)
      /\ \A k \in DOMAIN r.checkpoints : records[k] = r.checkpoints[k]
      /\ records[Len(r.checkpoints) + 1] = record
  BY <1>2, <1>4
<1> HIDE DEF records
<1> QED
  BY <1>2, <1>3, <1>5, WithCheckpoints

LEMMA SetRecordType ==
  ASSUME NEW r \in Room, NEW k \in Nat, NEW record,
         k \in DOMAIN r.checkpoints => record \in Record
  PROVE  /\ SetRecord(r, k, record) \in Room
         /\ SetRecord(r, k, record).actions = r.actions
         /\ SetRecord(r, k, record).chainRoomId = r.chainRoomId
         /\ DOMAIN SetRecord(r, k, record).checkpoints = DOMAIN r.checkpoints
         /\ \A j \in DOMAIN r.checkpoints :
              SetRecord(r, k, record).checkpoints[j] = IF j = k THEN record ELSE r.checkpoints[j]
<1> DEFINE records == [r.checkpoints EXCEPT ![k] = record]
<1>1. r.checkpoints \in Seq(Record)
  BY DEF Room
<1>2. /\ records \in Seq(Record)
      /\ DOMAIN records = DOMAIN r.checkpoints
      /\ \A j \in DOMAIN r.checkpoints : records[j] = IF j = k THEN record ELSE r.checkpoints[j]
  BY <1>1, RoomRecord, SeqUpdate
<1>3. SetRecord(r, k, record) = [r EXCEPT !.checkpoints = records]
  BY DEF SetRecord
<1> HIDE DEF records
<1> QED
  BY <1>2, <1>3, WithCheckpoints

LEMMA FailCheckpointType ==
  ASSUME NEW r \in Room, NEW k \in Nat
  PROVE  /\ FailCheckpoint(r, k) \in Room
         /\ FailCheckpoint(r, k).actions = r.actions
         /\ FailCheckpoint(r, k).chainRoomId = r.chainRoomId
         /\ DOMAIN FailCheckpoint(r, k).checkpoints = DOMAIN r.checkpoints
         /\ \A j \in DOMAIN r.checkpoints :
              /\ FailCheckpoint(r, k).checkpoints[j].actionIds = r.checkpoints[j].actionIds
              /\ j # k => FailCheckpoint(r, k).checkpoints[j] = r.checkpoints[j]
              /\ j = k => FailCheckpoint(r, k).checkpoints[j].outcome = "FAILED"
<1> DEFINE record == [r.checkpoints[k] EXCEPT !.outcome = "FAILED"]
<1>1. k \in DOMAIN r.checkpoints =>
        /\ record \in Record /\ record.outcome = "FAILED"
        /\ record.actionIds = r.checkpoints[k].actionIds
  <2> SUFFICES ASSUME k \in DOMAIN r.checkpoints
               PROVE  /\ record \in Record /\ record.outcome = "FAILED"
                      /\ record.actionIds = r.checkpoints[k].actionIds
    OBVIOUS
  <2>1. r.checkpoints[k] \in Record /\ r.checkpoints[k].result \in Result
    BY RoomRecord DEF Record
  <2>2. "FAILED" \in Outcomes
    BY DEF Outcomes
  <2> QED
    BY <2>1, <2>2, RecordUpdate
<1>2. FailCheckpoint(r, k) = SetRecord(r, k, record)
  BY DEF FailCheckpoint
<1> HIDE DEF record
<1> QED
  BY <1>1, <1>2, SetRecordType

LEMMA CompleteCheckpointEffect ==
  ASSUME NEW r \in Room, NEW k \in Nat, NEW result \in Result
  PROVE  /\ CompleteCheckpoint(r, k, result) \in Room
         /\ DOMAIN CompleteCheckpoint(r, k, result).actions = DOMAIN r.actions
         /\ \A m \in DOMAIN r.actions :
              CompleteCheckpoint(r, k, result).actions[m].checkpointSequence
                = IF m \in r.checkpoints[k].actionIds THEN k
                  ELSE r.actions[m].checkpointSequence
         /\ CompleteCheckpoint(r, k, result).chainRoomId = r.chainRoomId
         /\ DOMAIN CompleteCheckpoint(r, k, result).checkpoints = DOMAIN r.checkpoints
         /\ \A j \in DOMAIN r.checkpoints :
              /\ CompleteCheckpoint(r, k, result).checkpoints[j].actionIds
                   = r.checkpoints[j].actionIds
              /\ j # k => CompleteCheckpoint(r, k, result).checkpoints[j] = r.checkpoints[j]
              /\ j = k => /\ CompleteCheckpoint(r, k, result).checkpoints[j].outcome = "ACCEPTED"
                          /\ CompleteCheckpoint(r, k, result).checkpoints[j].result = result
<1> DEFINE record == [r.checkpoints[k] EXCEPT !.outcome = "ACCEPTED", !.result = result]
           settled == SetRecord(r, k, record)
           actions == [m \in DOMAIN r.actions |->
                         IF m \in r.checkpoints[k].actionIds
                         THEN [r.actions[m] EXCEPT !.checkpointSequence = k]
                         ELSE r.actions[m]]
<1>1. k \in DOMAIN r.checkpoints =>
        /\ record \in Record /\ record.result = result /\ record.outcome = "ACCEPTED"
        /\ record.actionIds = r.checkpoints[k].actionIds
  <2> SUFFICES ASSUME k \in DOMAIN r.checkpoints
               PROVE  /\ record \in Record /\ record.result = result
                      /\ record.outcome = "ACCEPTED"
                      /\ record.actionIds = r.checkpoints[k].actionIds
    OBVIOUS
  <2>1. r.checkpoints[k] \in Record
    BY RoomRecord
  <2>2. ASSUME NEW old \in Record
        PROVE  LET rec == [old EXCEPT !.outcome = "ACCEPTED", !.result = result] IN
               /\ rec \in Record /\ rec.result = result /\ rec.outcome = "ACCEPTED"
               /\ rec.actionIds = old.actionIds
    BY DEF Record, Outcomes
  <2> QED
    BY <2>1, <2>2
<1>2. /\ actions \in Seq(Action) /\ DOMAIN actions = DOMAIN r.actions
      /\ \A m \in DOMAIN r.actions :
           actions[m].checkpointSequence
             = IF m \in r.checkpoints[k].actionIds THEN k ELSE r.actions[m].checkpointSequence
  <2>1. r.actions \in Seq(Action) /\ \A m \in DOMAIN r.actions : r.actions[m] \in Action
    BY RoomRecord, LenProperties, ElementOfSeq
  <2>2. ASSUME NEW action \in Action
        PROVE  /\ [action EXCEPT !.checkpointSequence = k] \in Action
               /\ [action EXCEPT !.checkpointSequence = k].checkpointSequence = k
    BY DEF Action
  <2>3. actions \in [DOMAIN r.actions -> Action]
    BY <2>1, <2>2
  <2>4. \A m \in DOMAIN r.actions :
          actions[m].checkpointSequence
            = IF m \in r.checkpoints[k].actionIds THEN k ELSE r.actions[m].checkpointSequence
    BY <2>1, <2>2
  <2> HIDE DEF actions
  <2> QED
    BY <2>1, <2>3, <2>4, SeqOfLength
<1> HIDE DEF record
<1>3. /\ settled \in Room
      /\ settled.actions = r.actions
      /\ settled.chainRoomId = r.chainRoomId
      /\ DOMAIN settled.checkpoints = DOMAIN r.checkpoints
      /\ \A j \in DOMAIN r.checkpoints :
           settled.checkpoints[j] = IF j = k THEN record ELSE r.checkpoints[j]
  BY <1>1, SetRecordType
<1>4. CompleteCheckpoint(r, k, result) = [settled EXCEPT !.actions = actions]
  <2>1. CompleteCheckpoint(r, k, result)
          = [settled EXCEPT !.actions =
               [m \in DOMAIN settled.actions |->
                  IF m \in r.checkpoints[k].actionIds
                  THEN [settled.actions[m] EXCEPT !.checkpointSequence = k]
                  ELSE settled.actions[m]]]
    BY DEF CompleteCheckpoint, record
  <2> HIDE DEF settled
  <2> QED
    BY <1>3, <2>1
<1> HIDE DEF settled, actions
<1>5. /\ [settled EXCEPT !.actions = actions] \in Room
      /\ [settled EXCEPT !.actions = actions].chainRoomId = settled.chainRoomId
      /\ [settled EXCEPT !.actions = actions].checkpoints = settled.checkpoints
      /\ [settled EXCEPT !.actions = actions].actions = actions
  BY <1>2, <1>3 DEF Room
<1> QED
  BY <1>1, <1>2, <1>3, <1>4, <1>5

LEMMA CompleteCheckpointType ==
  ASSUME NEW r \in Room, NEW k \in Nat, NEW result \in Result
  PROVE  /\ CompleteCheckpoint(r, k, result) \in Room
         /\ CompleteCheckpoint(r, k, result).chainRoomId = r.chainRoomId
         /\ DOMAIN CompleteCheckpoint(r, k, result).checkpoints = DOMAIN r.checkpoints
         /\ \A j \in DOMAIN r.checkpoints :
              /\ CompleteCheckpoint(r, k, result).checkpoints[j].actionIds
                   = r.checkpoints[j].actionIds
              /\ j # k => CompleteCheckpoint(r, k, result).checkpoints[j] = r.checkpoints[j]
              /\ j = k => CompleteCheckpoint(r, k, result).checkpoints[j].result = result
BY CompleteCheckpointEffect

LEMMA RestoreSnapshotType ==
  ASSUME NEW r \in Room
  PROVE  /\ RestoreSnapshot(r) \in Room
         /\ RestoreSnapshot(r).actions = r.actions
         /\ RestoreSnapshot(r).chainRoomId = r.chainRoomId
         /\ DOMAIN RestoreSnapshot(r).checkpoints = DOMAIN r.checkpoints
         /\ \A j \in DOMAIN r.checkpoints :
              /\ RestoreSnapshot(r).checkpoints[j].actionIds = r.checkpoints[j].actionIds
              /\ RestoreSnapshot(r).checkpoints[j].outcome # "RUNNING"
              /\ RestoreSnapshot(r).checkpoints[j].outcome = "ACCEPTED"
                   <=> r.checkpoints[j].outcome = "ACCEPTED"
              /\ RestoreSnapshot(r).checkpoints[j].outcome = "ACCEPTED"
                   => RestoreSnapshot(r).checkpoints[j] = r.checkpoints[j]
<1> DEFINE records == [k \in DOMAIN r.checkpoints |->
                         IF r.checkpoints[k].outcome = "RUNNING"
                         THEN [r.checkpoints[k] EXCEPT !.outcome = "FAILED"]
                         ELSE r.checkpoints[k]]
<1>1. \A k \in DOMAIN r.checkpoints :
        /\ r.checkpoints[k] \in Record
        /\ [r.checkpoints[k] EXCEPT !.outcome = "FAILED"] \in Record
        /\ [r.checkpoints[k] EXCEPT !.outcome = "FAILED"].outcome = "FAILED"
        /\ [r.checkpoints[k] EXCEPT !.outcome = "FAILED"].actionIds = r.checkpoints[k].actionIds
  <2>1. "FAILED" \in Outcomes
    BY DEF Outcomes
  <2>2. \A k \in DOMAIN r.checkpoints :
          r.checkpoints[k] \in Record /\ r.checkpoints[k].result \in Result
    BY RoomRecord DEF Record
  <2> QED
    BY <2>1, <2>2, RecordUpdate
<1>2. records \in [DOMAIN r.checkpoints -> Record]
  BY <1>1
<1>3. /\ records \in Seq(Record)
      /\ DOMAIN records = DOMAIN r.checkpoints
      /\ \A j \in DOMAIN r.checkpoints :
           /\ records[j].actionIds = r.checkpoints[j].actionIds
           /\ records[j].outcome # "RUNNING"
           /\ records[j].outcome = "ACCEPTED" <=> r.checkpoints[j].outcome = "ACCEPTED"
           /\ records[j].outcome = "ACCEPTED" => records[j] = r.checkpoints[j]
  <2>1. \A j \in DOMAIN r.checkpoints :
          /\ records[j].actionIds = r.checkpoints[j].actionIds
          /\ records[j].outcome # "RUNNING"
          /\ records[j].outcome = "ACCEPTED" <=> r.checkpoints[j].outcome = "ACCEPTED"
          /\ records[j].outcome = "ACCEPTED" => records[j] = r.checkpoints[j]
    BY <1>1
  <2> HIDE DEF records
  <2> QED
    BY <1>2, <2>1, RoomRecord, SeqOfLength
<1>4. RestoreSnapshot(r) = [r EXCEPT !.checkpoints = records]
  BY DEF RestoreSnapshot
<1> HIDE DEF records
<1> QED
  BY <1>3, <1>4, WithCheckpoints
-------------------------------------------------------------------------------
(* The inductive invariant *)

Carrying == {"prepared", "toProving", "proving", "toVerified", "verified", "toPending",
             "submitting", "watching", "toAccepted", "accepted", "toRetracted",
             "toFinalized", "checking"}

(* A job belongs to a record of a deployed room; from Prepare to Complete it
   carries the batch of that record, final once BatchFinalized said so. *)
JobOK(i) ==
  /\ job[i].pc # "idle" => i \in DOMAIN room.checkpoints /\ room.chainRoomId \in Deploys
  /\ job[i].pc \in Carrying =>
       /\ job[i].batch.by = i /\ job[i].batch.at \in Deploys
       /\ job[i].batch.ids = room.checkpoints[i].actionIds
  /\ job[i].pc \in {"toFinalized", "checking"} => Finalized(job[i].batch)
JobsOK == \A i \in Attempts : JobOK(i)

IInv == TypeOK /\ JobsOK /\ AcceptedIsFinal

-------------------------------------------------------------------------------
(* Types *)

JobRecord == [pc : JobStates, open : OpenPhases, batch : Batch, late : BOOLEAN]

LEMMA IdleJobType == IdleJob \in JobRecord /\ IdleJob.pc = "idle"
<1>1. NoBatch \in Batch
  BY DEF Batch, NoBatch, Places
<1> QED
  BY <1>1 DEF IdleJob, JobStates, OpenPhases, JobRecord

LEMMA InitType == Init => TypeOK
<1> SUFFICES ASSUME Init PROVE TypeOK
  OBVIOUS
<1>1. room \in Room
  BY DemoRoomAssumption DEF Init, DemoRoomAssumption, Room, Phases, Places
<1>2. IdleJob \in [pc : JobStates, open : OpenPhases, batch : Batch, late : BOOLEAN]
  BY IdleJobType DEF JobRecord
<1>3. room \in Room /\ disk \in Room /\ written \in Room
  BY <1>1 DEF Init
<1>4. saving \in BOOLEAN /\ writes \in Seq(Tickets)
  <2>1. saving \in BOOLEAN
    BY DEF Init
  <2>2. writes = << >>
    BY DEF Init
  <2> QED
    BY <2>1, <2>2
<1>5. job \in [Attempts -> [pc : JobStates, open : OpenPhases, batch : Batch, late : BOOLEAN]]
  BY <1>2 DEF Init
<1>6. deploy \in [Deploys -> DeployStates]
  BY DEF Init, DeployStates
<1>7. chain \in [Deploys -> Seq(Batch)] /\ final \in [Deploys -> Nat]
  BY DEF Init
<1>8. \A c \in Deploys : final[c] <= Len(chain[c])
  BY DEF Init
<1>9. broadcast \subseteq Batch /\ saveFailures \in Nat /\ crashes \in Nat /\ reorgs \in Nat
  BY DEF Init
<1> QED
  BY <1>3, <1>4, <1>5, <1>6, <1>7, <1>8, <1>9 DEF TypeOK

LEMMA TicketTypes ==
  /\ Reply \in Tickets
  /\ \A i \in Nat : CheckpointTicket(i) \in Tickets /\ DeployTicket(i) \in Tickets
BY DEF Reply, CheckpointTicket, DeployTicket, Tickets

(* a phase assignment *)
LEMMA WithPhase ==
  ASSUME NEW r \in Room, NEW p \in Phases
  PROVE  /\ [r EXCEPT !.phase = p] \in Room
         /\ [r EXCEPT !.phase = p].phase = p
         /\ [r EXCEPT !.phase = p].actions = r.actions
         /\ [r EXCEPT !.phase = p].checkpoints = r.checkpoints
         /\ [r EXCEPT !.phase = p].chainRoomId = r.chainRoomId
BY DEF Room

LEMMA AfterPhaseType ==
  /\ \A pc \in DOMAIN AfterPhase : AfterPhase[pc] \in JobStates \ {"idle"}
  /\ DOMAIN AfterPhase = {"toProving", "toVerified", "toPending", "toAccepted",
                          "toRetracted", "toFinalized"}
BY DEF AfterPhase, JobStates, Awaiting

(* the variables of a save that ends, well or badly *)
LEMMA SettledType ==
  ASSUME TypeOK, NEW t, Settled(t)
  PROVE  /\ disk' \in Room /\ written' \in Room
         /\ saving' \in BOOLEAN /\ saveFailures' \in Nat
         /\ Tail(writes) \in Seq(Tickets)
<1>1. writes # << >> /\ writes \in Seq(Tickets)
  BY DEF TypeOK, Settled, Saved, SaveFailed
<1>2. Tail(writes) \in Seq(Tickets)
  BY <1>1
<1>3. disk' \in Room /\ written' \in Room
  BY DEF TypeOK, Settled, Saved, SaveFailed
<1>4. saving' = FALSE
  BY DEF Settled, Saved, SaveFailed
<1>5. saveFailures' \in Nat
  BY DEF TypeOK, Settled, Saved, SaveFailed
<1> QED
  BY <1>2, <1>3, <1>4, <1>5

LEMMA NoSaveType ==
  ASSUME TypeOK, NoSave
  PROVE  /\ disk' \in Room /\ written' \in Room
         /\ saving' \in BOOLEAN /\ saveFailures' \in Nat
         /\ writes \in Seq(Tickets)
BY DEF TypeOK, NoSave

LEMMA JobToType ==
  ASSUME TypeOK, NEW i \in Attempts, NEW pc \in JobStates, JobTo(i, pc)
  PROVE  /\ job' \in [Attempts -> JobRecord]
         /\ job'[i].pc = pc /\ job'[i].batch = job[i].batch
         /\ \A j \in Attempts : j # i => job'[j] = job[j]
<1>1. job \in [Attempts -> JobRecord]
  BY DEF TypeOK, JobRecord
<1>2. job' = [job EXCEPT ![i] = [@ EXCEPT !.pc = pc]]
  BY DEF JobTo
<1>3. /\ [job[i] EXCEPT !.pc = pc] \in JobRecord
      /\ [job[i] EXCEPT !.pc = pc].pc = pc
      /\ [job[i] EXCEPT !.pc = pc].batch = job[i].batch
  BY <1>1 DEF JobRecord
<1> QED
  BY <1>1, <1>2, <1>3

(* the clock passes: a job stays where it is *)
LEMMA SpendBudgetKeeps ==
  ASSUME TypeOK, NEW i \in Attempts, SpendBudget(i)
  PROVE  /\ job' \in [Attempts -> JobRecord]
         /\ job'[i].pc = job[i].pc /\ job'[i].batch = job[i].batch
         /\ job[i].pc \in Watching
         /\ \A j \in Attempts : j # i => job'[j] = job[j]
         /\ NoSave /\ UNCHANGED <<room, writes, deploy, l1Vars, crashes, reorgs>>
<1>1. job \in [Attempts -> JobRecord] /\ job[i] \in JobRecord
  BY DEF TypeOK, JobRecord
<1>2. job' = [job EXCEPT ![i] = [@ EXCEPT !.late = TRUE]]
  BY DEF SpendBudget
<1>3. /\ [job[i] EXCEPT !.late = TRUE] \in JobRecord
      /\ [job[i] EXCEPT !.late = TRUE].pc = job[i].pc
      /\ [job[i] EXCEPT !.late = TRUE].batch = job[i].batch
  BY <1>1 DEF JobRecord
<1>4. job[i].pc \in Watching /\ NoSave /\ UNCHANGED <<room, writes, deploy, l1Vars, crashes, reorgs>>
  BY DEF SpendBudget
<1> QED
  BY <1>1, <1>2, <1>3, <1>4

LEMMA L1Type ==
  ASSUME TypeOK, UNCHANGED l1Vars, UNCHANGED <<crashes, reorgs>>
  PROVE  /\ chain' \in [Deploys -> Seq(Batch)] /\ final' \in [Deploys -> Nat]
         /\ \A c \in Deploys : final'[c] <= Len(chain'[c])
         /\ broadcast' \subseteq Batch /\ crashes' \in Nat /\ reorgs' \in Nat
BY DEF TypeOK, l1Vars

(* what is left to show once the L1 variables are known to be typed *)
LEMMA DemoTypeOK ==
  ASSUME TypeOK, UNCHANGED l1Vars, UNCHANGED <<crashes, reorgs>>,
         room' \in Room, disk' \in Room, written' \in Room, saving' \in BOOLEAN,
         saveFailures' \in Nat, writes' \in Seq(Tickets),
         job' \in [Attempts -> JobRecord], deploy' \in [Deploys -> DeployStates]
  PROVE  TypeOK'
BY L1Type DEF TypeOK, JobRecord

LEMMA OnPhaseType ==
  ASSUME TypeOK, NEW i \in Attempts, NEW from, NEW p \in Phases, NEW pc \in JobStates,
         OnPhase(i, from, p, pc)
  PROVE  TypeOK'
<1>1. room' \in Room
  BY WithPhase DEF OnPhase, TypeOK
<1>2. writes' \in Seq(Tickets)
  BY TicketTypes DEF OnPhase, TypeOK, Attempts
<1>3. job' \in [Attempts -> JobRecord]
  BY JobToType DEF OnPhase
<1>4. deploy' \in [Deploys -> DeployStates]
  BY DEF OnPhase, TypeOK
<1> QED
  BY <1>1, <1>2, <1>3, <1>4, NoSaveType, DemoTypeOK DEF OnPhase

(* the steps of the room's own requests *)
LEMMA RequestType ==
  ASSUME TypeOK,
         \/ BeginSave \/ EndReply \/ CloseRoom
         \/ \E block \in Blocks : AddAction(block)
  PROVE  TypeOK'
<1>1. CASE BeginSave
  BY <1>1 DEF BeginSave, TypeOK, l1Vars, bounds
<1>2. CASE EndReply
  <2>1. /\ room' \in Room /\ job' \in [Attempts -> JobRecord]
        /\ deploy' \in [Deploys -> DeployStates] /\ writes' = Tail(writes)
    BY <1>2 DEF EndReply, TypeOK, JobRecord
  <2> QED
    BY <1>2, <2>1, SettledType, DemoTypeOK DEF EndReply
<1>3. CASE CloseRoom
  <2>1. room' \in Room
    BY <1>3, WithPhase DEF CloseRoom, TypeOK, Phases
  <2>2. /\ job' \in [Attempts -> JobRecord] /\ deploy' \in [Deploys -> DeployStates]
        /\ writes' \in Seq(Tickets)
    BY <1>3, TicketTypes DEF CloseRoom, TypeOK, JobRecord
  <2> QED
    BY <1>3, <2>1, <2>2, NoSaveType, DemoTypeOK DEF CloseRoom
<1>4. ASSUME NEW block \in Blocks, AddAction(block)
      PROVE  TypeOK'
  <2> DEFINE action == [block |-> block, checkpointSequence |-> 0]
  <2>1. room' \in Room
    <3>1. action \in Action
      BY DEF Action
    <3>2. Append(room.actions, action) \in Seq(Action)
      BY <3>1, RoomRecord DEF TypeOK
    <3>3. room' = [room EXCEPT !.actions = Append(room.actions, action)]
      BY <1>4 DEF AddAction
    <3> HIDE DEF action
    <3> QED
      BY <3>2, <3>3 DEF Room, TypeOK
  <2>2. /\ job' \in [Attempts -> JobRecord] /\ deploy' \in [Deploys -> DeployStates]
        /\ writes' \in Seq(Tickets)
    BY <1>4, TicketTypes DEF AddAction, TypeOK, JobRecord
  <2> QED
    BY <1>4, <2>1, <2>2, NoSaveType, DemoTypeOK DEF AddAction
<1> QED
  BY <1>1, <1>2, <1>3, <1>4

(* the steps of a deployment *)
LEMMA DeployType ==
  ASSUME TypeOK, NEW d \in Deploys, DeployRoom(d) \/ DeployStep(d)
  PROVE  TypeOK'
<1>1. deploy' \in [Deploys -> DeployStates]
  BY DEF TypeOK, DeployRoom, DeployStep, LaunchDeploy, BeginDeployment, SendCreateRoom,
         RoomCreated, DeployDone, DeployFails, EndDeploy, DeployPhase, DeployTo, DeployStates
<1>2. job' \in [Attempts -> JobRecord]
  BY DEF TypeOK, JobRecord, DeployRoom, DeployStep, LaunchDeploy, BeginDeployment,
         SendCreateRoom, RoomCreated, DeployDone, DeployFails, EndDeploy
<1>3. UNCHANGED l1Vars /\ UNCHANGED <<crashes, reorgs>>
  BY DEF DeployRoom, DeployStep, LaunchDeploy, BeginDeployment,
         SendCreateRoom, RoomCreated, DeployDone, DeployFails, EndDeploy
<1>4. room' \in Room
  <2>1. [room EXCEPT !.chainRoomId = d, !.phase = "ACTIVE"] \in Room
    BY DEF TypeOK, Room, Places, Phases
  <2>2. [room EXCEPT !.phase = "DEPLOYED"] \in Room /\ [room EXCEPT !.phase = "FAILED"] \in Room
    BY WithPhase DEF TypeOK, Phases
  <2> QED
    BY <2>1, <2>2 DEF TypeOK, DeployRoom, DeployStep, LaunchDeploy, BeginDeployment,
       SendCreateRoom, RoomCreated, DeployDone, DeployFails, EndDeploy, DeployPhase
<1>5. Settled(DeployTicket(d)) \/ NoSave
  BY DEF DeployRoom, DeployStep, LaunchDeploy, BeginDeployment, SendCreateRoom,
         RoomCreated, DeployDone, DeployFails, EndDeploy, Settled
<1>6. writes' \in Seq(Tickets)
  <2>1. DeployTicket(d) \in Tickets
    BY TicketTypes DEF Deploys
  <2>2. \/ /\ Settled(DeployTicket(d))
           /\ writes' = Tail(writes) \/ writes' = Append(Tail(writes), DeployTicket(d))
        \/ NoSave /\ writes' = Append(writes, DeployTicket(d))
    BY DEF DeployRoom, DeployStep, LaunchDeploy, BeginDeployment, SendCreateRoom,
           RoomCreated, DeployDone, DeployFails, EndDeploy, Settled
  <2>3. CASE Settled(DeployTicket(d)) /\ (writes' = Tail(writes) \/ writes' = Append(Tail(writes), DeployTicket(d)))
    <3>1. Tail(writes) \in Seq(Tickets)
      BY <2>3, SettledType
    <3> QED
      BY <2>1, <2>3, <3>1
  <2>4. CASE NoSave /\ writes' = Append(writes, DeployTicket(d))
    <3>1. writes \in Seq(Tickets)
      BY <2>4, NoSaveType
    <3> QED
      BY <2>1, <2>4, <3>1
  <2> QED
    BY <2>2, <2>3, <2>4
<1> QED
  BY <1>1, <1>2, <1>3, <1>4, <1>5, <1>6, SettledType, NoSaveType, DemoTypeOK

(* the steps of a checkpoint that leave the room as it is *)
LEMMA QuietStepType ==
  ASSUME TypeOK, NEW i \in Attempts,
         \/ LaunchCheckpoint(i) \/ CheckpointRefused(i) \/ Reported(i) \/ TakeSlot(i)
         \/ PhaseSaved(i) \/ CheckpointDone(i) \/ EndCheckpoint(i)
  PROVE  TypeOK'
<1>1. room' \in Room /\ deploy' \in [Deploys -> DeployStates]
  BY DEF TypeOK, LaunchCheckpoint, CheckpointRefused, Reported, TakeSlot, PhaseSaved,
         CheckpointDone, EndCheckpoint
<1>2. UNCHANGED l1Vars /\ UNCHANGED <<crashes, reorgs>>
  BY DEF LaunchCheckpoint, CheckpointRefused, Reported, TakeSlot, PhaseSaved,
         CheckpointDone, EndCheckpoint
<1>3. job' \in [Attempts -> JobRecord]
  <2>1. \A pc \in {"reading", "reporting", "queued", "quiet"} : pc \in JobStates
    BY DEF JobStates, Awaiting
  <2>2. \/ \E pc \in JobStates : JobTo(i, pc)
        \/ job' = [job EXCEPT ![i] = IdleJob]
    BY <2>1, AfterPhaseType DEF LaunchCheckpoint, CheckpointRefused, Reported, TakeSlot,
       PhaseSaved, CheckpointDone, EndCheckpoint
  <2>3. job \in [Attempts -> JobRecord]
    BY DEF TypeOK, JobRecord
  <2> QED
    BY <2>2, <2>3, IdleJobType, JobToType
<1>4. Settled(CheckpointTicket(i)) \/ NoSave
  BY DEF LaunchCheckpoint, CheckpointRefused, Reported, TakeSlot, PhaseSaved,
         CheckpointDone, EndCheckpoint, Settled
<1>5. writes' \in Seq(Tickets)
  <2>1. CheckpointTicket(i) \in Tickets
    BY TicketTypes DEF Attempts
  <2>2. \/ /\ Settled(CheckpointTicket(i))
           /\ writes' = Tail(writes) \/ writes' = Append(Tail(writes), CheckpointTicket(i))
        \/ NoSave /\ writes' = writes
    BY DEF LaunchCheckpoint, CheckpointRefused, Reported, TakeSlot, PhaseSaved,
           CheckpointDone, EndCheckpoint, Settled
  <2>3. CASE Settled(CheckpointTicket(i))
    <3>1. Tail(writes) \in Seq(Tickets)
      BY <2>3, SettledType
    <3>2. Append(Tail(writes), CheckpointTicket(i)) \in Seq(Tickets)
      BY <2>1, <3>1
    <3>3. NoSave => writes \in Seq(Tickets)
      BY NoSaveType
    <3> QED
      BY <2>2, <3>1, <3>2, <3>3
  <2>4. CASE NoSave /\ writes' = writes
    BY <2>4, NoSaveType
  <2> QED
    BY <2>2, <2>3, <2>4
<1> QED
  BY <1>1, <1>2, <1>3, <1>4, <1>5, SettledType, NoSaveType, DemoTypeOK

(* a root is a sequence of move sets *)
LEMMA RootType ==
  ASSUME NEW batches \in Seq(Batch)
  PROVE  /\ Root(batches) \in Seq(SUBSET Nat)
         /\ Len(Root(batches)) = Len(batches)
<1>1. \A k \in DOMAIN batches : batches[k].ids \in SUBSET Nat
  <2>1. \A k \in DOMAIN batches : batches[k] \in Batch
    BY ElementOfSeq, LenProperties
  <2>2. \A b \in Batch : b.ids \in SUBSET Nat
    BY DEF Batch
  <2> QED
    BY <2>1, <2>2
<1>2. Root(batches) \in [DOMAIN batches -> SUBSET Nat]
  BY <1>1 DEF Root
<1> QED
  BY <1>2, SeqOfLength

(* The batch a job takes with it: either the replayed history is the one L1
   has, or it is batch 1 of a fresh room. *)
LEMMA PrepareType ==
  ASSUME TypeOK, JobsOK, NEW i \in Attempts, Prepare(i)
  PROVE  /\ TypeOK'
         /\ job'[i].pc = "prepared" /\ job'[i].batch.by = i
         /\ job'[i].batch.at \in Deploys
         /\ job'[i].batch.ids = room.checkpoints[i].actionIds
         /\ \A j \in Attempts : j # i => job'[j] = job[j]
<1> DEFINE head  == Root(chain[room.chainRoomId])
           pre   == PreparedFrom(room, head)
           batch == [by |-> i, at |-> room.chainRoomId, pre |-> pre,
                     ids |-> room.checkpoints[i].actionIds]
<1>1. i \in DOMAIN room.checkpoints /\ room.chainRoomId \in Deploys
  BY DEF Prepare, JobsOK, JobOK
<1>2. head \in Seq(SUBSET Nat)
  BY <1>1, RootType DEF TypeOK
<1>3. pre \in Seq(SUBSET Nat)
  <2>1. CASE Replays(room, head)
    <3>1. IsContinuation(i, head)
      BY <2>1 DEF Replays, IsContinuation
    <3>2. pre = head
      BY <3>1 DEF Prepare, PreparedMatches
    <3> QED
      BY <1>2, <3>2
  <2>2. CASE ~Replays(room, head)
    <3>1. pre = << >>
      BY <2>2 DEF PreparedFrom
    <3> QED
      BY <3>1
  <2> QED
    BY <2>1, <2>2
<1>4. batch \in Batch /\ batch.by = i /\ batch.at = room.chainRoomId
      /\ batch.ids = room.checkpoints[i].actionIds
  <2>1. room.checkpoints[i].actionIds \in SUBSET Nat
    BY <1>1, RoomRecord DEF TypeOK, Record
  <2> HIDE DEF pre
  <2> QED
    BY <1>1, <1>3, <2>1 DEF Batch, Attempts, Places
<1>5. job' = [job EXCEPT ![i] = [[job[i] EXCEPT !.pc = "prepared"] EXCEPT !.batch = batch]]
  BY DEF Prepare
<1> HIDE DEF batch
<1>6. job \in [Attempts -> JobRecord]
  BY DEF TypeOK, JobRecord
<1>7. /\ [[job[i] EXCEPT !.pc = "prepared"] EXCEPT !.batch = batch] \in JobRecord
      /\ [[job[i] EXCEPT !.pc = "prepared"] EXCEPT !.batch = batch].pc = "prepared"
      /\ [[job[i] EXCEPT !.pc = "prepared"] EXCEPT !.batch = batch].batch = batch
  BY <1>4, <1>6 DEF JobRecord, JobStates, Awaiting
<1>8. /\ job' \in [Attempts -> JobRecord]
      /\ job'[i].pc = "prepared" /\ job'[i].batch = batch
      /\ \A j \in Attempts : j # i => job'[j] = job[j]
  BY <1>5, <1>6, <1>7
<1>9. TypeOK'
  <2>1. /\ room' \in Room /\ writes' = writes /\ NoSave
        /\ deploy' \in [Deploys -> DeployStates]
        /\ UNCHANGED l1Vars /\ UNCHANGED <<crashes, reorgs>>
    BY DEF Prepare, TypeOK
  <2> QED
    BY <1>8, <2>1, NoSaveType, DemoTypeOK
<1> QED
  BY <1>1, <1>4, <1>8, <1>9

LEMMA AttemptsNat == Attempts \subseteq Nat
BY DemoRoomAssumption DEF DemoRoomAssumption, Attempts

LEMMA CheckpointType ==
  ASSUME TypeOK, JobsOK, NEW i \in Attempts, CheckpointRoom(i) \/ CheckpointStep(i)
  PROVE  TypeOK'
<1>1. CASE CheckpointRoom(i)
  <2>1. room' \in Room
    BY <1>1, StartCheckpointType DEF CheckpointRoom, TypeOK
  <2>2. job' \in [Attempts -> JobRecord]
    <3>1. room.phase \in OpenPhases
      BY <1>1 DEF CheckpointRoom, Checkpointable, RoomIsOpen
    <3>2. [[IdleJob EXCEPT !.pc = "starting"] EXCEPT !.open = room.phase] \in JobRecord
      BY <3>1, IdleJobType DEF JobRecord, JobStates
    <3> QED
      BY <1>1, <3>2 DEF CheckpointRoom, TypeOK, JobRecord
  <2>3. writes' \in Seq(Tickets) /\ deploy' \in [Deploys -> DeployStates]
    <3>1. writes' = Append(writes, CheckpointTicket(i)) /\ UNCHANGED deploy
      BY <1>1 DEF CheckpointRoom
    <3> QED
      BY <3>1, TicketTypes, AttemptsNat DEF TypeOK
  <2> QED
    BY <1>1, <2>1, <2>2, <2>3, NoSaveType, DemoTypeOK DEF CheckpointRoom
<1>2. CASE \/ BeginProving(i) \/ ProofVerified(i) \/ BeginSubmission(i)
           \/ BatchAccepted(i) \/ BatchRetracted(i) \/ BatchFinalized(i)
  <2>1. /\ {"PROVING", "LOCALLY_VERIFIED", "L1_PENDING", "L1_ACCEPTED", "L1_FINALIZED"}
              \subseteq Phases
        /\ DOMAIN AfterPhase \subseteq JobStates
    BY DEF Phases, JobStates
  <2> QED
    BY <1>2, <2>1, AfterPhaseType, OnPhaseType DEF BeginProving, ProofVerified,
       BeginSubmission, BatchAccepted, BatchRetracted, BatchFinalized, SpendBudget
<1>3. CASE Submit(i)
  <2>1. job' \in [Attempts -> JobRecord]
    BY <1>3, JobToType DEF Submit, JobStates, Awaiting
  <2>2. job[i].batch \in Batch
    BY DEF TypeOK
  <2>3. broadcast' \subseteq Batch
    BY <1>3, <2>2 DEF Submit, TypeOK
  <2> QED
    BY <1>3, <2>1, <2>3, NoSaveType DEF Submit, TypeOK, JobRecord
<1>4. CASE Complete(i)
  <2> DEFINE result == [at |-> job[i].batch.at, batchIndex |-> Len(job[i].batch.pre) + 1]
             settled == CompleteCheckpoint(room, i, result)
  <2>1. result \in Result
    BY LenProperties DEF TypeOK, Batch, Result
  <2>2. settled \in Room
    BY <2>1, CompleteCheckpointType DEF TypeOK, Attempts
  <2>3. room' = [settled EXCEPT !.phase = "L1_FINALIZED"]
    BY <1>4 DEF Complete
  <2> HIDE DEF settled
  <2>4. room' \in Room
    BY <2>2, <2>3, WithPhase DEF Phases
  <2>5. job' \in [Attempts -> JobRecord]
    BY <1>4, JobToType DEF Complete, JobStates
  <2>6. writes' \in Seq(Tickets) /\ deploy' \in [Deploys -> DeployStates]
    <3>1. CheckpointTicket(i) \in Tickets
      BY TicketTypes DEF Attempts
    <3>2. writes \in Seq(Tickets) /\ deploy \in [Deploys -> DeployStates]
      BY DEF TypeOK
    <3>3. writes' = Append(writes, CheckpointTicket(i)) /\ deploy' = deploy
      BY <1>4 DEF Complete
    <3> QED
      BY <3>1, <3>2, <3>3
  <2> QED
    BY <1>4, <2>4, <2>5, <2>6, NoSaveType, DemoTypeOK DEF Complete
<1>5. CASE CheckpointFails(i)
  <2>1. room' \in Room
    <3>1. FailCheckpoint(room, i) \in Room
      BY FailCheckpointType, AttemptsNat DEF TypeOK
    <3>2. job[i].open \in Phases
      BY DEF TypeOK, OpenPhases, Phases
    <3> QED
      BY <1>5, <3>1, <3>2, WithPhase DEF CheckpointFails
  <2>2. job' \in [Attempts -> JobRecord]
    BY <1>5, JobToType DEF CheckpointFails, JobStates
  <2>3. deploy' \in [Deploys -> DeployStates] /\ UNCHANGED l1Vars /\ UNCHANGED <<crashes, reorgs>>
    BY <1>5 DEF CheckpointFails, TypeOK
  <2>4. CheckpointTicket(i) \in Tickets
    BY TicketTypes DEF Attempts
  <2>5. \/ /\ Settled(CheckpointTicket(i))
           /\ writes' = Append(Tail(writes), CheckpointTicket(i))
        \/ NoSave /\ writes' = Append(writes, CheckpointTicket(i))
    BY <1>5 DEF CheckpointFails, Settled
  <2>6. writes' \in Seq(Tickets)
    BY <2>4, <2>5, SettledType, NoSaveType
  <2> QED
    BY <2>1, <2>2, <2>3, <2>5, <2>6, SettledType, NoSaveType, DemoTypeOK
<1>6. CASE SpendBudget(i)
  <2>1. /\ job' \in [Attempts -> JobRecord] /\ NoSave
        /\ UNCHANGED <<room, writes, deploy, l1Vars, crashes, reorgs>>
    BY <1>6, SpendBudgetKeeps
  <2>2. room' \in Room /\ writes' \in Seq(Tickets) /\ deploy' \in [Deploys -> DeployStates]
    BY <2>1 DEF TypeOK
  <2> QED
    BY <2>1, <2>2, NoSaveType, DemoTypeOK
<1> QED
  BY <1>1, <1>2, <1>3, <1>4, <1>5, <1>6, PrepareType, QuietStepType DEF CheckpointStep

(* the steps of L1 *)
LEMMA L1StepType ==
  ASSUME TypeOK, L1Step
  PROVE  TypeOK'
<1>1. ASSUME NEW b \in broadcast, Include(b)
      PROVE  TypeOK'
  <2>1. b \in Batch /\ b.at \in Places
    BY <1>1 DEF TypeOK, Batch
  <2>2. chain' \in [Deploys -> Seq(Batch)]
    <3>1. chain \in [Deploys -> Seq(Batch)]
      BY DEF TypeOK
    <3>2. \A c \in Deploys : Append(chain[c], b) \in Seq(Batch)
      BY <2>1, <3>1
    <3>3. chain' = [chain EXCEPT ![b.at] = Append(chain[b.at], b)]
      BY <1>1 DEF Include
    <3> QED
      BY <3>1, <3>2, <3>3
  <2>3. \A c \in Deploys : Len(chain'[c]) >= Len(chain[c])
    BY <1>1, <2>1 DEF Include, TypeOK
  <2>4. \A c \in Deploys : final'[c] <= Len(chain'[c])
    BY <1>1, <2>2, <2>3, LenProperties DEF Include, TypeOK
  <2> QED
    BY <1>1, <2>2, <2>4 DEF Include, TypeOK, demoVars, bounds
<1>2. ASSUME NEW c \in Deploys, Finalize(c)
      PROVE  TypeOK'
  <2>1. final' \in [Deploys -> Nat] /\ chain' = chain
    BY <1>2 DEF Finalize, TypeOK
  <2>2. \A d \in Deploys : final'[d] <= Len(chain'[d])
    BY <1>2, <2>1, LenProperties DEF Finalize, TypeOK
  <2> QED
    BY <1>2, <2>1, <2>2 DEF Finalize, TypeOK, demoVars, bounds
<1>3. ASSUME NEW c \in Deploys, Reorg(c)
      PROVE  TypeOK'
  <2>1. PICK keep \in final[c]..(Len(chain[c]) - 1) :
          chain' = [chain EXCEPT ![c] = SubSeq(chain[c], 1, keep)]
    BY <1>3 DEF Reorg
  <2>2. final[c] \in Nat /\ chain[c] \in Seq(Batch) /\ Len(chain[c]) \in Nat
    BY LenProperties DEF TypeOK
  <2>3. /\ SubSeq(chain[c], 1, keep) \in Seq(Batch)
        /\ Len(SubSeq(chain[c], 1, keep)) = keep
    BY <2>2, SubSeqProperties
  <2>4. chain' \in [Deploys -> Seq(Batch)]
    BY <2>1, <2>3 DEF TypeOK
  <2>5. \A d \in Deploys : final'[d] <= Len(chain'[d])
    BY <1>3, <2>1, <2>2, <2>3 DEF Reorg, TypeOK
  <2> QED
    BY <1>3, <2>4, <2>5 DEF Reorg, TypeOK, demoVars
<1> QED
  BY <1>1, <1>2, <1>3 DEF L1Step

LEMMA RestartType ==
  ASSUME TypeOK, Restart
  PROVE  TypeOK'
<1>1. room' \in Room /\ disk' \in Room /\ written' \in Room
  BY RestoreSnapshotType DEF Restart, TypeOK
<1>2. job' \in [Attempts -> JobRecord]
  BY IdleJobType DEF Restart
<1>3. deploy' \in [Deploys -> DeployStates]
  BY DEF Restart, DeployStates, TypeOK
<1>4. saving' \in BOOLEAN
  BY DEF Restart
<1>5. writes' \in Seq(Tickets) /\ crashes' \in Nat
  BY DEF Restart, TypeOK
<1> QED
  BY <1>1, <1>2, <1>3, <1>4, <1>5 DEF Restart, TypeOK, l1Vars, JobRecord

LEMMA TypeStep ==
  ASSUME TypeOK, JobsOK, [Next]_vars
  PROVE  TypeOK'
<1>1. CASE UNCHANGED vars
  BY <1>1 DEF vars, demoVars, l1Vars, bounds, TypeOK
<1> QED
  BY <1>1, RequestType, DeployType, CheckpointType, L1StepType, RestartType DEF Next

-------------------------------------------------------------------------------
(* What a step may do to L1 and to the room *)

L1Kept ==
  \A c \in Deploys :
    /\ final[c] <= final'[c]
    /\ \A n \in 1..final[c] : chain'[c][n] = chain[c][n]

(* Final batches stay: only provisional ones are appended or reorganised away. *)
LEMMA L1Keeps ==
  ASSUME TypeOK, [Next]_vars
  PROVE  L1Kept
<1>1. CASE UNCHANGED <<chain, final>>
  BY <1>1 DEF L1Kept, TypeOK
<1>2. ASSUME NEW b \in broadcast, Include(b)
      PROVE  L1Kept
  <2>1. /\ chain \in [Deploys -> Seq(Batch)] /\ b \in Batch
        /\ chain' = [chain EXCEPT ![b.at] = Append(chain[b.at], b)] /\ final' = final
    BY <1>2 DEF Include, TypeOK
  <2>2. \A c \in Deploys : /\ final[c] \in Nat /\ final[c] <= Len(chain[c])
                            /\ Len(chain[c]) \in Nat
    BY LenProperties DEF TypeOK
  <2>3. \A c \in Deploys : \A n \in 1..Len(chain[c]) : chain'[c][n] = chain[c][n]
    BY <2>1
  <2> QED
    BY <2>1, <2>2, <2>3 DEF L1Kept
<1>3. ASSUME NEW c \in Deploys, Finalize(c)
      PROVE  L1Kept
  BY <1>3 DEF Finalize, L1Kept, TypeOK
<1>4. ASSUME NEW c \in Deploys, Reorg(c)
      PROVE  L1Kept
  <2>1. PICK keep \in final[c]..(Len(chain[c]) - 1) :
          chain' = [chain EXCEPT ![c] = SubSeq(chain[c], 1, keep)]
    BY <1>4 DEF Reorg
  <2>2. final[c] \in Nat /\ chain[c] \in Seq(Batch) /\ Len(chain[c]) \in Nat
    BY LenProperties DEF TypeOK
  <2>3. \A n \in 1..keep : SubSeq(chain[c], 1, keep)[n] = chain[c][n]
    BY <2>2, SubSeqProperties
  <2>4. \A n \in 1..final[c] : chain'[c][n] = chain[c][n]
    BY <2>1, <2>2, <2>3 DEF TypeOK
  <2> QED
    BY <1>4, <2>1, <2>4 DEF Reorg, L1Kept, TypeOK
<1>5. CASE UNCHANGED vars
  BY <1>1, <1>5 DEF vars, l1Vars
<1>6. CASE BeginSave \/ EndReply \/ CloseRoom \/ \E block \in Blocks : AddAction(block)
  BY <1>1, <1>6 DEF BeginSave, EndReply, CloseRoom, AddAction, l1Vars
<1>7. ASSUME NEW d \in Deploys, DeployRoom(d) \/ DeployStep(d)
      PROVE  L1Kept
  BY <1>1, <1>7 DEF DeployRoom, DeployStep, LaunchDeploy, BeginDeployment, SendCreateRoom,
     RoomCreated, DeployDone, DeployFails, EndDeploy, l1Vars
<1>8. ASSUME NEW i \in Attempts, CheckpointRoom(i) \/ CheckpointStep(i)
      PROVE  L1Kept
  <2>1. UNCHANGED <<chain, final>>
    BY <1>8 DEF CheckpointRoom, CheckpointStep, LaunchCheckpoint, CheckpointRefused,
       Reported, TakeSlot, Prepare, BeginProving, ProofVerified, BeginSubmission,
       OnPhase, PhaseSaved, Submit, BatchAccepted, BatchRetracted, BatchFinalized, SpendBudget,
       Complete, CheckpointDone, CheckpointFails, EndCheckpoint, l1Vars
  <2> QED
    BY <1>1, <2>1
<1>9. CASE Restart
  BY <1>1, <1>9 DEF Restart, l1Vars
<1> QED
  BY <1>2, <1>3, <1>4, <1>5, <1>6, <1>7, <1>8, <1>9 DEF Next, L1Step

(* the same moves under the same numbers, and no way back to an undeployed room *)
Grows(old, new) ==
  /\ \A k \in DOMAIN old.checkpoints :
       /\ k \in DOMAIN new.checkpoints
       /\ new.checkpoints[k].actionIds = old.checkpoints[k].actionIds
  /\ old.chainRoomId \in Deploys => new.chainRoomId \in Deploys

(* no record becomes ACCEPTED *)
AcceptsNone(old, new) ==
  \A k \in DOMAIN new.checkpoints : new.checkpoints[k].outcome = "ACCEPTED" =>
    k \in DOMAIN old.checkpoints /\ new.checkpoints[k] = old.checkpoints[k]

LEMMA SameRecords ==
  ASSUME NEW old, NEW new, new.checkpoints = old.checkpoints,
         new.chainRoomId = old.chainRoomId \/ new.chainRoomId \in Deploys
  PROVE  Grows(old, new) /\ AcceptsNone(old, new)
BY DEF Grows, AcceptsNone

LEMMA PhaseOnly ==
  ASSUME NEW old \in Room, NEW new, \E p \in Phases : new = [old EXCEPT !.phase = p]
  PROVE  Grows(old, new) /\ AcceptsNone(old, new)
<1>1. PICK p \in Phases : new = [old EXCEPT !.phase = p]
  OBVIOUS
<1>2. new.checkpoints = old.checkpoints /\ new.chainRoomId = old.chainRoomId
  BY <1>1, WithPhase
<1> QED
  BY <1>2, SameRecords

LEMMA RoomStep ==
  ASSUME TypeOK, JobsOK, [Next]_vars, ~Restart
  PROVE  /\ Grows(room, room')
         /\ AcceptsNone(room, room') \/ \E i \in Attempts : Complete(i)
<1>1. CASE room' = room
  BY <1>1, SameRecords
<1>2. CASE \E p \in Phases : room' = [room EXCEPT !.phase = p]
  BY <1>2, PhaseOnly DEF TypeOK
<1>3. CASE CloseRoom \/ \E block \in Blocks : AddAction(block)
  <2>1. room'.checkpoints = room.checkpoints /\ room'.chainRoomId = room.chainRoomId
    BY <1>3 DEF CloseRoom, AddAction, TypeOK, Room
  <2> QED
    BY <2>1, SameRecords
<1>4. ASSUME NEW d \in Deploys, DeployRoom(d) \/ DeployStep(d)
      PROVE  Grows(room, room') /\ AcceptsNone(room, room')
  <2>1. CASE RoomCreated(d)
    <3>1. room'.checkpoints = room.checkpoints /\ room'.chainRoomId = d
      BY <2>1 DEF RoomCreated, TypeOK, Room
    <3> QED
      BY <3>1, SameRecords
  <2>2. CASE ~RoomCreated(d)
    <3>1. room' = room \/ \E p \in Phases : room' = [room EXCEPT !.phase = p]
      BY <1>4, <2>2 DEF DeployRoom, DeployStep, LaunchDeploy, BeginDeployment, SendCreateRoom,
         DeployDone, DeployFails, EndDeploy, DeployPhase, Phases
    <3> QED
      BY <3>1, SameRecords, PhaseOnly DEF TypeOK
  <2> QED
    BY <2>1, <2>2
<1>5. ASSUME NEW i \in Attempts, CheckpointRoom(i)
      PROVE  Grows(room, room') /\ AcceptsNone(room, room')
  <2>1. room' = StartCheckpoint(room) /\ Len(room.checkpoints) \in Nat
        /\ DOMAIN room.checkpoints = 1..Len(room.checkpoints)
    BY <1>5, RoomRecord DEF CheckpointRoom, TypeOK
  <2>2. /\ room'.chainRoomId = room.chainRoomId
        /\ DOMAIN room'.checkpoints = 1..(Len(room.checkpoints) + 1)
        /\ \A k \in DOMAIN room.checkpoints : room'.checkpoints[k] = room.checkpoints[k]
        /\ room'.checkpoints[Len(room.checkpoints) + 1].outcome = "RUNNING"
    BY <2>1, StartCheckpointType DEF TypeOK
  <2>3. \A k \in DOMAIN room'.checkpoints :
          k \in DOMAIN room.checkpoints \/ k = Len(room.checkpoints) + 1
    BY <2>1, <2>2
  <2>4. \A k \in DOMAIN room.checkpoints : k \in DOMAIN room'.checkpoints
    BY <2>1, <2>2
  <2>5. Grows(room, room')
    BY <2>2, <2>4 DEF Grows
  <2>6. AcceptsNone(room, room')
    BY <2>2, <2>3 DEF AcceptsNone
  <2> QED
    BY <2>5, <2>6
<1>6. ASSUME NEW i \in Attempts, CheckpointFails(i)
      PROVE  Grows(room, room') /\ AcceptsNone(room, room')
  <2> DEFINE failed == FailCheckpoint(room, i)
  <2>1. failed \in Room /\ Grows(room, failed) /\ AcceptsNone(room, failed)
    <3>1. /\ failed \in Room /\ failed.chainRoomId = room.chainRoomId
          /\ DOMAIN failed.checkpoints = DOMAIN room.checkpoints
          /\ \A j \in DOMAIN room.checkpoints :
               /\ failed.checkpoints[j].actionIds = room.checkpoints[j].actionIds
               /\ j # i => failed.checkpoints[j] = room.checkpoints[j]
               /\ j = i => failed.checkpoints[j].outcome = "FAILED"
      <4>1. room \in Room /\ i \in Nat
        BY AttemptsNat DEF TypeOK
      <4> QED
        BY <4>1, FailCheckpointType
    <3> HIDE DEF failed
    <3> QED
      BY <3>1 DEF Grows, AcceptsNone
  <2>2. job[i].open \in Phases /\ room' = [failed EXCEPT !.phase = job[i].open]
    BY <1>6 DEF TypeOK, OpenPhases, Phases, CheckpointFails
  <2> HIDE DEF failed
  <2>3. room'.checkpoints = failed.checkpoints /\ room'.chainRoomId = failed.chainRoomId
    BY <2>1, <2>2, WithPhase
  <2> QED
    BY <2>1, <2>3 DEF Grows, AcceptsNone
<1>7. ASSUME NEW i \in Attempts, Complete(i)
      PROVE  Grows(room, room')
  <2> DEFINE result  == [at |-> job[i].batch.at, batchIndex |-> Len(job[i].batch.pre) + 1]
             settled == CompleteCheckpoint(room, i, result)
  <2>1. result \in Result
    BY LenProperties DEF TypeOK, Batch, Result
  <2> HIDE DEF result
  <2>2. settled \in Room /\ Grows(room, settled)
    <3>1. room \in Room /\ i \in Nat
      BY AttemptsNat DEF TypeOK
    <3>2. /\ settled \in Room /\ settled.chainRoomId = room.chainRoomId
          /\ DOMAIN settled.checkpoints = DOMAIN room.checkpoints
          /\ \A j \in DOMAIN room.checkpoints :
               settled.checkpoints[j].actionIds = room.checkpoints[j].actionIds
      BY <2>1, <3>1, CompleteCheckpointType
    <3> HIDE DEF settled
    <3> QED
      BY <3>2 DEF Grows
  <2>3. room' = [settled EXCEPT !.phase = "L1_FINALIZED"]
    BY <1>7 DEF Complete, result
  <2> HIDE DEF settled
  <2>4. room'.checkpoints = settled.checkpoints /\ room'.chainRoomId = settled.chainRoomId
    BY <2>2, <2>3, WithPhase DEF Phases
  <2> QED
    BY <2>2, <2>4 DEF Grows
<1>8. ASSUME NEW i \in Attempts, CheckpointStep(i), ~CheckpointFails(i), ~Complete(i)
      PROVE  room' = room \/ \E p \in Phases : room' = [room EXCEPT !.phase = p]
  BY <1>8 DEF CheckpointStep, LaunchCheckpoint, CheckpointRefused,
     Reported, TakeSlot, Prepare, BeginProving, ProofVerified, BeginSubmission,
     OnPhase, PhaseSaved, Submit, BatchAccepted, BatchRetracted, BatchFinalized, SpendBudget,
     CheckpointDone, EndCheckpoint, Phases
<1>9. CASE BeginSave \/ EndReply \/ L1Step \/ UNCHANGED vars
  BY <1>1, <1>9 DEF BeginSave, EndReply, L1Step, Include, Finalize, Reorg, vars, demoVars
<1> QED
  BY <1>1, <1>2, <1>3, <1>4, <1>5, <1>6, <1>7, <1>8, <1>9, SameRecords DEF Next

-------------------------------------------------------------------------------
(* The jobs *)

LEMMA FinalizedStays ==
  ASSUME TypeOK, TypeOK', L1Kept, NEW b \in Batch, b.at \in Deploys, Finalized(b)
  PROVE  /\ Len(chain'[b.at]) > Len(b.pre) /\ chain'[b.at][Len(b.pre) + 1] = b
         /\ final'[b.at] > Len(b.pre)
<1>1. Len(b.pre) \in Nat
  BY LenProperties DEF Batch
<1>2. /\ final[b.at] \in Nat /\ final'[b.at] \in Nat /\ final'[b.at] <= Len(chain'[b.at])
      /\ Len(chain'[b.at]) \in Nat
  BY LenProperties DEF TypeOK
<1>3. final[b.at] > Len(b.pre) /\ chain[b.at][Len(b.pre) + 1] = b
  BY DEF Finalized, Included
<1>4. final'[b.at] > Len(b.pre) /\ chain'[b.at][Len(b.pre) + 1] = b
  <2>1. final[b.at] <= final'[b.at] /\ \A n \in 1 .. final[b.at] : chain'[b.at][n] = chain[b.at][n]
    BY DEF L1Kept
  <2>2. Len(b.pre) + 1 \in 1 .. final[b.at]
    BY <1>1, <1>2, <1>3
  <2> QED
    BY <1>1, <1>2, <1>3, <2>1, <2>2
<1> QED
  BY <1>1, <1>2, <1>4

(* a job that keeps its batch, and at most moves on *)
LEMMA JobKept ==
  ASSUME TypeOK, TypeOK', L1Kept, Grows(room, room'), NEW i \in Attempts, JobOK(i),
         job'[i].batch = job[i].batch,
         job'[i].pc # "idle" => job[i].pc # "idle",
         job'[i].pc \in Carrying => job[i].pc \in Carrying,
         job'[i].pc \in {"toFinalized", "checking"} => Finalized(job[i].batch)
  PROVE  JobOK(i)'
<1>1. job'[i].pc # "idle" => i \in DOMAIN room'.checkpoints /\ room'.chainRoomId \in Deploys
  BY DEF JobOK, Grows
<1>2. job'[i].pc \in Carrying =>
        /\ job'[i].batch.by = i /\ job'[i].batch.at \in Deploys
        /\ job'[i].batch.ids = room'.checkpoints[i].actionIds
  <2> SUFFICES ASSUME job'[i].pc \in Carrying
               PROVE  /\ job'[i].batch.by = i /\ job'[i].batch.at \in Deploys
                      /\ job'[i].batch.ids = room'.checkpoints[i].actionIds
    OBVIOUS
  <2>1. job[i].pc \in Carrying /\ job[i].pc # "idle"
    BY DEF Carrying
  <2> QED
    BY <2>1 DEF JobOK, Grows
<1>3. job'[i].pc \in {"toFinalized", "checking"} => Finalized(job[i].batch)'
  <2> SUFFICES ASSUME job'[i].pc \in {"toFinalized", "checking"}
               PROVE  Finalized(job[i].batch)'
    OBVIOUS
  <2>1. job[i].batch \in Batch /\ job[i].batch.at \in Deploys /\ Finalized(job[i].batch)
    BY DEF TypeOK, JobOK, Carrying
  <2> QED
    BY <2>1, FinalizedStays DEF Finalized, Included
<1> QED
  BY <1>1, <1>2, <1>3 DEF JobOK

LEMMA NoJob ==
  ASSUME NEW i \in Attempts, job'[i] = IdleJob
  PROVE  JobOK(i)'
BY IdleJobType DEF JobOK, Carrying

(* one step of the job that moves *)
LEMMA OwnStep ==
  ASSUME TypeOK, TypeOK', L1Kept, Grows(room, room'), JobsOK, NEW i \in Attempts,
         CheckpointStep(i)
  PROVE  /\ JobOK(i)'
         /\ \A j \in Attempts : j # i => job'[j] = job[j]
<1>1. JobOK(i) /\ job \in [Attempts -> JobRecord]
  BY DEF JobsOK, TypeOK, JobRecord
<1>2. CASE CheckpointRefused(i) \/ EndCheckpoint(i)
  <2>1. job' = [job EXCEPT ![i] = IdleJob]
    BY <1>2 DEF CheckpointRefused, EndCheckpoint
  <2> QED
    BY <1>1, <2>1, NoJob
<1>3. CASE Prepare(i)
  <2>1. /\ job'[i].pc = "prepared" /\ job'[i].batch.by = i
        /\ job'[i].batch.at \in Deploys
        /\ job'[i].batch.ids = room.checkpoints[i].actionIds
        /\ \A j \in Attempts : j # i => job'[j] = job[j]
    BY <1>3, PrepareType
  <2>2. i \in DOMAIN room.checkpoints /\ room.chainRoomId \in Deploys
    BY <1>1, <1>3 DEF Prepare, JobOK
  <2>3. room' = room
    BY <1>3 DEF Prepare
  <2> QED
    BY <2>1, <2>2, <2>3 DEF JobOK
<1>4. CASE LaunchCheckpoint(i) \/ Reported(i) \/ TakeSlot(i) \/ Complete(i)
           \/ CheckpointDone(i) \/ CheckpointFails(i)
  <2>1. PICK pc \in {"reading", "reporting", "queued", "completing", "quiet"} : JobTo(i, pc)
    BY <1>4 DEF LaunchCheckpoint, Reported, TakeSlot, Complete, CheckpointDone, CheckpointFails
  <2>2. pc \in JobStates /\ pc \notin Carrying
    BY DEF JobStates, Awaiting, Carrying
  <2>3. job[i].pc # "idle"
    BY <1>4, AfterPhaseType DEF LaunchCheckpoint, Reported, TakeSlot, Complete, CheckpointDone,
       CheckpointFails, Awaiting
  <2>4. /\ job'[i].pc = pc /\ job'[i].batch = job[i].batch
        /\ \A j \in Attempts : j # i => job'[j] = job[j]
    BY <2>1, <2>2, JobToType
  <2>5. pc \notin {"toFinalized", "checking"}
    OBVIOUS
  <2> QED
    BY <1>1, <2>2, <2>3, <2>4, <2>5, JobKept
<1>5. CASE PhaseSaved(i)
  <2>1. /\ job[i].pc \in DOMAIN AfterPhase /\ JobTo(i, AfterPhase[job[i].pc])
        /\ AfterPhase[job[i].pc] \in JobStates
    BY <1>5, AfterPhaseType DEF PhaseSaved
  <2>2. job[i].pc # "idle" /\ job[i].pc \in Carrying
    BY <2>1, AfterPhaseType DEF Carrying
  <2>3. AfterPhase[job[i].pc] \in {"toFinalized", "checking"} => job[i].pc = "toFinalized"
    BY <2>1, AfterPhaseType DEF AfterPhase
  <2>4. job[i].pc = "toFinalized" => Finalized(job[i].batch)
    BY <1>1 DEF JobOK
  <2>5. /\ job'[i].pc = AfterPhase[job[i].pc] /\ job'[i].batch = job[i].batch
        /\ \A j \in Attempts : j # i => job'[j] = job[j]
    BY <2>1, JobToType
  <2> QED
    BY <1>1, <2>2, <2>3, <2>4, <2>5, JobKept
<1>6. CASE \/ BeginProving(i) \/ ProofVerified(i) \/ BeginSubmission(i) \/ Submit(i)
           \/ BatchAccepted(i) \/ BatchRetracted(i) \/ BatchFinalized(i)
  <2>1. PICK pc \in {"toProving", "toVerified", "toPending", "watching", "toAccepted",
                     "toRetracted", "toFinalized"} :
          /\ JobTo(i, pc)
          /\ pc = "toFinalized" => Finalized(job[i].batch)
    BY <1>6 DEF BeginProving, ProofVerified, BeginSubmission, Submit, BatchAccepted,
       BatchRetracted, BatchFinalized, SpendBudget, OnPhase
  <2>2. job[i].pc \in Carrying /\ job[i].pc # "idle"
    BY <1>6 DEF BeginProving, ProofVerified, BeginSubmission, Submit, BatchAccepted,
       BatchRetracted, BatchFinalized, SpendBudget, OnPhase, Carrying
  <2>3. pc \in JobStates
    BY AfterPhaseType DEF JobStates, Awaiting
  <2>4. /\ job'[i].pc = pc /\ job'[i].batch = job[i].batch
        /\ \A j \in Attempts : j # i => job'[j] = job[j]
    BY <2>1, <2>3, JobToType
  <2>5. pc \in {"toFinalized", "checking"} => Finalized(job[i].batch)
    BY <2>1
  <2> QED
    BY <1>1, <2>2, <2>4, <2>5, JobKept
<1>7. CASE SpendBudget(i)
  <2>1. /\ job'[i].pc = job[i].pc /\ job'[i].batch = job[i].batch /\ job[i].pc \in Watching
        /\ \A j \in Attempts : j # i => job'[j] = job[j]
    BY <1>7, SpendBudgetKeeps
  <2>2. job'[i].pc \notin {"toFinalized", "checking"}
    BY <2>1 DEF Watching
  <2> QED
    BY <1>1, <2>1, <2>2, JobKept
<1> QED
  BY <1>2, <1>3, <1>4, <1>5, <1>6, <1>7 DEF CheckpointStep

LEMMA OtherJobs ==
  ASSUME [Next]_vars, ~Restart, \A i \in Attempts : ~CheckpointRoom(i) /\ ~CheckpointStep(i)
  PROVE  job' = job
<1>1. CASE \E d \in Deploys : DeployRoom(d) \/ DeployStep(d)
  BY <1>1 DEF DeployRoom, DeployStep, LaunchDeploy, BeginDeployment, SendCreateRoom,
     RoomCreated, DeployDone, DeployFails, EndDeploy
<1>2. CASE BeginSave \/ EndReply \/ CloseRoom \/ \E block \in Blocks : AddAction(block)
  BY <1>2 DEF BeginSave, EndReply, CloseRoom, AddAction
<1>3. CASE L1Step \/ UNCHANGED vars
  BY <1>3 DEF L1Step, Include, Finalize, Reorg, vars, demoVars
<1> QED
  BY <1>1, <1>2, <1>3 DEF Next

LEMMA JobsStep ==
  ASSUME TypeOK, TypeOK', JobsOK, [Next]_vars
  PROVE  JobsOK'
<1>1. L1Kept
  BY L1Keeps
<1>2. ASSUME ~Restart, NEW i \in Attempts, job'[i] = job[i]
      PROVE  JobOK(i)'
  <2>1. Grows(room, room') /\ JobOK(i)
    BY <1>2, RoomStep DEF JobsOK
  <2>2. job[i].pc \in {"toFinalized", "checking"} => Finalized(job[i].batch)
    BY <2>1 DEF JobOK
  <2> QED
    BY <1>1, <1>2, <2>1, <2>2, JobKept
<1>3. CASE Restart
  BY <1>3, NoJob DEF Restart, JobsOK
<1>4. ASSUME NEW i \in Attempts, CheckpointRoom(i), ~Restart
      PROVE  JobsOK'
  <2>1. job' = [job EXCEPT ![i] = [[IdleJob EXCEPT !.pc = "starting"] EXCEPT !.open = room.phase]]
    BY <1>4 DEF CheckpointRoom
  <2>2. job'[i].pc = "starting"
    BY <2>1, IdleJobType DEF TypeOK, JobRecord
  <2>3. i \in DOMAIN room'.checkpoints /\ room'.chainRoomId \in Deploys
    <3>1. /\ i = Len(room.checkpoints) + 1 /\ room' = StartCheckpoint(room)
          /\ room.chainRoomId # NoRoom
      BY <1>4 DEF CheckpointRoom, Checkpointable
    <3>2. Len(room.checkpoints) \in Nat /\ room.chainRoomId \in Deploys
      BY <3>1, RoomRecord DEF TypeOK, Places
    <3>3. /\ DOMAIN room'.checkpoints = 1..(Len(room.checkpoints) + 1)
          /\ room'.chainRoomId = room.chainRoomId
      <4>1. room \in Room
        BY DEF TypeOK
      <4> QED
        BY <3>1, <4>1, StartCheckpointType
    <3>4. i \in 1..(Len(room.checkpoints) + 1)
      BY <3>1, <3>2
    <3> QED
      BY <3>2, <3>3, <3>4
  <2>4. JobOK(i)'
    BY <2>2, <2>3 DEF JobOK, Carrying
  <2>5. \A j \in Attempts : j # i => job'[j] = job[j]
    BY <2>1 DEF TypeOK
  <2> QED
    BY <1>2, <1>4, <2>4, <2>5 DEF JobsOK
<1>5. ASSUME NEW i \in Attempts, CheckpointStep(i), ~Restart
      PROVE  JobsOK'
  <2>1. Grows(room, room')
    BY <1>5, RoomStep
  <2>2. JobOK(i)' /\ \A j \in Attempts : j # i => job'[j] = job[j]
    BY <1>1, <1>5, <2>1, OwnStep
  <2> QED
    BY <1>2, <1>5, <2>2 DEF JobsOK
<1>6. CASE job' = job /\ ~Restart
  BY <1>2, <1>6 DEF JobsOK
<1>7. ASSUME ~Restart, \A i \in Attempts : ~CheckpointRoom(i) /\ ~CheckpointStep(i)
      PROVE  job' = job
  BY <1>7, OtherJobs
<1> QED
  BY <1>3, <1>4, <1>5, <1>6, <1>7

-------------------------------------------------------------------------------
(* What ACCEPTED means *)

LEMMA SettledKept ==
  ASSUME TypeOK, TypeOK', L1Kept, NEW r, NEW k, SettledRecord(r, k)
  PROVE  SettledRecord(r, k)'
<1> DEFINE at == r.checkpoints[k].result.at
           n  == r.checkpoints[k].result.batchIndex
<1>1. at \in Deploys /\ n \in 1..final[at]
  BY DEF SettledRecord
<1>2. chain[at][n].by = k /\ chain[at][n].ids = r.checkpoints[k].actionIds
  BY DEF SettledRecord
<1>3. chain'[at][n] = chain[at][n] /\ n \in 1..final'[at]
  <2> HIDE DEF at, n
  <2>1. final[at] \in Nat /\ final'[at] \in Nat
    BY <1>1 DEF TypeOK
  <2> QED
    BY <1>1, <2>1 DEF L1Kept
<1> QED
  BY <1>1, <1>2, <1>3 DEF SettledRecord

(* a save only ever writes what the controller held *)
LEMMA SaveStep ==
  ASSUME [Next]_vars, ~Restart
  PROVE  disk' \in {disk, written} /\ written' \in {written, room, disk}
<1>1. CASE BeginSave \/ EndReply \/ CloseRoom \/ \E block \in Blocks : AddAction(block)
  BY <1>1 DEF BeginSave, EndReply, CloseRoom, AddAction, Settled, Saved, SaveFailed, NoSave
<1>2. CASE \E d \in Deploys : DeployRoom(d) \/ DeployStep(d)
  BY <1>2 DEF DeployRoom, DeployStep, LaunchDeploy, BeginDeployment, SendCreateRoom,
     RoomCreated, DeployDone, DeployFails, EndDeploy, Settled, Saved, SaveFailed, NoSave
<1>3. ASSUME NEW i \in Attempts, CheckpointRoom(i) \/ CheckpointStep(i)
      PROVE  disk' \in {disk, written} /\ written' \in {written, room, disk}
  <2>1. NoSave \/ Saved(CheckpointTicket(i)) \/ SaveFailed(CheckpointTicket(i))
    BY <1>3 DEF CheckpointRoom, CheckpointStep, LaunchCheckpoint, CheckpointRefused,
       Reported, TakeSlot, Prepare, BeginProving, ProofVerified, BeginSubmission,
       OnPhase, PhaseSaved, Submit, BatchAccepted, BatchRetracted, BatchFinalized, SpendBudget,
       Complete, CheckpointDone, CheckpointFails, EndCheckpoint, Settled
  <2> QED
    BY <2>1 DEF NoSave, Saved, SaveFailed
<1>4. CASE L1Step \/ UNCHANGED vars
  BY <1>4 DEF L1Step, Include, Finalize, Reorg, vars, demoVars
<1> QED
  BY <1>1, <1>2, <1>3, <1>4 DEF Next

(* the record of a completed attempt is the final batch its job carried *)
LEMMA CompleteSettles ==
  ASSUME TypeOK, TypeOK', JobsOK, L1Kept, NEW i \in Attempts, Complete(i), NEW r, r = room',
         NEW k \in DOMAIN r.checkpoints
  PROVE  /\ k # i => k \in DOMAIN room.checkpoints /\ r.checkpoints[k] = room.checkpoints[k]
         /\ k = i => SettledRecord(r, k)'
<1> DEFINE batch   == job[i].batch
           result  == [at |-> batch.at, batchIndex |-> Len(batch.pre) + 1]
           settled == CompleteCheckpoint(room, i, result)
<1>1. batch \in Batch /\ result \in Result /\ Len(batch.pre) \in Nat
  BY LenProperties DEF TypeOK, Batch, Result
<1>2. batch.by = i /\ batch.at \in Deploys /\ batch.ids = room.checkpoints[i].actionIds
      /\ Finalized(batch) /\ i \in DOMAIN room.checkpoints
  BY DEF Complete, JobsOK, JobOK, Carrying
<1>3. result.at = batch.at /\ result.batchIndex = Len(batch.pre) + 1
  OBVIOUS
<1>4. r = [settled EXCEPT !.phase = "L1_FINALIZED"]
  BY DEF Complete
<1> HIDE DEF batch, result
<1>5. /\ settled \in Room
      /\ DOMAIN settled.checkpoints = DOMAIN room.checkpoints
      /\ \A j \in DOMAIN room.checkpoints :
           /\ settled.checkpoints[j].actionIds = room.checkpoints[j].actionIds
           /\ j # i => settled.checkpoints[j] = room.checkpoints[j]
           /\ j = i => settled.checkpoints[j].result = result
  <2>1. room \in Room /\ i \in Nat
    BY AttemptsNat DEF TypeOK
  <2> QED
    BY <1>1, <2>1, CompleteCheckpointType
<1> HIDE DEF settled
<1>6. r.checkpoints = settled.checkpoints
  BY <1>4, <1>5, WithPhase DEF Phases
<1>7. /\ final'[batch.at] > Len(batch.pre) /\ chain'[batch.at][Len(batch.pre) + 1] = batch
      /\ final'[batch.at] \in Nat
  BY <1>1, <1>2, FinalizedStays DEF TypeOK
<1>8. k = i => SettledRecord(r, k)'
  <2> SUFFICES ASSUME k = i PROVE SettledRecord(r, k)'
    OBVIOUS
  <2>1. /\ r.checkpoints[k].result = result
        /\ r.checkpoints[k].actionIds = room.checkpoints[i].actionIds
    BY <1>2, <1>5, <1>6
  <2>2. Len(batch.pre) + 1 \in 1 .. final'[batch.at]
    BY <1>1, <1>7
  <2> QED
    BY <1>2, <1>3, <1>7, <2>1, <2>2 DEF SettledRecord
<1> QED
  BY <1>5, <1>6, <1>8

LEMMA FinalStep ==
  ASSUME TypeOK, TypeOK', JobsOK, AcceptedIsFinal, [Next]_vars
  PROVE  AcceptedIsFinal'
<1> SUFFICES ASSUME NEW r \in {room', disk', written'}, NEW k \in DOMAIN r.checkpoints,
                    r.checkpoints[k].outcome = "ACCEPTED"
             PROVE  SettledRecord(r, k)'
  BY DEF AcceptedIsFinal
<1>1. L1Kept
  BY L1Keeps
<1>2. ASSUME NEW q \in {room, disk, written}, k \in DOMAIN q.checkpoints,
             r.checkpoints[k] = q.checkpoints[k]
      PROVE  SettledRecord(r, k)'
  <2>1. SettledRecord(q, k)
    BY <1>2 DEF AcceptedIsFinal
  <2>2. SettledRecord(r, k)
    BY <1>2, <2>1 DEF SettledRecord
  <2> QED
    BY <1>1, <2>2, SettledKept
<1>3. CASE Restart
  <2>1. r = RestoreSnapshot(disk) /\ disk \in Room
    BY <1>3 DEF Restart, TypeOK
  <2>2. k \in DOMAIN disk.checkpoints /\ r.checkpoints[k] = disk.checkpoints[k]
    BY <2>1, RestoreSnapshotType
  <2> QED
    BY <1>2, <2>2
<1>4. CASE ~Restart /\ r # room'
  BY <1>2, <1>4, SaveStep
<1>5. CASE ~Restart /\ r = room'
  <2>1. CASE AcceptsNone(room, room')
    BY <1>2, <1>5, <2>1 DEF AcceptsNone
  <2>2. ASSUME NEW i \in Attempts, Complete(i)
        PROVE  SettledRecord(r, k)'
    BY <1>1, <1>2, <1>5, <2>2, CompleteSettles
  <2> QED
    BY <1>5, <2>1, <2>2, RoomStep
<1> QED
  BY <1>3, <1>4, <1>5

-------------------------------------------------------------------------------
(* The snapshots, and what a launched attempt finds on disk *)

(* the later one knows every record of the earlier one, with its moves *)
Within(earlier, later) ==
  \A k \in DOMAIN earlier.checkpoints :
    /\ k \in DOMAIN later.checkpoints
    /\ later.checkpoints[k].actionIds = earlier.checkpoints[k].actionIds

KnownTo(r, t) == t.kind = "checkpoint" => t.id \in DOMAIN r.checkpoints

(* The save an attempt waits for serialises its record: when it ends, the attempt
   is on disk, and only then is it launched. *)
Launches(i) ==
  /\ job[i].pc \notin {"idle", "starting"} => i \in DOMAIN disk.checkpoints
  /\ saving /\ job[i].pc = "starting" /\ Head(writes) = CheckpointTicket(i)
       => i \in DOMAIN written.checkpoints

SavesInv ==
  /\ Within(disk, written) /\ Within(written, room)
  /\ \A n \in DOMAIN writes : KnownTo(room, writes[n])
  /\ saving => writes # << >>
  /\ \A i \in Attempts : Launches(i)
  /\ AttemptIsDurable

LEMMA WithinTrans ==
  ASSUME NEW a, NEW b, NEW c, Within(a, b), Within(b, c)
  PROVE  Within(a, c)
BY DEF Within

(* the chain of saves, one step on *)
Ended == /\ saving /\ saving' = FALSE /\ writes # << >>
         /\ \/ disk' = written /\ written' = written
            \/ disk' = disk /\ written' = disk
Extends(old) == writes' = old \/ \E t \in Tickets : KnownTo(room', t) /\ writes' = Append(old, t)

LEMMA WritesStep ==
  ASSUME TypeOK, JobsOK, [Next]_vars, ~Restart, ~BeginSave
  PROVE  \/ Ended /\ Extends(Tail(writes))
         \/ UNCHANGED <<disk, written, saving>> /\ Extends(writes)
<1>1. ASSUME NEW t, Settled(t)
      PROVE  Ended
  BY <1>1 DEF Settled, Saved, SaveFailed, Ended
<1>2. NoSave => UNCHANGED <<disk, written, saving>>
  BY DEF NoSave
<1>3. /\ Reply \in Tickets /\ KnownTo(room', Reply)
      /\ \A i \in Nat : CheckpointTicket(i) \in Tickets /\ DeployTicket(i) \in Tickets /\ KnownTo(room', DeployTicket(i))
  BY TicketTypes DEF Reply, DeployTicket, KnownTo
<1>4. CASE EndReply
  BY <1>1, <1>4 DEF EndReply, Extends
<1>5. CASE CloseRoom \/ \E block \in Blocks : AddAction(block)
  BY <1>2, <1>3, <1>5 DEF CloseRoom, AddAction, Extends
<1>6. ASSUME NEW d \in Deploys, DeployRoom(d) \/ DeployStep(d)
      PROVE  \/ Ended /\ Extends(Tail(writes))
             \/ UNCHANGED <<disk, written, saving>> /\ Extends(writes)
  <2>1. DeployTicket(d) \in Tickets /\ KnownTo(room', DeployTicket(d))
    BY <1>3 DEF Deploys
  <2>2. \/ /\ Settled(DeployTicket(d))
           /\ writes' = Tail(writes) \/ writes' = Append(Tail(writes), DeployTicket(d))
        \/ NoSave /\ writes' = Append(writes, DeployTicket(d))
    BY <1>6 DEF DeployRoom, DeployStep, LaunchDeploy, BeginDeployment, SendCreateRoom,
       RoomCreated, DeployDone, DeployFails, EndDeploy, Settled
  <2> QED
    BY <1>1, <1>2, <2>1, <2>2 DEF Extends
<1>7. ASSUME NEW i \in Attempts, CheckpointRoom(i) \/ CheckpointStep(i)
      PROVE  \/ Ended /\ Extends(Tail(writes))
             \/ UNCHANGED <<disk, written, saving>> /\ Extends(writes)
  <2>1. CheckpointTicket(i) \in Tickets
    BY <1>3, AttemptsNat
  <2>2. i \in DOMAIN room'.checkpoints
    <3>1. CASE CheckpointRoom(i)
      <4>1. room' = StartCheckpoint(room) /\ i = Len(room.checkpoints) + 1
        BY <3>1 DEF CheckpointRoom
      <4>2. Len(room.checkpoints) \in Nat
        BY RoomRecord DEF TypeOK
      <4> QED
        BY <4>1, <4>2, StartCheckpointType DEF TypeOK
    <3>2. CASE CheckpointStep(i)
      <4>1. job[i].pc # "idle"
        BY <3>2, AfterPhaseType DEF CheckpointStep, LaunchCheckpoint, CheckpointRefused,
           Reported, TakeSlot, Prepare, BeginProving, ProofVerified, BeginSubmission,
           OnPhase, PhaseSaved, Submit, BatchAccepted, BatchRetracted, BatchFinalized, SpendBudget,
           Complete, CheckpointDone, CheckpointFails, EndCheckpoint, Awaiting, Watching
      <4>2. i \in DOMAIN room.checkpoints
        BY <4>1 DEF JobsOK, JobOK
      <4> QED
        BY <4>2, RoomStep DEF Grows
    <3> QED
      BY <1>7, <3>1, <3>2
  <2>3. KnownTo(room', CheckpointTicket(i))
    BY <2>2 DEF KnownTo, CheckpointTicket
  <2>4. \/ /\ Settled(CheckpointTicket(i))
           /\ writes' = Tail(writes) \/ writes' = Append(Tail(writes), CheckpointTicket(i))
        \/ NoSave /\ (writes' = writes \/ writes' = Append(writes, CheckpointTicket(i)))
    BY <1>7 DEF CheckpointRoom, CheckpointStep, LaunchCheckpoint, CheckpointRefused,
       Reported, TakeSlot, Prepare, BeginProving, ProofVerified, BeginSubmission,
       OnPhase, PhaseSaved, Submit, BatchAccepted, BatchRetracted, BatchFinalized, SpendBudget,
       Complete, CheckpointDone, CheckpointFails, EndCheckpoint, Settled
  <2> QED
    BY <1>1, <1>2, <2>1, <2>3, <2>4 DEF Extends
<1>8. CASE L1Step \/ UNCHANGED vars
  BY <1>8 DEF L1Step, Include, Finalize, Reorg, vars, demoVars, Extends
<1> QED
  BY <1>4, <1>5, <1>6, <1>7, <1>8 DEF Next

(* an attempt gets past its first save only when that save ends well *)
LEMMA LaunchStep ==
  ASSUME TypeOK, [Next]_vars, ~Restart, NEW i \in Attempts
  PROVE  /\ job'[i].pc \notin {"idle", "starting"} /\ job[i].pc \in {"idle", "starting"}
              => LaunchCheckpoint(i)
         /\ job'[i].pc = "starting" => job[i].pc = "starting" \/ CheckpointRoom(i)
<1>0. job \in [Attempts -> JobRecord] /\ IdleJob.pc = "idle"
  BY IdleJobType DEF TypeOK, JobRecord
<1>1. CASE job'[i] = job[i]
  BY <1>1
<1>2. ASSUME NEW j \in Attempts, CheckpointRoom(j)
      PROVE  /\ job'[i].pc = "starting" \/ job'[i] = job[i]
             /\ j # i => job'[i] = job[i]
  <2>1. job' = [job EXCEPT ![j] = [[IdleJob EXCEPT !.pc = "starting"] EXCEPT !.open = room.phase]]
    BY <1>2 DEF CheckpointRoom
  <2> QED
    BY <1>0, <2>1, IdleJobType DEF JobRecord
<1>3. ASSUME NEW j \in Attempts, CheckpointStep(j)
      PROVE  /\ j # i => job'[i] = job[i]
             /\ j = i => \/ LaunchCheckpoint(i)
                         \/ job'[i] = IdleJob
                         \/ job[i].pc \notin {"idle", "starting"} /\ job'[i].pc # "starting"
  <2>1. j # i => job'[i] = job[i]
    BY <1>0, <1>3 DEF CheckpointStep, LaunchCheckpoint, CheckpointRefused, Reported, TakeSlot, Prepare,
       BeginProving, ProofVerified, BeginSubmission, OnPhase, PhaseSaved, Submit, BatchAccepted,
       BatchRetracted, BatchFinalized, SpendBudget, Complete, CheckpointDone, CheckpointFails, EndCheckpoint, JobTo
  <2>2. ASSUME j = i
        PROVE  \/ LaunchCheckpoint(i)
               \/ job'[i] = IdleJob
               \/ job[i].pc \notin {"idle", "starting"} /\ job'[i].pc # "starting"
    <3>1. CASE CheckpointRefused(i) \/ EndCheckpoint(i)
      BY <1>0, <3>1 DEF CheckpointRefused, EndCheckpoint
    <3>2. CASE Prepare(i)
      BY <1>0, <3>2 DEF Prepare, JobRecord
    <3>3. CASE PhaseSaved(i)
      <4>1. JobTo(i, AfterPhase[job[i].pc]) /\ job[i].pc \in DOMAIN AfterPhase
            /\ AfterPhase[job[i].pc] # "starting"
        BY <3>3 DEF PhaseSaved, AfterPhase
      <4> QED
        BY <1>0, <4>1, AfterPhaseType DEF JobTo, JobRecord
    <3>4. CASE \/ Reported(i) \/ TakeSlot(i) \/ BeginProving(i) \/ ProofVerified(i) \/ BeginSubmission(i)
               \/ Submit(i) \/ BatchAccepted(i) \/ BatchRetracted(i) \/ BatchFinalized(i)
               \/ Complete(i) \/ CheckpointDone(i) \/ CheckpointFails(i)
      <4>1. job[i].pc \notin {"idle", "starting"}
        BY <3>4, AfterPhaseType DEF Reported, TakeSlot, BeginProving, ProofVerified, BeginSubmission, OnPhase,
           Submit, BatchAccepted, BatchRetracted, BatchFinalized, SpendBudget, Complete, CheckpointDone,
           CheckpointFails, Awaiting
      <4>2. \E pc : pc # "starting" /\ JobTo(i, pc)
        BY <3>4 DEF Reported, TakeSlot, BeginProving, ProofVerified, BeginSubmission, OnPhase,
           Submit, BatchAccepted, BatchRetracted, BatchFinalized, SpendBudget, Complete, CheckpointDone,
           CheckpointFails
      <4> QED
        BY <1>0, <4>1, <4>2 DEF JobTo, JobRecord
    <3>5. CASE SpendBudget(i)
      BY <3>5, SpendBudgetKeeps DEF Watching
    <3> QED
      BY <1>3, <2>2, <3>1, <3>2, <3>3, <3>4, <3>5 DEF CheckpointStep
  <2> QED
    BY <2>1, <2>2
<1>4. CASE \A j \in Attempts : ~CheckpointRoom(j) /\ ~CheckpointStep(j)
  <2>1. CASE \E d \in Deploys : DeployRoom(d) \/ DeployStep(d)
    BY <2>1, <1>1 DEF DeployRoom, DeployStep, LaunchDeploy, BeginDeployment, SendCreateRoom,
       RoomCreated, DeployDone, DeployFails, EndDeploy
  <2>2. CASE BeginSave \/ EndReply \/ CloseRoom \/ \E block \in Blocks : AddAction(block)
    BY <2>2, <1>1 DEF BeginSave, EndReply, CloseRoom, AddAction
  <2>3. CASE L1Step \/ UNCHANGED vars
    BY <2>3, <1>1 DEF L1Step, Include, Finalize, Reorg, vars, demoVars
  <2> QED
    BY <1>4, <2>1, <2>2, <2>3 DEF Next
<1>5. CASE \E j \in Attempts : CheckpointRoom(j)
  <2>1. PICK j \in Attempts : CheckpointRoom(j)
    BY <1>5
  <2>2. CASE j = i
    BY <1>1, <1>2, <2>1, <2>2
  <2>3. CASE j # i
    BY <1>1, <1>2, <2>1, <2>3
  <2> QED
    BY <2>2, <2>3
<1>6. CASE \E j \in Attempts : CheckpointStep(j)
  <2>1. PICK j \in Attempts : CheckpointStep(j)
    BY <1>6
  <2>2. CASE j = i
    <3>1. CASE LaunchCheckpoint(i)
      <4>1. job'[i].pc # "starting"
        BY <1>0, <3>1 DEF LaunchCheckpoint, JobTo, JobRecord
      <4> QED
        BY <3>1, <4>1
    <3> QED
      BY <1>0, <1>3, <2>1, <2>2, <3>1
  <2>3. CASE j # i
    BY <1>1, <1>3, <2>1, <2>3
  <2> QED
    BY <2>2, <2>3
<1> QED
  BY <1>4, <1>5, <1>6

(* what a step of the controller does to broadcast *)
LEMMA BroadcastStep ==
  ASSUME TypeOK, [Next]_vars
  PROVE  \A b \in broadcast' :
           \/ b \in broadcast
           \/ \E i \in Attempts : /\ Submit(i) /\ b = job[i].batch
                                 /\ job[i].pc = "submitting"
<1>1. CASE broadcast' = broadcast
  BY <1>1
<1>2. CASE \E i \in Attempts : Submit(i)
  <2>1. PICK i \in Attempts : Submit(i)
    BY <1>2
  <2>2. broadcast' = broadcast \/ broadcast' = broadcast \cup {job[i].batch}
    BY <2>1 DEF Submit
  <2>3. job[i].pc = "submitting"
    BY <2>1 DEF Submit
  <2> QED
    BY <2>1, <2>2, <2>3
<1>3. ASSUME NEW i \in Attempts, CheckpointRoom(i) \/ CheckpointStep(i), ~Submit(i)
      PROVE  broadcast' = broadcast
  BY <1>3 DEF CheckpointRoom, CheckpointStep, LaunchCheckpoint, CheckpointRefused,
     Reported, TakeSlot, Prepare, BeginProving, ProofVerified, BeginSubmission,
     OnPhase, PhaseSaved, BatchAccepted, BatchRetracted, BatchFinalized, SpendBudget,
     Complete, CheckpointDone, CheckpointFails, EndCheckpoint, l1Vars
<1>4. ASSUME NEW d \in Deploys, DeployRoom(d) \/ DeployStep(d)
      PROVE  broadcast' = broadcast
  BY <1>4 DEF DeployRoom, DeployStep, LaunchDeploy, BeginDeployment, SendCreateRoom,
     RoomCreated, DeployDone, DeployFails, EndDeploy, l1Vars
<1>5. CASE BeginSave \/ EndReply \/ CloseRoom \/ \E block \in Blocks : AddAction(block)
  BY <1>5, <1>1 DEF BeginSave, EndReply, CloseRoom, AddAction, l1Vars
<1>6. CASE L1Step \/ Restart \/ UNCHANGED vars
  BY <1>6, <1>1 DEF L1Step, Include, Finalize, Reorg, Restart, vars, l1Vars
<1> QED
  BY <1>1, <1>2, <1>3, <1>4, <1>5, <1>6 DEF Next

LEMMA SavesRestart ==
  ASSUME IInv, SavesInv, Restart
  PROVE  SavesInv'
<1>1. disk \in Room /\ room' = RestoreSnapshot(disk) /\ disk' = room' /\ written' = room'
  BY DEF Restart, IInv, TypeOK
<1>2. /\ DOMAIN disk'.checkpoints = DOMAIN disk.checkpoints
      /\ \A k \in DOMAIN disk.checkpoints :
           disk'.checkpoints[k].actionIds = disk.checkpoints[k].actionIds
  BY <1>1, RestoreSnapshotType
<1>3. Within(disk, written)' /\ Within(written, room)'
  BY <1>1 DEF Within
<1>4. writes' = << >> /\ saving' = FALSE
  BY DEF Restart
<1>5. \A i \in Attempts : job'[i].pc = "idle"
  BY IdleJobType DEF Restart
<1>6. (\A i \in Attempts : Launches(i))'
  BY <1>4, <1>5 DEF Launches
<1>7. broadcast' = broadcast
  BY DEF Restart, l1Vars
<1>8. AttemptIsDurable'
  BY <1>2, <1>7 DEF AttemptIsDurable, SavesInv
<1> QED
  BY <1>3, <1>4, <1>6, <1>8 DEF SavesInv

LEMMA SavesStep ==
  ASSUME IInv, IInv', SavesInv, [Next]_vars
  PROVE  SavesInv'
<1>1. CASE Restart
  BY <1>1, SavesRestart
<1>2. CASE ~Restart
  <2>0. TypeOK /\ JobsOK /\ TypeOK'
    BY DEF IInv
  <2>1. Grows(room, room')
    BY <1>2, <2>0, RoomStep
  <2>2. Within(room, room')
    BY <2>1 DEF Grows, Within
  <2>3. \A t : KnownTo(room, t) => KnownTo(room', t)
    BY <2>2 DEF KnownTo, Within
  <2>w. writes \in Seq(Tickets) /\ writes' \in Seq(Tickets)
    BY <2>0 DEF TypeOK
  <2>4. CASE BeginSave
    <3>1. /\ UNCHANGED <<room, disk, writes, job, broadcast>> /\ saving' = TRUE
          /\ written' = room /\ writes # << >>
      BY <2>4 DEF BeginSave, l1Vars
    <3>2. Within(disk, room)
      BY WithinTrans DEF SavesInv
    <3>3. Within(disk, written)' /\ Within(written, room)'
      BY <3>1, <3>2 DEF Within
    <3>4. ASSUME NEW i \in Attempts
          PROVE  Launches(i)'
      <4>1. Launches(i)
        BY DEF SavesInv
      <4>2. job[i].pc = "starting" => i \in DOMAIN room.checkpoints
        BY <2>0 DEF JobsOK, JobOK
      <4> QED
        BY <3>1, <4>1, <4>2 DEF Launches
    <3>5. (\A n \in DOMAIN writes : KnownTo(room, writes[n]))' /\ AttemptIsDurable'
      BY <3>1 DEF SavesInv, KnownTo, AttemptIsDurable
    <3> QED
      BY <3>1, <3>3, <3>4, <3>5 DEF SavesInv
  <2>5. CASE ~BeginSave
    <3>1. \/ Ended /\ Extends(Tail(writes))
          \/ UNCHANGED <<disk, written, saving>> /\ Extends(writes)
      BY <1>2, <2>0, <2>5, WritesStep
    <3>2. Within(disk, written)' /\ Within(written, room)' /\ Within(disk, disk')
      <4>1. Within(written, room') /\ Within(disk, room') /\ Within(disk, disk)
            /\ Within(written, written)
        BY <2>2, WithinTrans DEF SavesInv, Within
      <4>2. disk' \in {disk, written} /\ written' \in {disk, written}
            /\ (written' = disk => disk' = disk)
        BY <3>1 DEF Ended
      <4> QED
        BY <4>1, <4>2 DEF SavesInv, Within
    <3>3. ASSUME NEW n \in DOMAIN writes'
          PROVE  KnownTo(room', writes'[n])
      <4>0. /\ Len(writes) \in Nat /\ DOMAIN writes = 1..Len(writes)
            /\ writes # << >> =>
                 /\ Tail(writes) \in Seq(Tickets) /\ DOMAIN Tail(writes) = 1..(Len(writes) - 1)
                 /\ Len(Tail(writes)) = Len(writes) - 1
                 /\ \A k \in 1..(Len(writes) - 1) : Tail(writes)[k] = writes[k + 1]
        BY <2>w
      <4>1. \E old :
              /\ old = writes \/ (old = Tail(writes) /\ writes # << >>)
              /\ \/ writes' = old
                 \/ \E t \in Tickets : KnownTo(room', t) /\ writes' = Append(old, t)
        <5>1. CASE Ended /\ Extends(Tail(writes))
          BY <5>1 DEF Ended, Extends
        <5>2. CASE Extends(writes)
          BY <5>2 DEF Extends
        <5> QED
          BY <3>1, <5>1, <5>2
      <4>p. PICK old :
              /\ old = writes \/ (old = Tail(writes) /\ writes # << >>)
              /\ \/ writes' = old
                 \/ \E t \in Tickets : KnownTo(room', t) /\ writes' = Append(old, t)
        BY <4>1
      <4>2. old \in Seq(Tickets) /\ Len(old) \in Nat /\ DOMAIN old = 1..Len(old)
            /\ \A k \in DOMAIN old : \E l \in DOMAIN writes : old[k] = writes[l]
        <5>1. CASE old = writes
          BY <2>w, <4>0, <5>1
        <5>2. CASE old = Tail(writes) /\ writes # << >>
          <6>1. \A k \in 1..(Len(writes) - 1) : k + 1 \in DOMAIN writes
            BY <4>0
          <6>2. /\ old \in Seq(Tickets) /\ Len(old) = Len(writes) - 1
                /\ DOMAIN old = 1..(Len(writes) - 1)
                /\ \A k \in 1..(Len(writes) - 1) : old[k] = writes[k + 1]
            BY <4>0, <5>2
          <6>3. Len(writes) - 1 \in Nat
            BY <2>w, <5>2
          <6> QED
            BY <6>1, <6>2, <6>3
        <5> QED
          BY <4>p, <5>1, <5>2
      <4>3. \A k \in DOMAIN old : KnownTo(room', old[k])
        BY <2>3, <4>2 DEF SavesInv
      <4>4. CASE writes' = old
        BY <4>3, <4>4
      <4>5. ASSUME NEW t \in Tickets, KnownTo(room', t), writes' = Append(old, t)
            PROVE  KnownTo(room', writes'[n])
        <5>1. (n \in DOMAIN old /\ writes'[n] = old[n]) \/ writes'[n] = t
          BY <4>2, <4>5
        <5> QED
          BY <4>3, <4>5, <5>1
      <4> QED
        BY <4>p, <4>4, <4>5
    <3>4. saving' => writes' # << >>
      <4>1. CASE Ended
        BY <4>1 DEF Ended
      <4>2. CASE saving' = saving /\ Extends(writes)
        BY <2>w, <4>2 DEF Extends, SavesInv
      <4> QED
        BY <3>1, <4>1, <4>2
    <3>5. ASSUME NEW i \in Attempts
          PROVE  Launches(i)'
      <4>1. Launches(i)
        BY DEF SavesInv
      <4>2. job'[i].pc \notin {"idle", "starting"} => i \in DOMAIN disk'.checkpoints
        <5>1. CASE job[i].pc \notin {"idle", "starting"}
          BY <3>2, <4>1, <5>1 DEF Launches, Within
        <5>2. CASE LaunchCheckpoint(i)
          BY <4>1, <5>2 DEF LaunchCheckpoint, Saved, Launches
        <5> QED
          BY <1>2, <2>0, <5>1, <5>2, LaunchStep
      <4>3. ASSUME saving', job'[i].pc = "starting", Head(writes)' = CheckpointTicket(i)
            PROVE  i \in DOMAIN written'.checkpoints
        <5>1. UNCHANGED <<disk, written, saving>> /\ Extends(writes) /\ writes # << >>
          BY <3>1, <4>3 DEF Ended, SavesInv
        <5>2. Head(writes)' = Head(writes)
          BY <2>w, <5>1 DEF Extends
        <5>3. CASE job[i].pc = "starting"
          BY <4>1, <4>3, <5>1, <5>2, <5>3 DEF Launches
        <5>4. CASE CheckpointRoom(i)
          <6>1. KnownTo(room, Head(writes))
            BY <2>w, <5>1 DEF SavesInv
          <6>2. i \in DOMAIN room.checkpoints
            BY <4>3, <5>2, <6>1 DEF KnownTo, CheckpointTicket
          <6>3. i = Len(room.checkpoints) + 1 /\ Len(room.checkpoints) \in Nat
                /\ DOMAIN room.checkpoints = 1..Len(room.checkpoints)
            BY <2>0, <5>4, RoomRecord DEF CheckpointRoom, TypeOK
          <6> QED
            BY <6>2, <6>3
        <5> QED
          BY <1>2, <2>0, <4>3, <5>3, <5>4, LaunchStep
      <4> QED
        BY <4>2, <4>3 DEF Launches
    <3>6. AttemptIsDurable'
      <4> SUFFICES ASSUME NEW b \in broadcast'
                   PROVE  /\ b.by \in DOMAIN disk'.checkpoints
                          /\ disk'.checkpoints[b.by].actionIds = b.ids
        BY DEF AttemptIsDurable
      <4>1. CASE b \in broadcast
        BY <3>2, <4>1 DEF AttemptIsDurable, SavesInv, Within
      <4>2. ASSUME NEW i \in Attempts, b = job[i].batch, job[i].pc = "submitting"
            PROVE  /\ b.by \in DOMAIN disk'.checkpoints
                   /\ disk'.checkpoints[b.by].actionIds = b.ids
        <5>1. b.by = i /\ b.ids = room.checkpoints[i].actionIds
          BY <2>0, <4>2 DEF JobsOK, JobOK, Carrying
        <5>2. i \in DOMAIN disk.checkpoints
          BY <4>2 DEF SavesInv, Launches
        <5>3. Within(disk, room)
          BY WithinTrans DEF SavesInv
        <5> QED
          BY <3>2, <5>1, <5>2, <5>3 DEF Within
      <4> QED
        BY <2>0, <4>1, <4>2, BroadcastStep
    <3> QED
      BY <3>2, <3>3, <3>4, <3>5, <3>6 DEF SavesInv
  <2> QED
    BY <2>4, <2>5
<1> QED
  BY <1>1, <1>2

-------------------------------------------------------------------------------
(* The books of the room: which actions change them, and how *)

SameBooks == room'.checkpoints = room.checkpoints /\ room'.actions = room.actions

LEMMA PhaseOnlyBooks ==
  ASSUME TypeOK, room' = room \/ \E p \in Phases : room' = [room EXCEPT !.phase = p]
  PROVE  SameBooks
<1>1. ASSUME NEW p \in Phases, room' = [room EXCEPT !.phase = p]
      PROVE  SameBooks
  <2>1. room \in Room
    BY DEF TypeOK
  <2> QED
    BY <1>1, <2>1, WithPhase DEF SameBooks
<1> QED
  BY <1>1 DEF SameBooks

LEMMA BooksStep ==
  ASSUME TypeOK, [Next]_vars, ~Restart
  PROVE  \/ SameBooks /\ \A i \in Attempts : ~CheckpointRoom(i) /\ ~CheckpointStep(i)
         \/ \E block \in Blocks : AddAction(block)
         \/ \E i \in Attempts : CheckpointRoom(i)
         \/ \E i \in Attempts : CheckpointStep(i)
<1>1. CASE CloseRoom
  <2>1. room' = [room EXCEPT !.phase = "CLOSED"] /\ "CLOSED" \in Phases
    BY <1>1 DEF CloseRoom, Phases
  <2> QED
    BY <2>1, PhaseOnlyBooks
<1>2. ASSUME NEW d \in Deploys, DeployRoom(d) \/ DeployStep(d)
      PROVE  SameBooks
  <2>1. CASE RoomCreated(d)
    BY <2>1 DEF RoomCreated, TypeOK, Room, SameBooks
  <2>2. CASE ~RoomCreated(d)
    <3>1. room' = room \/ \E p \in Phases : room' = [room EXCEPT !.phase = p]
      BY <1>2, <2>2 DEF DeployRoom, DeployStep, LaunchDeploy, BeginDeployment, SendCreateRoom,
         DeployDone, DeployFails, EndDeploy, DeployPhase, Phases
    <3> QED
      BY <3>1, PhaseOnlyBooks
  <2> QED
    BY <2>1, <2>2
<1>3. CASE BeginSave \/ EndReply \/ L1Step \/ UNCHANGED vars
  BY <1>3 DEF BeginSave, EndReply, L1Step, Include, Finalize, Reorg, vars, demoVars, SameBooks
<1> QED
  BY <1>1, <1>2, <1>3 DEF Next

LEMMA QuietBooks ==
  ASSUME TypeOK, NEW i \in Attempts, CheckpointStep(i), ~CheckpointFails(i), ~Complete(i)
  PROVE  SameBooks
<1>1. room' = room \/ \E p \in Phases : room' = [room EXCEPT !.phase = p]
  BY DEF CheckpointStep, LaunchCheckpoint, CheckpointRefused,
     Reported, TakeSlot, Prepare, BeginProving, ProofVerified, BeginSubmission,
     OnPhase, PhaseSaved, Submit, BatchAccepted, BatchRetracted, BatchFinalized, SpendBudget,
     CheckpointDone, EndCheckpoint, Phases
<1> QED
  BY <1>1, PhaseOnlyBooks

LEMMA AddedBooks ==
  ASSUME TypeOK, NEW block \in Blocks, AddAction(block)
  PROVE  /\ room'.checkpoints = room.checkpoints
         /\ DOMAIN room'.actions = 1..(Len(room.actions) + 1)
         /\ DOMAIN room.actions = 1..Len(room.actions) /\ Len(room.actions) \in Nat
         /\ \A m \in DOMAIN room.actions : room'.actions[m] = room.actions[m]
         /\ room'.actions[Len(room.actions) + 1].checkpointSequence = 0
<1> DEFINE action == [block |-> block, checkpointSequence |-> 0]
<1>1. action \in Action /\ action.checkpointSequence = 0
  BY DEF Action
<1>2. room.actions \in Seq(Action)
  BY RoomRecord DEF TypeOK
<1>3. room' = [room EXCEPT !.actions = Append(room.actions, action)]
  BY DEF AddAction
<1> HIDE DEF action
<1>4. room'.checkpoints = room.checkpoints /\ room'.actions = Append(room.actions, action)
  BY <1>3 DEF TypeOK, Room
<1> QED
  BY <1>1, <1>2, <1>4

LEMMA StartedBooks ==
  ASSUME TypeOK, NEW i \in Attempts, CheckpointRoom(i)
  PROVE  /\ Running(room) = {} /\ room'.actions = room.actions
         /\ i \notin DOMAIN room.checkpoints
         /\ DOMAIN room'.checkpoints = DOMAIN room.checkpoints \cup {i}
         /\ \A k \in DOMAIN room.checkpoints : room'.checkpoints[k] = room.checkpoints[k]
         /\ room'.checkpoints[i].outcome = "RUNNING"
         /\ room'.checkpoints[i].actionIds = PendingActions(room)
<1>1. room' = StartCheckpoint(room) /\ i = Len(room.checkpoints) + 1 /\ Running(room) = {}
  BY DEF CheckpointRoom, Checkpointable
<1>2. room \in Room /\ Len(room.checkpoints) \in Nat
      /\ DOMAIN room.checkpoints = 1..Len(room.checkpoints)
  BY RoomRecord DEF TypeOK
<1>3. i \notin DOMAIN room.checkpoints
      /\ 1..(Len(room.checkpoints) + 1) = DOMAIN room.checkpoints \cup {i}
  BY <1>1, <1>2
<1> QED
  BY <1>1, <1>2, <1>3, StartCheckpointType

LEMMA FailedBooks ==
  ASSUME TypeOK, NEW i \in Attempts, CheckpointFails(i)
  PROVE  /\ room'.actions = room.actions
         /\ DOMAIN room'.checkpoints = DOMAIN room.checkpoints
         /\ \A k \in DOMAIN room.checkpoints :
              /\ room'.checkpoints[k].actionIds = room.checkpoints[k].actionIds
              /\ k # i => room'.checkpoints[k] = room.checkpoints[k]
              /\ k = i => room'.checkpoints[k].outcome = "FAILED"
<1> DEFINE failed == FailCheckpoint(room, i)
<1>1. /\ failed \in Room /\ failed.actions = room.actions
      /\ DOMAIN failed.checkpoints = DOMAIN room.checkpoints
      /\ \A k \in DOMAIN room.checkpoints :
           /\ failed.checkpoints[k].actionIds = room.checkpoints[k].actionIds
           /\ k # i => failed.checkpoints[k] = room.checkpoints[k]
           /\ k = i => failed.checkpoints[k].outcome = "FAILED"
  <2>1. room \in Room /\ i \in Nat
    BY AttemptsNat DEF TypeOK
  <2> QED
    BY <2>1, FailCheckpointType
<1>2. job[i].open \in Phases /\ room' = [failed EXCEPT !.phase = job[i].open]
  BY DEF TypeOK, OpenPhases, Phases, CheckpointFails
<1> HIDE DEF failed
<1>3. room'.checkpoints = failed.checkpoints /\ room'.actions = failed.actions
  BY <1>1, <1>2, WithPhase
<1> QED
  BY <1>1, <1>3

LEMMA CompletedBooks ==
  ASSUME TypeOK, NEW i \in Attempts, Complete(i)
  PROVE  /\ DOMAIN room'.actions = DOMAIN room.actions
         /\ \A m \in DOMAIN room.actions :
              room'.actions[m].checkpointSequence
                = IF m \in room.checkpoints[i].actionIds THEN i
                  ELSE room.actions[m].checkpointSequence
         /\ DOMAIN room'.checkpoints = DOMAIN room.checkpoints
         /\ \A k \in DOMAIN room.checkpoints :
              /\ room'.checkpoints[k].actionIds = room.checkpoints[k].actionIds
              /\ k # i => room'.checkpoints[k] = room.checkpoints[k]
              /\ k = i => room'.checkpoints[k].outcome = "ACCEPTED"
<1> DEFINE result  == [at |-> job[i].batch.at, batchIndex |-> Len(job[i].batch.pre) + 1]
           settled == CompleteCheckpoint(room, i, result)
<1>1. result \in Result
  BY LenProperties DEF TypeOK, Batch, Result
<1>2. room' = [settled EXCEPT !.phase = "L1_FINALIZED"]
  BY DEF Complete
<1>3. room \in Room /\ i \in Nat
  BY AttemptsNat DEF TypeOK
<1> HIDE DEF result
<1>4. /\ settled \in Room
      /\ DOMAIN settled.actions = DOMAIN room.actions
      /\ \A m \in DOMAIN room.actions :
           settled.actions[m].checkpointSequence
             = IF m \in room.checkpoints[i].actionIds THEN i
               ELSE room.actions[m].checkpointSequence
  BY <1>1, <1>3, CompleteCheckpointEffect
<1>5. /\ DOMAIN settled.checkpoints = DOMAIN room.checkpoints
      /\ \A k \in DOMAIN room.checkpoints :
           /\ settled.checkpoints[k].actionIds = room.checkpoints[k].actionIds
           /\ k # i => settled.checkpoints[k] = room.checkpoints[k]
           /\ k = i => settled.checkpoints[k].outcome = "ACCEPTED"
  BY <1>1, <1>3, CompleteCheckpointEffect
<1> HIDE DEF settled
<1>6. room'.checkpoints = settled.checkpoints /\ room'.actions = settled.actions
  BY <1>2, <1>4, WithPhase DEF Phases
<1> QED
  BY <1>4, <1>5, <1>6

-------------------------------------------------------------------------------
(* The code of the jobs: who works on a record, who holds the proving slot *)

Active(i) == job[i].pc \notin {"idle", "quiet", "completing"}

LEMMA JobMoves ==
  ASSUME TypeOK, NEW i \in Attempts, CheckpointStep(i)
  PROVE  /\ Active(i)' => Active(i)
         /\ InSlot(i)' => InSlot(i) \/ SlotFree
         /\ job'[i].pc \in Carrying =>
              Prepare(i) \/ (job[i].pc \in Carrying /\ job'[i].batch = job[i].batch)
         /\ InFlight(i)' => BeginProving(i) \/ InFlight(i)
         /\ \A j \in Attempts : j # i => job'[j] = job[j]
<1>0. job \in [Attempts -> JobRecord] /\ IdleJob.pc = "idle"
  BY IdleJobType DEF TypeOK, JobRecord
<1>a. DOMAIN AfterPhase = {"toProving", "toVerified", "toPending", "toAccepted",
                           "toRetracted", "toFinalized"}
  BY AfterPhaseType
<1>1. CASE CheckpointRefused(i) \/ EndCheckpoint(i)
  <2>1. job' = [job EXCEPT ![i] = IdleJob]
    BY <1>1 DEF CheckpointRefused, EndCheckpoint
  <2>2. job'[i].pc = "idle" /\ \A j \in Attempts : j # i => job'[j] = job[j]
    BY <1>0, <2>1
  <2> QED
    BY <1>a, <2>2 DEF Active, InSlot, Awaiting, Carrying, InFlight
<1>2. CASE Prepare(i)
  <2>1. /\ job[i].pc = "reading" /\ job'[i].pc = "prepared"
        /\ \A j \in Attempts : j # i => job'[j] = job[j]
    BY <1>0, <1>2 DEF Prepare, JobRecord
  <2> QED
    BY <1>2, <1>a, <2>1 DEF Active, InSlot, Awaiting, InFlight
<1>3. ASSUME NEW pc \in JobStates, JobTo(i, pc),
             job[i].pc \notin {"idle", "quiet", "completing"} \/ pc = "quiet",
             pc \in Awaiting \cup DOMAIN AfterPhase \cup {"completing"}
               => InSlot(i) \/ SlotFree,
             pc \in Carrying => job[i].pc \in Carrying,
             pc \in {"toProving", "proving", "toVerified", "verified",
                     "toPending", "submitting", "watching", "toAccepted", "accepted",
                     "toRetracted"} => BeginProving(i) \/ InFlight(i)
      PROVE  /\ Active(i)' => Active(i)
             /\ InSlot(i)' => InSlot(i) \/ SlotFree
             /\ job'[i].pc \in Carrying =>
                  Prepare(i) \/ (job[i].pc \in Carrying /\ job'[i].batch = job[i].batch)
             /\ InFlight(i)' => BeginProving(i) \/ InFlight(i)
             /\ \A j \in Attempts : j # i => job'[j] = job[j]
  <2>1. /\ job'[i].pc = pc /\ job'[i].batch = job[i].batch
        /\ \A j \in Attempts : j # i => job'[j] = job[j]
    BY <1>3, JobToType
  <2>2. Active(i)' => Active(i)
    BY <1>3, <2>1 DEF Active
  <2>3. InSlot(i)' => InSlot(i) \/ SlotFree
    BY <1>3, <2>1 DEF InSlot
  <2>4. InFlight(i)' => BeginProving(i) \/ InFlight(i)
    BY <1>3, <2>1 DEF InFlight
  <2> QED
    BY <1>3, <2>1, <2>2, <2>3, <2>4
<1>4. CASE LaunchCheckpoint(i) \/ TakeSlot(i) \/ Reported(i)
  <2>1. PICK pc \in {"reading", "reporting", "queued"} :
          /\ JobTo(i, pc) /\ job[i].pc \in {"starting", "reporting", "queued"}
          /\ pc = "reading" => SlotFree
    BY <1>4 DEF LaunchCheckpoint, TakeSlot, Reported
  <2>2. pc \in JobStates /\ pc \notin Carrying
        /\ pc \notin {"toProving", "proving", "toVerified", "verified",
                      "toPending", "submitting", "watching", "toAccepted", "accepted",
                      "toRetracted"}
        /\ (pc \in Awaiting \cup DOMAIN AfterPhase \cup {"completing"} => pc = "reading")
    BY <1>a DEF JobStates, Awaiting, Carrying
  <2> QED
    BY <1>3, <2>1, <2>2
<1>5. CASE PhaseSaved(i)
  <2>1. JobTo(i, AfterPhase[job[i].pc]) /\ job[i].pc \in DOMAIN AfterPhase
        /\ AfterPhase[job[i].pc] \in JobStates
    BY <1>5, AfterPhaseType DEF PhaseSaved
  <2>2. InSlot(i) /\ job[i].pc \in Carrying /\ job[i].pc \notin {"idle", "quiet", "completing"}
    BY <1>a, <2>1 DEF InSlot, Carrying
  <2>3. AfterPhase[job[i].pc] \in {"toProving", "proving", "toVerified", "verified",
                     "toPending", "submitting", "watching", "toAccepted", "accepted",
                     "toRetracted"} => InFlight(i)
    BY <1>a, <2>1 DEF AfterPhase, InFlight
  <2> QED
    BY <1>3, <2>1, <2>2, <2>3
<1>6. CASE \/ BeginProving(i) \/ ProofVerified(i) \/ BeginSubmission(i) \/ Submit(i)
           \/ BatchAccepted(i) \/ BatchRetracted(i) \/ BatchFinalized(i)
  <2>1. PICK pc \in {"toProving", "toVerified", "toPending", "watching", "toAccepted",
                     "toRetracted", "toFinalized"} : JobTo(i, pc)
    BY <1>6 DEF BeginProving, ProofVerified, BeginSubmission, Submit, BatchAccepted,
       BatchRetracted, BatchFinalized, SpendBudget, OnPhase
  <2>2. /\ job[i].pc \in {"prepared", "proving", "verified", "submitting", "watching", "accepted"}
        /\ job[i].pc = "prepared" => BeginProving(i)
    BY <1>6 DEF BeginProving, ProofVerified, BeginSubmission, Submit, BatchAccepted,
       BatchRetracted, BatchFinalized, SpendBudget, OnPhase
  <2>3. /\ pc \in JobStates /\ InSlot(i) /\ job[i].pc \in Carrying
        /\ job[i].pc \notin {"idle", "quiet", "completing"}
        /\ InFlight(i) \/ BeginProving(i)
    BY <1>a, <2>2 DEF JobStates, Awaiting, InSlot, Carrying, InFlight
  <2> QED
    BY <1>3, <2>1, <2>3
<1>7. CASE Complete(i) \/ CheckpointDone(i) \/ CheckpointFails(i)
  <2>1. PICK pc \in {"completing", "quiet"} :
          /\ JobTo(i, pc)
          /\ pc = "completing" => job[i].pc = "checking"
    BY <1>7 DEF Complete, CheckpointDone, CheckpointFails
  <2>2. pc \in JobStates /\ pc \notin Carrying /\ pc \notin Awaiting \cup DOMAIN AfterPhase
        /\ pc \notin {"toProving", "proving", "toVerified", "verified",
                      "toPending", "submitting", "watching", "toAccepted", "accepted",
                      "toRetracted"}
        /\ (job[i].pc = "checking" => InSlot(i))
    BY <1>a DEF JobStates, Carrying, Awaiting, InSlot
  <2> QED
    BY <1>3, <2>1, <2>2
<1>8. CASE SpendBudget(i)
  <2>1. /\ job'[i].pc = job[i].pc /\ job'[i].batch = job[i].batch /\ job[i].pc \in Watching
        /\ \A j \in Attempts : j # i => job'[j] = job[j]
    BY <1>8, SpendBudgetKeeps
  <2>2. InSlot(i) /\ Active(i) /\ InFlight(i) /\ job[i].pc \in Carrying
    BY <1>a, <2>1 DEF Watching, InSlot, Active, InFlight, Carrying, Awaiting
  <2> QED
    BY <2>1, <2>2
<1> QED
  BY <1>1, <1>2, <1>4, <1>5, <1>6, <1>7, <1>8 DEF CheckpointStep

(* an attempt settles or fails from the slot, and works on its record no more *)
LEMMA JobEnds ==
  ASSUME TypeOK, NEW i \in Attempts, Complete(i) \/ CheckpointFails(i)
  PROVE  /\ CheckpointStep(i) /\ InSlot(i) /\ ~Active(i)' /\ ~InFlight(i)'
         /\ Active(i) \/ (CheckpointFails(i) /\ saveFailures' > 0)
<1>1. DOMAIN AfterPhase = {"toProving", "toVerified", "toPending", "toAccepted",
                           "toRetracted", "toFinalized"}
  BY AfterPhaseType
<1>2. PICK pc \in {"completing", "quiet"} : JobTo(i, pc)
  BY DEF Complete, CheckpointFails
<1>3. job'[i].pc = pc
  BY <1>2, JobToType DEF JobStates
<1>4. InSlot(i) /\ (Active(i) \/ job[i].pc = "completing")
  BY <1>1 DEF Complete, CheckpointFails, Active, InSlot, Awaiting
<1>5. job[i].pc = "completing" => CheckpointFails(i) /\ SaveFailed(CheckpointTicket(i))
  BY DEF Complete, CheckpointFails, Awaiting
<1>6. SaveFailed(CheckpointTicket(i)) => saveFailures' > 0
  BY DEF SaveFailed, TypeOK
<1>7. CheckpointStep(i)
  BY DEF CheckpointStep
<1> QED
  BY <1>3, <1>4, <1>5, <1>6, <1>7 DEF Active, InFlight

(* a job that neither starts nor moves is left alone *)
LEMMA OthersJob ==
  ASSUME TypeOK, [Next]_vars, ~Restart, NEW i \in Attempts,
         ~CheckpointRoom(i), ~CheckpointStep(i)
  PROVE  job'[i] = job[i]
<1>1. ASSUME NEW j \in Attempts, CheckpointRoom(j) \/ CheckpointStep(j)
      PROVE  job'[i] = job[i]
  <2>1. j # i
    BY <1>1
  <2>2. CASE CheckpointRoom(j)
    BY <2>1, <2>2 DEF CheckpointRoom, TypeOK
  <2>3. CASE CheckpointStep(j)
    BY <2>1, <2>3, JobMoves
  <2> QED
    BY <1>1, <2>2, <2>3
<1> QED
  BY <1>1, OtherJobs

LEMMA NotPreparedTwice ==
  ASSUME TypeOK, NEW i \in Attempts, CheckpointStep(i), ~Prepare(i), ~Complete(i),
         ~CheckpointFails(i)
  PROVE  job'[i].pc # "prepared"
<1>0. job \in [Attempts -> JobRecord]
  BY DEF TypeOK, JobRecord
<1>1. CASE CheckpointRefused(i) \/ EndCheckpoint(i)
  BY <1>0, <1>1, IdleJobType DEF CheckpointRefused, EndCheckpoint
<1>2. CASE PhaseSaved(i)
  <2>1. JobTo(i, AfterPhase[job[i].pc]) /\ AfterPhase[job[i].pc] \in JobStates
        /\ AfterPhase[job[i].pc] # "prepared"
    BY <1>2, AfterPhaseType DEF PhaseSaved, AfterPhase
  <2> QED
    BY <2>1, JobToType
<1>3. CASE ~CheckpointRefused(i) /\ ~EndCheckpoint(i) /\ ~PhaseSaved(i) /\ ~SpendBudget(i)
  <2>1. \E pc \in {"reading", "reporting", "queued", "toProving", "toVerified", "toPending",
                   "watching", "toAccepted", "toRetracted", "toFinalized", "quiet"} : JobTo(i, pc)
    BY <1>3 DEF CheckpointStep, LaunchCheckpoint, Reported, TakeSlot,
       BeginProving, ProofVerified, BeginSubmission, OnPhase, Submit, BatchAccepted,
       BatchRetracted, BatchFinalized, SpendBudget, CheckpointDone
  <2>2. PICK pc \in {"reading", "reporting", "queued", "toProving", "toVerified", "toPending",
                   "watching", "toAccepted", "toRetracted", "toFinalized", "quiet"} : JobTo(i, pc)
    BY <2>1
  <2>3. pc \in JobStates /\ pc # "prepared"
    BY AfterPhaseType DEF JobStates, Awaiting
  <2> QED
    BY <2>2, <2>3, JobToType
<1>4. CASE SpendBudget(i)
  BY <1>4, SpendBudgetKeeps DEF Watching
<1> QED
  BY <1>1, <1>2, <1>3, <1>4

(* One attempt at a time: a working job is that of the one RUNNING record, and one
   job has the proving slot. *)
SlotsInv ==
  /\ \A j, k \in Running(room) : j = k
  /\ \A i \in Attempts : Active(i) => i \in Running(room)
  /\ \A i, j \in Attempts : InSlot(i) /\ InSlot(j) => i = j

LEMMA RunningStep ==
  ASSUME TypeOK, [Next]_vars, ~Restart
  PROVE  \A k \in Running(room') :
           \/ k \in Running(room)
           \/ k \in Attempts /\ CheckpointRoom(k) /\ Running(room) = {}
<1>1. CASE room'.checkpoints = room.checkpoints
  BY <1>1 DEF Running
<1>2. ASSUME NEW i \in Attempts, CheckpointRoom(i)
      PROVE  \A k \in Running(room') :
               k \in Running(room) \/ (k = i /\ Running(room) = {})
  BY <1>2, StartedBooks DEF Running
<1>3. ASSUME NEW i \in Attempts, CheckpointStep(i)
      PROVE  \A k \in Running(room') : k \in Running(room)
  <2>1. CASE Complete(i)
    BY <2>1, CompletedBooks DEF Running
  <2>2. CASE CheckpointFails(i)
    BY <2>2, FailedBooks DEF Running
  <2>3. CASE ~Complete(i) /\ ~CheckpointFails(i)
    <3>1. room'.checkpoints = room.checkpoints
      BY <1>3, <2>3, QuietBooks DEF SameBooks
    <3> QED
      BY <3>1 DEF Running
  <2> QED
    BY <2>1, <2>2, <2>3
<1> QED
  BY <1>1, <1>2, <1>3, BooksStep, AddedBooks DEF SameBooks

LEMMA SlotsStep ==
  ASSUME TypeOK, TypeOK', JobsOK, SlotsInv, [Next]_vars
  PROVE  SlotsInv'
<1>1. CASE Restart
  <2>1. \A i \in Attempts : job'[i] = IdleJob
    BY <1>1 DEF Restart
  <2>2. \A i \in Attempts : ~Active(i)' /\ ~InSlot(i)'
    BY <2>1, IdleJobType, AfterPhaseType DEF Active, InSlot, Awaiting
  <2>3. Running(room)' = {}
    BY <1>1, RestoreSnapshotType DEF Restart, Running, TypeOK
  <2> QED
    BY <2>2, <2>3 DEF SlotsInv
<1>2. ASSUME NEW i \in Attempts, CheckpointRoom(i), ~Restart
      PROVE  SlotsInv'
  <2>1. Running(room) = {} /\ room'.checkpoints[i].outcome = "RUNNING"
        /\ i \in DOMAIN room'.checkpoints
    BY <1>2, StartedBooks
  <2>2. job' = [job EXCEPT ![i] = [[IdleJob EXCEPT !.pc = "starting"] EXCEPT !.open = room.phase]]
    BY <1>2 DEF CheckpointRoom
  <2>3. job'[i].pc = "starting" /\ \A j \in Attempts : j # i => job'[j] = job[j]
    BY <2>2, IdleJobType DEF TypeOK, JobRecord
  <2>4. \A j \in Attempts : Active(j)' => j = i
    BY <2>1, <2>3 DEF SlotsInv, Active
  <2>5. ~InSlot(i)' /\ \A j \in Attempts : j # i => InSlot(j)' = InSlot(j)
    BY <2>3, AfterPhaseType DEF InSlot, Awaiting
  <2>6. i \in Running(room)' /\ \A k \in Running(room)' : k = i
    <3>1. i \in Running(room)'
      BY <2>1 DEF Running
    <3>2. \A k \in Running(room)' : k = i
      BY <1>2, <2>1, StartedBooks DEF Running
    <3> QED
      BY <3>1, <3>2
  <2> QED
    BY <2>4, <2>5, <2>6 DEF SlotsInv
<1>3. ASSUME NEW i \in Attempts, CheckpointStep(i), ~Restart
      PROVE  SlotsInv'
  <2>1. \A k \in Running(room)' : k \in Running(room)
    <3>1. CASE Complete(i)
      BY <3>1, CompletedBooks DEF Running
    <3>2. CASE CheckpointFails(i)
      BY <3>2, FailedBooks DEF Running
    <3> QED
      BY <1>3, <3>1, <3>2, QuietBooks DEF SameBooks, Running
  <2>2. \A k \in Running(room) : k # i => k \in Running(room)'
    <3>1. CASE Complete(i)
      BY <3>1, CompletedBooks DEF Running
    <3>2. CASE CheckpointFails(i)
      BY <3>2, FailedBooks DEF Running
    <3> QED
      BY <1>3, <3>1, <3>2, QuietBooks DEF SameBooks, Running
  <2>3. Active(i)' => Active(i) /\ Running(room)' = Running(room)
    BY <1>3, JobMoves, JobEnds, QuietBooks DEF SameBooks, Running
  <2>4. \A j \in Attempts : j # i => Active(j)' = Active(j) /\ InSlot(j)' = InSlot(j)
    BY <1>3, JobMoves DEF Active, InSlot
  <2>5. InSlot(i)' => InSlot(i) \/ \A j \in Attempts : ~InSlot(j)
    BY <1>3, JobMoves DEF SlotFree
  <2>6. \A j \in Attempts : Active(j)' => j \in Running(room)'
    BY <2>2, <2>3, <2>4 DEF SlotsInv
  <2>7. \A j, k \in Attempts : InSlot(j)' /\ InSlot(k)' => j = k
    BY <2>4, <2>5 DEF SlotsInv
  <2> QED
    BY <2>1, <2>6, <2>7 DEF SlotsInv
<1>4. CASE ~Restart /\ \A i \in Attempts : ~CheckpointRoom(i) /\ ~CheckpointStep(i)
  <2>1. job' = job
    BY <1>4, OtherJobs
  <2>2. room'.checkpoints = room.checkpoints
    BY <1>4, BooksStep, AddedBooks DEF SameBooks
  <2> QED
    BY <2>1, <2>2 DEF SlotsInv, Active, InSlot, Running
<1> QED
  BY <1>1, <1>2, <1>3, <1>4

-------------------------------------------------------------------------------
(* The history the records describe *)

LEMMA NatMin ==
  ASSUME NEW S \in SUBSET Nat, S # {}
  PROVE  \E m \in S : \A x \in S : m <= x
<1> DEFINE R == {p \in Nat \X Nat : p[1] < p[2]}
<1>1. IsWellFoundedOn(R, Nat)
  BY NatLessThanWellFounded DEF OpToRel
<1> HIDE DEF R
<1>2. PICK m \in S : \A y \in S : ~(<<y, m>> \in R)
  BY <1>1, WFMin
<1>3. ASSUME NEW y \in S PROVE m <= y
  <2>1. ~(<<y, m>> \in R) /\ <<y, m>> \in Nat \X Nat
    BY <1>2
  <2>2. ~(y < m)
    BY <2>1 DEF R
  <2> QED BY <2>2
<1> QED BY <1>3

(* ProvedHistory is made of the moves of ACCEPTED records, and of nothing else: the
   recursive function exists, and each of its values is a sequence of such move sets. *)
LEMMA HistoryElements ==
  ASSUME NEW r \in Room
  PROVE  /\ ProvedHistory(r) \in Seq(SUBSET Nat)
         /\ \A n \in DOMAIN ProvedHistory(r) : \E k \in DOMAIN r.checkpoints :
              /\ r.checkpoints[k].outcome = "ACCEPTED"
              /\ ProvedHistory(r)[n] = r.checkpoints[k].actionIds
<1> DEFINE L == Len(r.checkpoints)
           Step(n, h) == IF r.checkpoints[n].outcome = "ACCEPTED"
                         THEN Append(h, r.checkpoints[n].actionIds)
                         ELSE h
           Sets == {ids \in SUBSET Nat : \E k \in DOMAIN r.checkpoints :
                      r.checkpoints[k].outcome = "ACCEPTED" /\ ids = r.checkpoints[k].actionIds}
           upTo == CHOOSE f : f = [n \in 0 .. Len(r.checkpoints) |->
                     IF n = 0 THEN << >>
                     ELSE IF r.checkpoints[n].outcome = "ACCEPTED"
                          THEN Append(f[n - 1], r.checkpoints[n].actionIds)
                          ELSE f[n - 1]]
<1>1. L \in Nat /\ DOMAIN r.checkpoints = 1..L
      /\ \A k \in 1..L : r.checkpoints[k].actionIds \in SUBSET Nat
  BY RoomRecord DEF Record
<1>2. \A n \in 1..L : \A h \in Seq(Sets) : Step(n, h) \in Seq(Sets)
  <2> SUFFICES ASSUME NEW n \in 1..L, NEW h \in Seq(Sets) PROVE Step(n, h) \in Seq(Sets)
    OBVIOUS
  <2>1. r.checkpoints[n].outcome = "ACCEPTED" => r.checkpoints[n].actionIds \in Sets
    BY <1>1
  <2> HIDE DEF Sets
  <2> QED
    BY <2>1
<1>3. ProvedHistory(r) = upTo[L]
  BY DEF ProvedHistory
<1>4. \A f : (f = [n \in 0..L |-> IF n = 0 THEN << >> ELSE Step(n, f[n - 1])])
               => upTo = [n \in 0..L |-> IF n = 0 THEN << >> ELSE Step(n, upTo[n - 1])]
  OBVIOUS
<1> HIDE DEF L, upTo
<1> DEFINE Good(m, g) == /\ g \in [0..m -> Seq(Sets)] /\ g[0] = << >>
                         /\ \A n \in 1..m : g[n] = Step(n, g[n - 1])
<1> HIDE DEF Sets, Step
<1>5. \E g : Good(L, g)
  <2> DEFINE Bad == {m \in 0..L : ~ \E g : Good(m, g)}
  <2>1. Good(0, [n \in 0..0 |-> << >>])
    OBVIOUS
  <2>2. ASSUME NEW m \in 1..L, NEW g, Good(m - 1, g)
        PROVE  \E longer : Good(m, longer)
    <3> DEFINE longer == [n \in 0..m |-> IF n = m THEN Step(m, g[m - 1]) ELSE g[n]]
    <3>1. g[m - 1] \in Seq(Sets) /\ Step(m, g[m - 1]) \in Seq(Sets)
      BY <1>1, <1>2, <2>2
    <3>2. longer \in [0..m -> Seq(Sets)] /\ longer[0] = << >>
      BY <1>1, <2>2, <3>1
    <3>3. \A n \in 1..m : longer[n] = Step(n, longer[n - 1])
      <4> TAKE n \in 1..m
      <4>1. CASE n = m
        BY <1>1, <4>1
      <4>2. CASE n # m
        BY <1>1, <2>2, <4>2
      <4> QED
        BY <4>1, <4>2
    <3>4. Good(m, longer)
      BY <3>2, <3>3
    <3> QED
      BY <3>4
  <2> HIDE DEF Good
  <2>3. ASSUME Bad # {} PROVE FALSE
    <3>1. PICK m \in Bad : \A x \in Bad : m <= x
      <4>1. Bad \in SUBSET Nat
        OBVIOUS
      <4> HIDE DEF Bad
      <4> QED
        BY <2>3, <4>1, NatMin
    <3>2. m # 0 /\ m \in 0..L
      BY <2>1, <3>1
    <3>3. m \in 1..L /\ m - 1 \in 0..L /\ ~(m <= m - 1)
      BY <1>1, <3>2
    <3>4. m - 1 \notin Bad
      BY <3>1, <3>3
    <3>5. PICK g : Good(m - 1, g)
      BY <3>3, <3>4
    <3> QED
      BY <2>2, <3>1, <3>3, <3>5
  <2>4. Bad = {}
    BY <2>3
  <2>5. L \in 0..L
    BY <1>1
  <2> QED
    BY <2>4, <2>5
<1>6. upTo = [n \in 0..L |-> IF n = 0 THEN << >> ELSE Step(n, upTo[n - 1])]
  <2>1. PICK g : Good(L, g)
    BY <1>5
  <2>2. g = [n \in 0..L |-> g[n]] /\ g[0] = << >> /\ \A n \in 1..L : g[n] = Step(n, g[n - 1])
    BY <2>1
  <2>3. \A n \in 0..L : g[n] = IF n = 0 THEN << >> ELSE Step(n, g[n - 1])
    <3> TAKE n \in 0..L
    <3>1. n = 0 \/ n \in 1..L
      BY <1>1
    <3> QED
      BY <2>2, <3>1
  <2>4. g = [n \in 0..L |-> IF n = 0 THEN << >> ELSE Step(n, g[n - 1])]
    BY <2>2, <2>3
  <2> QED
    BY <1>4, <2>4
<1>7. upTo[L] \in Seq(Sets)
  <2> DEFINE Bad == {n \in 0..L : upTo[n] \notin Seq(Sets)}
  <2>1. ASSUME Bad # {} PROVE FALSE
    <3>1. PICK m \in Bad : \A x \in Bad : m <= x
      <4>1. Bad \in SUBSET Nat
        OBVIOUS
      <4> HIDE DEF Bad
      <4> QED
        BY <2>1, <4>1, NatMin
    <3>2. CASE m = 0
      BY <1>6, <3>1, <3>2
    <3>3. CASE m # 0
      <4>1. m \in 1..L /\ m - 1 \in 0..L /\ m - 1 \notin Bad
        BY <1>1, <3>1, <3>3
      <4>2. upTo[m - 1] \in Seq(Sets) /\ upTo[m] = Step(m, upTo[m - 1])
        BY <1>1, <1>6, <4>1
      <4> QED
        BY <1>2, <3>1, <4>1, <4>2
    <3> QED
      BY <3>2, <3>3
  <2> QED
    BY <1>1, <2>1
<1>8. \A n \in DOMAIN ProvedHistory(r) : ProvedHistory(r)[n] \in Sets
  BY <1>3, <1>7, LenProperties, ElementOfSeq
<1>9. ProvedHistory(r) \in Seq(SUBSET Nat)
  <2>1. \A n \in DOMAIN upTo[L] : upTo[L][n] \in SUBSET Nat
    BY <1>3, <1>8 DEF Sets
  <2>2. upTo[L] \in [DOMAIN upTo[L] -> SUBSET Nat]
    BY <1>7, <2>1, LenProperties
  <2> HIDE DEF Sets
  <2> QED
    BY <1>3, <1>7, <2>2, SeqOfLength
<1> QED
  BY <1>8, <1>9 DEF Sets

-------------------------------------------------------------------------------
(* No move twice *)

(* a record's moves are moves of the room; those of an ACCEPTED one are not pending *)
RecordSound(r, k) ==
  /\ r.checkpoints[k].actionIds \subseteq DOMAIN r.actions
  /\ r.checkpoints[k].outcome = "ACCEPTED" =>
       \A m \in r.checkpoints[k].actionIds : r.actions[m].checkpointSequence # 0
Sound(r) == \A k \in DOMAIN r.checkpoints : RecordSound(r, k)

(* the moves being checkpointed are in no ACCEPTED record *)
RunningIsNew ==
  \A j \in Running(room) : \A k \in DOMAIN room.checkpoints :
    room.checkpoints[k].outcome = "ACCEPTED" =>
      room.checkpoints[j].actionIds \cap room.checkpoints[k].actionIds = {}

(* a batch repeats no move of the state it opens from *)
Fresh(b) == \A k \in DOMAIN b.pre : b.pre[k] \cap b.ids = {}

OnceInv ==
  /\ Sound(room) /\ Sound(disk) /\ Sound(written)
  /\ RunningIsNew
  /\ \A i \in Attempts : job[i].pc \in Carrying => Fresh(job[i].batch)
  /\ \A b \in broadcast : Fresh(b)
  /\ SettledOnce

LEMMA SoundRestored ==
  ASSUME NEW r \in Room, Sound(r)
  PROVE  Sound(RestoreSnapshot(r))
<1> DEFINE q == RestoreSnapshot(r)
<1>1. /\ q.actions = r.actions
      /\ DOMAIN q.checkpoints = DOMAIN r.checkpoints
      /\ \A j \in DOMAIN r.checkpoints :
           /\ q.checkpoints[j].actionIds = r.checkpoints[j].actionIds
           /\ q.checkpoints[j].outcome = "ACCEPTED" <=> r.checkpoints[j].outcome = "ACCEPTED"
  BY RestoreSnapshotType
<1>2. Sound(q)
  <2> HIDE DEF q
  <2> QED
    BY <1>1 DEF Sound, RecordSound
<1> QED
  BY <1>2

LEMMA SoundStep ==
  ASSUME TypeOK, Sound(room), [Next]_vars, ~Restart
  PROVE  Sound(room')
<1>0. room \in Room /\ DOMAIN room.actions = 1..Len(room.actions) /\ Len(room.actions) \in Nat
  BY RoomRecord, LenProperties DEF TypeOK
<1>1. CASE SameBooks
  BY <1>1 DEF SameBooks, Sound, RecordSound
<1>2. ASSUME NEW block \in Blocks, AddAction(block)
      PROVE  Sound(room')
  <2> SUFFICES ASSUME NEW k \in DOMAIN room.checkpoints
               PROVE  RecordSound(room', k)
    BY <1>2, AddedBooks DEF Sound
  <2>1. /\ room'.checkpoints = room.checkpoints
        /\ DOMAIN room.actions \subseteq DOMAIN room'.actions
        /\ \A m \in DOMAIN room.actions : room'.actions[m] = room.actions[m]
    BY <1>0, <1>2, AddedBooks
  <2> QED
    BY <2>1 DEF Sound, RecordSound
<1>3. ASSUME NEW i \in Attempts, CheckpointRoom(i)
      PROVE  Sound(room')
  <2>1. PendingActions(room) \subseteq DOMAIN room.actions
    BY DEF PendingActions
  <2>2. RecordSound(room', i)
    BY <1>3, <2>1, StartedBooks DEF RecordSound
  <2>3. ASSUME NEW k \in DOMAIN room.checkpoints
        PROVE  RecordSound(room', k)
    BY <1>3, StartedBooks DEF RecordSound, Sound
  <2> QED
    BY <1>3, <2>2, <2>3, StartedBooks DEF Sound
<1>4. ASSUME NEW i \in Attempts, CheckpointStep(i)
      PROVE  Sound(room')
  <2>1. CASE CheckpointFails(i)
    <3>1. /\ room'.actions = room.actions
          /\ DOMAIN room'.checkpoints = DOMAIN room.checkpoints
          /\ \A k \in DOMAIN room.checkpoints :
               /\ room'.checkpoints[k].actionIds = room.checkpoints[k].actionIds
               /\ room'.checkpoints[k].outcome = "ACCEPTED" => room.checkpoints[k].outcome = "ACCEPTED"
      BY <2>1, FailedBooks
    <3> QED
      BY <3>1 DEF Sound, RecordSound
  <2>2. CASE Complete(i)
    <3>1. DOMAIN room'.checkpoints = DOMAIN room.checkpoints
      BY <2>2, CompletedBooks
    <3>2. ASSUME NEW k \in DOMAIN room.checkpoints
          PROVE  RecordSound(room', k)
      <4>1. /\ RecordSound(room, k)
            /\ room'.checkpoints[k].actionIds = room.checkpoints[k].actionIds
            /\ room'.checkpoints[k].outcome = "ACCEPTED"
                 => k = i \/ room.checkpoints[k].outcome = "ACCEPTED"
            /\ DOMAIN room'.actions = DOMAIN room.actions
        BY <2>2, CompletedBooks DEF Sound
      <4>2. i # 0
        BY DemoRoomAssumption DEF Attempts, DemoRoomAssumption
      <4>3. \A m \in DOMAIN room.actions :
              /\ m \in room.checkpoints[i].actionIds => room'.actions[m].checkpointSequence = i
              /\ room.actions[m].checkpointSequence # 0 => room'.actions[m].checkpointSequence # 0
        BY <2>2, <4>2, CompletedBooks
      <4> QED
        BY <4>1, <4>2, <4>3 DEF RecordSound
    <3> QED
      BY <3>1, <3>2 DEF Sound
  <2> QED
    BY <1>1, <1>4, <2>1, <2>2, QuietBooks
<1> QED
  BY <1>1, <1>2, <1>3, <1>4, BooksStep

LEMMA RunningIsNewStep ==
  ASSUME TypeOK, SlotsInv, Sound(room), RunningIsNew, [Next]_vars, ~Restart
  PROVE  RunningIsNew'
<1> SUFFICES ASSUME NEW j \in Running(room'), NEW k \in DOMAIN room'.checkpoints,
                    room'.checkpoints[k].outcome = "ACCEPTED"
             PROVE  room'.checkpoints[j].actionIds \cap room'.checkpoints[k].actionIds = {}
  BY DEF RunningIsNew
<1>1. ASSUME NEW i \in Attempts, CheckpointRoom(i)
      PROVE  room'.checkpoints[j].actionIds \cap room'.checkpoints[k].actionIds = {}
  <2>1. j = i
    BY <1>1, StartedBooks DEF Running
  <2>2. k \in DOMAIN room.checkpoints /\ room'.checkpoints[k] = room.checkpoints[k]
    BY <1>1, StartedBooks
  <2>3. \A m \in room.checkpoints[k].actionIds : m \notin PendingActions(room)
    BY <2>2 DEF Sound, RecordSound, PendingActions
  <2>4. room'.checkpoints[j].actionIds = PendingActions(room)
    BY <1>1, <2>1, StartedBooks
  <2> QED
    BY <2>2, <2>3, <2>4
<1>2. CASE room'.checkpoints = room.checkpoints
  BY <1>2 DEF RunningIsNew, Running
<1>3. ASSUME NEW i \in Attempts, CheckpointStep(i)
      PROVE  room'.checkpoints[j].actionIds \cap room'.checkpoints[k].actionIds = {}
  <2>1. CASE Complete(i)
    <3>1. j \in Running(room) /\ j # i
      BY <2>1, CompletedBooks DEF Running
    <3>2. i \in Running(room)
      BY <2>1 DEF Complete, SlotsInv, Active
    <3> QED
      BY <3>1, <3>2 DEF SlotsInv
  <2>2. CASE CheckpointFails(i)
    <3>1. j \in Running(room) /\ j # i
      BY <2>2, FailedBooks DEF Running
    <3>2. k # i /\ k \in DOMAIN room.checkpoints /\ room'.checkpoints[k] = room.checkpoints[k]
          /\ room'.checkpoints[j] = room.checkpoints[j]
      BY <2>2, <3>1, FailedBooks DEF Running
    <3> QED
      BY <3>1, <3>2 DEF RunningIsNew
  <2> QED
    BY <1>2, <1>3, <2>1, <2>2, QuietBooks DEF SameBooks
<1> QED
  BY <1>1, <1>2, <1>3, BooksStep, AddedBooks DEF SameBooks

(* What is prepared continues the room's own records, or a fresh room. *)
LEMMA PreparedPre ==
  ASSUME TypeOK, JobsOK, NEW i \in Attempts, Prepare(i)
  PROVE  /\ i \in DOMAIN room.checkpoints /\ room.chainRoomId \in Deploys
         /\ job'[i].batch.ids = room.checkpoints[i].actionIds
         /\ \/ job'[i].batch.pre = ProvedHistory(room)
            \/ job'[i].batch.pre = << >> /\ Len(chain[room.chainRoomId]) = 0
<1> DEFINE head == Root(chain[room.chainRoomId])
           pre  == PreparedFrom(room, head)
           batch == [by |-> i, at |-> room.chainRoomId, pre |-> pre,
                     ids |-> room.checkpoints[i].actionIds]
<1>1. i \in DOMAIN room.checkpoints /\ room.chainRoomId \in Deploys
  BY DEF Prepare, JobsOK, JobOK
<1>2. Len(head) = Len(chain[room.chainRoomId]) /\ Len(head) \in Nat
  BY <1>1, RootType, LenProperties DEF TypeOK
<1>3. PreparedMatches(pre, i, head)
  BY DEF Prepare
<1>4. pre = ProvedHistory(room) \/ (pre = << >> /\ Len(head) = 0)
  <2> HIDE DEF head
  <2>1. CASE Replays(room, head)
    BY <2>1 DEF PreparedFrom
  <2>2. CASE ~Replays(room, head)
    <3>1. pre = << >>
      BY <2>2 DEF PreparedFrom
    <3>2. Len(head) > 0 => pre = head
      BY <1>3 DEF PreparedMatches, IsContinuation
    <3> QED
      BY <1>2, <3>1, <3>2
  <2> QED
    BY <2>1, <2>2
<1>5. job' = [job EXCEPT ![i] = [[job[i] EXCEPT !.pc = "prepared"] EXCEPT !.batch = batch]]
  BY DEF Prepare
<1>6. batch.pre = pre /\ batch.ids = room.checkpoints[i].actionIds
  OBVIOUS
<1> HIDE DEF batch, pre, head
<1>7. job'[i].batch = batch
  BY <1>5 DEF TypeOK
<1> QED
  BY <1>1, <1>2, <1>4, <1>6, <1>7

LEMMA PreparedFresh ==
  ASSUME TypeOK, JobsOK, SlotsInv, RunningIsNew, NEW i \in Attempts, Prepare(i)
  PROVE  Fresh(job[i].batch)'
<1> SUFFICES ASSUME NEW n \in DOMAIN job'[i].batch.pre
             PROVE  job'[i].batch.pre[n] \cap job'[i].batch.ids = {}
  BY DEF Fresh
<1>1. job'[i].batch.ids = room.checkpoints[i].actionIds /\ i \in Running(room)
  BY PreparedPre DEF Prepare, SlotsInv, Active
<1>2. job'[i].batch.pre = ProvedHistory(room)
  BY PreparedPre
<1>3. PICK k \in DOMAIN room.checkpoints :
        /\ room.checkpoints[k].outcome = "ACCEPTED"
        /\ job'[i].batch.pre[n] = room.checkpoints[k].actionIds
  BY <1>2, HistoryElements DEF TypeOK
<1> QED
  BY <1>1, <1>3 DEF RunningIsNew

(* L1 takes a batch only on top of the root it opens from *)
LEMMA SettledOnceStep ==
  ASSUME TypeOK, TypeOK', SettledOnce, \A b \in broadcast : Fresh(b), [Next]_vars
  PROVE  SettledOnce'
<1>1. CASE UNCHANGED chain
  BY <1>1 DEF SettledOnce
<1>2. ASSUME NEW b \in broadcast, Include(b)
      PROVE  SettledOnce'
  <2> SUFFICES ASSUME NEW c \in Deploys, NEW j \in DOMAIN chain'[c], NEW k \in DOMAIN chain'[c],
                      j < k
               PROVE  chain'[c][j].ids \cap chain'[c][k].ids = {}
    <3>1. \A c \in Deploys : DOMAIN chain'[c] \subseteq Nat
      BY LenProperties DEF TypeOK
    <3>2. ASSUME NEW c \in Deploys, NEW j \in DOMAIN chain'[c], NEW k \in DOMAIN chain'[c], j # k
          PROVE  j < k \/ k < j
      BY <3>1, <3>2
    <3> QED
      BY <3>2 DEF SettledOnce
  <2>1. /\ chain \in [Deploys -> Seq(Batch)] /\ b \in Batch /\ b.pre = Root(chain[b.at])
        /\ chain' = [chain EXCEPT ![b.at] = Append(chain[b.at], b)]
    BY <1>2 DEF Include, TypeOK
  <2>2. CASE c # b.at
    BY <2>1, <2>2 DEF SettledOnce
  <2>3. CASE c = b.at
    <3>1. /\ chain'[c] = Append(chain[c], b) /\ chain[c] \in Seq(Batch)
          /\ Len(chain[c]) \in Nat /\ DOMAIN chain[c] = 1..Len(chain[c])
      BY <2>1, <2>3, LenProperties
    <3>2. /\ DOMAIN chain'[c] = 1..(Len(chain[c]) + 1)
          /\ \A n \in 1..Len(chain[c]) : chain'[c][n] = chain[c][n]
          /\ chain'[c][Len(chain[c]) + 1] = b
      BY <2>1, <3>1
    <3>3. \A n \in 1..Len(chain[c]) : b.pre[n] = chain[c][n].ids /\ n \in DOMAIN b.pre
      BY <2>1, <2>3, <3>1 DEF Root
    <3>4. j \in 1..Len(chain[c])
      BY <3>1, <3>2
    <3>5. CASE k \in 1..Len(chain[c])
      <4>1. chain'[c][j] = chain[c][j] /\ chain'[c][k] = chain[c][k] /\ j \in DOMAIN chain[c] /\ k \in DOMAIN chain[c]
        BY <3>1, <3>2, <3>4, <3>5
      <4>2. j # k
        BY <3>4, <3>5
      <4>3. chain[c][j].ids \cap chain[c][k].ids = {}
        BY <4>1, <4>2 DEF SettledOnce
      <4> QED
        BY <4>1, <4>3
    <3>6. CASE k = Len(chain[c]) + 1
      BY <1>2, <3>2, <3>3, <3>4, <3>6 DEF Fresh
    <3> QED
      BY <3>2, <3>5, <3>6
  <2> QED
    BY <2>2, <2>3
<1>3. ASSUME NEW c \in Deploys, Reorg(c)
      PROVE  SettledOnce'
  <2>1. PICK keep \in final[c]..(Len(chain[c]) - 1) :
          chain' = [chain EXCEPT ![c] = SubSeq(chain[c], 1, keep)]
    BY <1>3 DEF Reorg
  <2>2. final[c] \in Nat /\ chain[c] \in Seq(Batch) /\ Len(chain[c]) \in Nat
        /\ DOMAIN chain[c] = 1..Len(chain[c])
    BY LenProperties DEF TypeOK
  <2>3. /\ keep \in Nat /\ keep <= Len(chain[c])
        /\ DOMAIN SubSeq(chain[c], 1, keep) = 1..keep
        /\ \A n \in 1..keep : SubSeq(chain[c], 1, keep)[n] = chain[c][n]
    BY <2>2, SubSeqProperties
  <2>4. \A d \in Deploys :
          /\ DOMAIN chain'[d] \subseteq DOMAIN chain[d]
          /\ \A n \in DOMAIN chain'[d] : chain'[d][n] = chain[d][n]
    BY <2>1, <2>2, <2>3 DEF TypeOK
  <2> QED
    BY <2>4 DEF SettledOnce
<1>4. CASE UNCHANGED vars
  BY <1>1, <1>4 DEF vars, l1Vars
<1>5. CASE BeginSave \/ EndReply \/ CloseRoom \/ Restart \/ \E block \in Blocks : AddAction(block)
  BY <1>1, <1>5 DEF BeginSave, EndReply, CloseRoom, Restart, AddAction, l1Vars
<1>6. ASSUME NEW d \in Deploys, DeployRoom(d) \/ DeployStep(d)
      PROVE  SettledOnce'
  BY <1>1, <1>6 DEF DeployRoom, DeployStep, LaunchDeploy, BeginDeployment, SendCreateRoom,
     RoomCreated, DeployDone, DeployFails, EndDeploy, l1Vars
<1>7. ASSUME NEW i \in Attempts, CheckpointRoom(i) \/ CheckpointStep(i)
      PROVE  SettledOnce'
  <2>1. UNCHANGED chain
    BY <1>7 DEF CheckpointRoom, CheckpointStep, LaunchCheckpoint, CheckpointRefused,
       Reported, TakeSlot, Prepare, BeginProving, ProofVerified, BeginSubmission,
       OnPhase, PhaseSaved, Submit, BatchAccepted, BatchRetracted, BatchFinalized, SpendBudget,
       Complete, CheckpointDone, CheckpointFails, EndCheckpoint, l1Vars
  <2> QED
    BY <1>1, <2>1
<1>8. ASSUME NEW c \in Deploys, Finalize(c)
      PROVE  SettledOnce'
  BY <1>1, <1>8 DEF Finalize
<1> QED
  BY <1>2, <1>3, <1>4, <1>5, <1>6, <1>7, <1>8 DEF Next, L1Step

LEMMA OnceStep ==
  ASSUME IInv, IInv', SlotsInv, OnceInv, [Next]_vars
  PROVE  OnceInv'
<1>0. TypeOK /\ TypeOK' /\ JobsOK
  BY DEF IInv
<1>1. SettledOnce'
  BY <1>0, SettledOnceStep DEF OnceInv
<1>2. (\A b \in broadcast : Fresh(b))'
  <2> SUFFICES ASSUME NEW b \in broadcast' PROVE Fresh(b)
    OBVIOUS
  <2>1. b \in broadcast \/ \E i \in Attempts : b = job[i].batch /\ job[i].pc = "submitting"
    BY <1>0, BroadcastStep
  <2> QED
    BY <2>1 DEF OnceInv, Carrying
<1>3. CASE Restart
  <2>1. Sound(room)' /\ Sound(disk)' /\ Sound(written)'
    BY <1>0, <1>3, SoundRestored DEF Restart, OnceInv, TypeOK
  <2>2. RunningIsNew'
    <3>1. Running(room)' = {}
      BY <1>0, <1>3, RestoreSnapshotType DEF Restart, Running, TypeOK
    <3> QED
      BY <3>1 DEF RunningIsNew
  <2>3. (\A i \in Attempts : job[i].pc \in Carrying => Fresh(job[i].batch))'
    BY <1>3, IdleJobType DEF Restart, Carrying
  <2> QED
    BY <1>1, <1>2, <2>1, <2>2, <2>3 DEF OnceInv
<1>4. CASE ~Restart
  <2>1. Sound(room)' /\ Sound(disk)' /\ Sound(written)'
    <3>1. disk' \in {disk, written} /\ written' \in {written, room, disk}
      BY <1>4, SaveStep
    <3>2. Sound(room)'
      BY <1>0, <1>4, SoundStep DEF OnceInv
    <3> QED
      BY <3>1, <3>2 DEF OnceInv
  <2>2. RunningIsNew'
    BY <1>0, <1>4, RunningIsNewStep DEF OnceInv
  <2>3. ASSUME NEW i \in Attempts, job'[i].pc \in Carrying
        PROVE  Fresh(job'[i].batch)
    <3>1. CASE job'[i] = job[i]
      BY <2>3, <3>1 DEF OnceInv
    <3>2. CASE CheckpointStep(i)
      <4>1. CASE Prepare(i)
        BY <1>0, <4>1, PreparedFresh DEF OnceInv
      <4>2. CASE job[i].pc \in Carrying /\ job'[i].batch = job[i].batch
        BY <4>2 DEF OnceInv
      <4> QED
        BY <1>0, <2>3, <3>2, <4>1, <4>2, JobMoves
    <3>3. CASE CheckpointRoom(i)
      <4>1. job'[i].pc = "starting"
        <5>1. job' = [job EXCEPT ![i] = [[IdleJob EXCEPT !.pc = "starting"] EXCEPT !.open = room.phase]]
          BY <3>3 DEF CheckpointRoom
        <5> QED
          BY <1>0, <5>1, IdleJobType DEF TypeOK, JobRecord
      <4> QED
        BY <2>3, <4>1 DEF Carrying
    <3>4. CASE ~CheckpointStep(i) /\ ~CheckpointRoom(i)
      <4> QED
        BY <1>0, <1>4, <3>1, <3>4, OthersJob
    <3> QED
      BY <3>2, <3>3, <3>4
  <2> QED
    BY <1>1, <1>2, <2>1, <2>2, <2>3 DEF OnceInv
<1> QED
  BY <1>3, <1>4

-------------------------------------------------------------------------------
(* The cursors and the records *)

CursorRange(r) ==
  \A m \in DOMAIN r.actions :
    r.actions[m].checkpointSequence \in DOMAIN r.checkpoints \cup {0}

CursorsAgree(r) == saveFailures = 0 => CursorOf(r)

(* A save that succeeds writes what the cursors said, and until one fails every
   RUNNING record keeps its worker. *)
AgreeInv ==
  /\ CursorRange(room) /\ CursorRange(disk) /\ CursorRange(written)
  /\ CursorsAgree(room) /\ CursorsAgree(disk) /\ CursorsAgree(written)
  /\ RunningHasWorker

LEMMA FailuresStep ==
  ASSUME TypeOK, [Next]_vars, saveFailures' = 0
  PROVE  saveFailures = 0
<1>0. saveFailures \in Nat
  BY DEF TypeOK
<1>1. saveFailures' = saveFailures \/ saveFailures' = saveFailures + 1
  <2>1. CASE BeginSave \/ EndReply \/ CloseRoom \/ \E block \in Blocks : AddAction(block)
    BY <2>1 DEF BeginSave, EndReply, CloseRoom, AddAction, Settled, Saved, SaveFailed, NoSave, bounds
  <2>2. CASE \E d \in Deploys : DeployRoom(d) \/ DeployStep(d)
    BY <2>2 DEF DeployRoom, DeployStep, LaunchDeploy, BeginDeployment, SendCreateRoom,
       RoomCreated, DeployDone, DeployFails, EndDeploy, Settled, Saved, SaveFailed, NoSave
  <2>3. ASSUME NEW i \in Attempts, CheckpointRoom(i) \/ CheckpointStep(i)
        PROVE  saveFailures' = saveFailures \/ saveFailures' = saveFailures + 1
    <3>1. NoSave \/ Saved(CheckpointTicket(i)) \/ SaveFailed(CheckpointTicket(i))
      BY <2>3 DEF CheckpointRoom, CheckpointStep, LaunchCheckpoint, CheckpointRefused,
         Reported, TakeSlot, Prepare, BeginProving, ProofVerified, BeginSubmission,
         OnPhase, PhaseSaved, Submit, BatchAccepted, BatchRetracted, BatchFinalized, SpendBudget,
         Complete, CheckpointDone, CheckpointFails, EndCheckpoint, Settled
    <3> QED
      BY <3>1 DEF NoSave, Saved, SaveFailed
  <2>4. CASE L1Step \/ Restart \/ UNCHANGED vars
    BY <2>4 DEF L1Step, Include, Finalize, Reorg, Restart, vars, bounds
  <2> QED
    BY <2>1, <2>2, <2>3, <2>4 DEF Next
<1> QED
  BY <1>0, <1>1

LEMMA CursorsRestored ==
  ASSUME NEW r \in Room
  PROVE  /\ CursorRange(r) => CursorRange(RestoreSnapshot(r))
         /\ CursorOf(r) => CursorOf(RestoreSnapshot(r))
<1> DEFINE q == RestoreSnapshot(r)
<1>1. /\ q.actions = r.actions
      /\ DOMAIN q.checkpoints = DOMAIN r.checkpoints
      /\ \A j \in DOMAIN r.checkpoints :
           /\ q.checkpoints[j].actionIds = r.checkpoints[j].actionIds
           /\ q.checkpoints[j].outcome = "ACCEPTED" <=> r.checkpoints[j].outcome = "ACCEPTED"
  BY RestoreSnapshotType
<1>2. (CursorRange(r) => CursorRange(q)) /\ (CursorOf(r) => CursorOf(q))
  <2> HIDE DEF q
  <2> QED
    BY <1>1 DEF CursorRange, CursorOf
<1> QED
  BY <1>2

LEMMA CursorRangeStep ==
  ASSUME TypeOK, JobsOK, CursorRange(room), [Next]_vars, ~Restart
  PROVE  CursorRange(room')
<1>1. CASE SameBooks
  BY <1>1 DEF SameBooks, CursorRange
<1>2. ASSUME NEW block \in Blocks, AddAction(block)
      PROVE  CursorRange(room')
  <2> SUFFICES ASSUME NEW m \in DOMAIN room'.actions
               PROVE  room'.actions[m].checkpointSequence \in DOMAIN room.checkpoints \cup {0}
    BY <1>2, AddedBooks DEF CursorRange
  <2>1. m \in DOMAIN room.actions \/ m = Len(room.actions) + 1
    BY <1>2, AddedBooks
  <2> QED
    BY <1>2, <2>1, AddedBooks DEF CursorRange
<1>3. ASSUME NEW i \in Attempts, CheckpointRoom(i)
      PROVE  CursorRange(room')
  BY <1>3, StartedBooks DEF CursorRange
<1>4. ASSUME NEW i \in Attempts, CheckpointStep(i)
      PROVE  CursorRange(room')
  <2>1. CASE CheckpointFails(i)
    BY <2>1, FailedBooks DEF CursorRange
  <2>2. CASE Complete(i)
    <3>1. i \in DOMAIN room.checkpoints
      BY <2>2 DEF Complete, JobsOK, JobOK
    <3> QED
      BY <2>2, <3>1, CompletedBooks DEF CursorRange
  <2> QED
    BY <1>1, <1>4, <2>1, <2>2, QuietBooks
<1> QED
  BY <1>1, <1>2, <1>3, <1>4, BooksStep

LEMMA CursorOfStep ==
  ASSUME TypeOK, JobsOK, SlotsInv, Sound(room), RunningIsNew, CursorRange(room),
         CursorOf(room), [Next]_vars, ~Restart, saveFailures' = 0
  PROVE  CursorOf(room')
<1>0. 0 \notin DOMAIN room.checkpoints
  BY RoomRecord DEF TypeOK
<1>1. CASE SameBooks
  BY <1>1 DEF SameBooks, CursorOf
<1>2. ASSUME NEW block \in Blocks, AddAction(block)
      PROVE  CursorOf(room')
  <2> SUFFICES ASSUME NEW m \in DOMAIN room'.actions, NEW k \in DOMAIN room.checkpoints
               PROVE  (room'.actions[m].checkpointSequence = k) <=>
                        /\ room.checkpoints[k].outcome = "ACCEPTED"
                        /\ m \in room.checkpoints[k].actionIds
    BY <1>2, AddedBooks DEF CursorOf
  <2>1. CASE m \in DOMAIN room.actions
    BY <1>2, <2>1, AddedBooks DEF CursorOf
  <2>2. CASE m = Len(room.actions) + 1
    <3>1. m \notin DOMAIN room.actions /\ room'.actions[m].checkpointSequence = 0
      BY <1>2, <2>2, AddedBooks
    <3>2. m \notin room.checkpoints[k].actionIds
      BY <3>1 DEF Sound, RecordSound
    <3> QED
      BY <1>0, <3>1, <3>2
  <2> QED
    BY <1>2, <2>1, <2>2, AddedBooks
<1>3. ASSUME NEW i \in Attempts, CheckpointRoom(i)
      PROVE  CursorOf(room')
  <2> SUFFICES ASSUME NEW m \in DOMAIN room.actions, NEW k \in DOMAIN room'.checkpoints
               PROVE  (room.actions[m].checkpointSequence = k) <=>
                        /\ room'.checkpoints[k].outcome = "ACCEPTED"
                        /\ m \in room'.checkpoints[k].actionIds
    BY <1>3, StartedBooks DEF CursorOf
  <2>1. CASE k \in DOMAIN room.checkpoints
    BY <1>3, <2>1, StartedBooks DEF CursorOf
  <2>2. CASE k = i
    <3>1. room'.checkpoints[k].outcome # "ACCEPTED" /\ i \notin DOMAIN room.checkpoints
      BY <1>3, <2>2, StartedBooks
    <3>2. i # 0
      BY AttemptsNat DEF Attempts
    <3> QED
      BY <2>2, <3>1, <3>2 DEF CursorRange
  <2> QED
    BY <1>3, <2>1, <2>2, StartedBooks
<1>4. ASSUME NEW i \in Attempts, CheckpointFails(i)
      PROVE  CursorOf(room')
  <2>1. Active(i)
    BY <1>4, JobEnds
  <2>2. room.checkpoints[i].outcome = "RUNNING"
    BY <2>1 DEF SlotsInv, Running
  <2>3. /\ room'.actions = room.actions /\ DOMAIN room'.checkpoints = DOMAIN room.checkpoints
        /\ \A k \in DOMAIN room.checkpoints :
             /\ room'.checkpoints[k].actionIds = room.checkpoints[k].actionIds
             /\ room'.checkpoints[k].outcome = "ACCEPTED" <=> room.checkpoints[k].outcome = "ACCEPTED"
    BY <1>4, <2>2, FailedBooks
  <2> QED
    BY <2>3 DEF CursorOf
<1>5. ASSUME NEW i \in Attempts, Complete(i)
      PROVE  CursorOf(room')
  <2> SUFFICES ASSUME NEW m \in DOMAIN room.actions, NEW k \in DOMAIN room.checkpoints
               PROVE  (room'.actions[m].checkpointSequence = k) <=>
                        /\ room'.checkpoints[k].outcome = "ACCEPTED"
                        /\ m \in room'.checkpoints[k].actionIds
    BY <1>5, CompletedBooks DEF CursorOf
  <2>1. i \in Running(room) /\ room.checkpoints[i].outcome = "RUNNING" /\ i \in DOMAIN room.checkpoints
    <3>1. Active(i)
      BY <1>5, JobEnds DEF Complete, CheckpointFails, Awaiting, Active
    <3> QED
      BY <3>1 DEF SlotsInv, Running
  <2>2. room'.actions[m].checkpointSequence
          = IF m \in room.checkpoints[i].actionIds THEN i ELSE room.actions[m].checkpointSequence
    BY <1>5, CompletedBooks
  <2>3. room'.checkpoints[k].actionIds = room.checkpoints[k].actionIds
        /\ (k # i => room'.checkpoints[k] = room.checkpoints[k])
        /\ (k = i => room'.checkpoints[k].outcome = "ACCEPTED")
    BY <1>5, CompletedBooks
  <2>4. (room.actions[m].checkpointSequence = k) <=>
          /\ room.checkpoints[k].outcome = "ACCEPTED"
          /\ m \in room.checkpoints[k].actionIds
    BY DEF CursorOf
  <2>5. k # i /\ m \in room.checkpoints[i].actionIds =>
          ~(room.checkpoints[k].outcome = "ACCEPTED" /\ m \in room.checkpoints[k].actionIds)
    BY <2>1 DEF RunningIsNew
  <2>6. CASE k = i
    BY <2>1, <2>2, <2>3, <2>4, <2>6
  <2>7. CASE k # i
    BY <2>2, <2>3, <2>4, <2>5, <2>7
  <2> QED
    BY <2>6, <2>7
<1>6. ASSUME NEW i \in Attempts, CheckpointStep(i)
      PROVE  CursorOf(room')
  BY <1>1, <1>4, <1>5, <1>6, QuietBooks
<1> QED
  BY <1>1, <1>2, <1>3, <1>6, BooksStep

LEMMA WorkerStep ==
  ASSUME TypeOK, RunningHasWorker, [Next]_vars, saveFailures' = 0
  PROVE  RunningHasWorker'
<1>0. saveFailures = 0 /\ job \in [Attempts -> JobRecord]
  BY FailuresStep DEF TypeOK, JobRecord
<1> SUFFICES ASSUME NEW k \in Running(room')
             PROVE  k \in Attempts /\ job'[k].pc \notin {"idle", "quiet", "completing"}
  BY DEF RunningHasWorker
<1>1. CASE Restart
  BY <1>1, RestoreSnapshotType DEF Restart, Running, TypeOK
<1>2. CASE ~Restart /\ CheckpointRoom(k) /\ k \in Attempts
  <2>1. job' = [job EXCEPT ![k] = [[IdleJob EXCEPT !.pc = "starting"] EXCEPT !.open = room.phase]]
    BY <1>2 DEF CheckpointRoom
  <2>2. job'[k].pc = "starting"
    BY <1>0, <1>2, <2>1, IdleJobType DEF JobRecord
  <2> QED
    BY <1>2, <2>2
<1>3. CASE ~Restart /\ k \in Running(room)
  <2>1. k \in Attempts /\ job[k].pc \notin {"idle", "quiet", "completing"}
    BY <1>0, <1>3 DEF RunningHasWorker
  <2>2. CASE job'[k] = job[k]
    BY <2>1, <2>2
  <2>3. CASE CheckpointStep(k)
    <3>1. ~Complete(k) /\ ~CheckpointFails(k)
      BY <2>1, CompletedBooks, FailedBooks DEF Running
    <3>2. ~CheckpointRefused(k)
      BY <1>0 DEF CheckpointRefused, SaveFailed
    <3>3. CASE Prepare(k)
      <4>1. job'[k].pc = "prepared"
        BY <1>0, <2>1, <3>3 DEF Prepare, JobRecord
      <4> QED
        BY <2>1, <4>1
    <3>4. CASE PhaseSaved(k)
      <4>1. JobTo(k, AfterPhase[job[k].pc]) /\ AfterPhase[job[k].pc] \in JobStates
            /\ AfterPhase[job[k].pc] \notin {"idle", "quiet", "completing"}
        BY <3>4, AfterPhaseType DEF PhaseSaved, AfterPhase
      <4> QED
        BY <2>1, <4>1, JobToType
    <3>5. CASE ~Prepare(k) /\ ~PhaseSaved(k) /\ ~SpendBudget(k)
      <4>1. \E pc \in {"reading", "reporting", "queued", "toProving", "toVerified", "toPending",
                       "watching", "toAccepted", "toRetracted", "toFinalized"} : JobTo(k, pc)
        BY <2>1, <2>3, <3>1, <3>2, <3>5 DEF CheckpointStep, LaunchCheckpoint, Reported, TakeSlot,
           BeginProving, ProofVerified, BeginSubmission, OnPhase, Submit, BatchAccepted,
           BatchRetracted, BatchFinalized, SpendBudget, CheckpointDone, EndCheckpoint
      <4>2. PICK pc \in {"reading", "reporting", "queued", "toProving", "toVerified", "toPending",
                       "watching", "toAccepted", "toRetracted", "toFinalized"} : JobTo(k, pc)
        BY <4>1
      <4>3. pc \in JobStates /\ pc \notin {"idle", "quiet", "completing"}
        BY AfterPhaseType DEF JobStates, Awaiting
      <4> QED
        BY <2>1, <4>2, <4>3, JobToType
    <3>6. CASE SpendBudget(k)
      BY <1>0, <2>1, <3>6, SpendBudgetKeeps
    <3> QED
      BY <3>3, <3>4, <3>5, <3>6
  <2>4. CASE CheckpointRoom(k)
    BY <1>2, <1>3, <2>1, <2>4
  <2>5. CASE ~CheckpointStep(k) /\ ~CheckpointRoom(k)
    BY <1>3, <2>1, <2>2, <2>5, OthersJob
  <2> QED
    BY <2>3, <2>4, <2>5
<1> QED
  BY <1>1, <1>2, <1>3, RunningStep

LEMMA AgreeStep ==
  ASSUME IInv, SlotsInv, OnceInv, AgreeInv, [Next]_vars
  PROVE  AgreeInv'
<1>0. TypeOK /\ JobsOK /\ disk \in Room
  BY DEF IInv, TypeOK
<1>1. RunningHasWorker'
  <2>1. CASE saveFailures' = 0
    BY <1>0, <2>1, WorkerStep DEF AgreeInv
  <2>2. CASE saveFailures' # 0
    BY <2>2 DEF RunningHasWorker
  <2> QED
    BY <2>1, <2>2
<1>2. saveFailures' = 0 => saveFailures = 0
  BY <1>0, FailuresStep
<1>3. CASE Restart
  <2>1. room' = RestoreSnapshot(disk) /\ disk' = room' /\ written' = room'
    BY <1>3 DEF Restart
  <2>2. CursorRange(room') /\ (saveFailures' = 0 => CursorOf(room'))
    BY <1>0, <1>2, <2>1, CursorsRestored DEF AgreeInv, CursorsAgree
  <2> QED
    BY <1>1, <2>1, <2>2 DEF AgreeInv, CursorsAgree
<1>4. CASE ~Restart
  <2>1. CursorRange(room') /\ (saveFailures' = 0 => CursorOf(room'))
    BY <1>0, <1>2, <1>4, CursorRangeStep, CursorOfStep DEF AgreeInv, CursorsAgree, OnceInv
  <2>2. disk' \in {disk, written} /\ written' \in {written, room, disk}
    BY <1>4, SaveStep
  <2>3. /\ CursorRange(disk') /\ CursorRange(written')
        /\ saveFailures' = 0 => CursorOf(disk') /\ CursorOf(written')
    BY <1>2, <2>2 DEF AgreeInv, CursorsAgree
  <2> QED
    BY <1>1, <2>1, <2>3 DEF AgreeInv, CursorsAgree
<1> QED
  BY <1>3, <1>4

-------------------------------------------------------------------------------
(* One deployment: the room that is proved for stays the one that is deployed *)

(* an L1 room is known once its deployment has created it *)
Created(r) ==
  r.chainRoomId # NoRoom => deploy[r.chainRoomId] \in {"toActive", "quiet", "done"}

(* from Prepare on, the batch opens from the history of the records *)
Extending(i) == job[i].pc = "prepared" \/ InFlight(i)
HistoryIsExtended ==
  \A i \in Attempts : Extending(i) => job[i].batch.pre = ProvedHistory(room)

OneDeployInv ==
  /\ Created(room) /\ Created(disk) /\ Created(written)
  /\ InFlightIsClosed
  /\ HistoryIsExtended

LEMMA SameHistory ==
  ASSUME NEW q, NEW r, q.checkpoints = r.checkpoints
  PROVE  ProvedHistory(q) = ProvedHistory(r)
<1> DEFINE History(c) ==
      LET upTo[n \in 0 .. Len(c)] ==
            IF n = 0 THEN << >>
            ELSE IF c[n].outcome = "ACCEPTED"
                 THEN Append(upTo[n - 1], c[n].actionIds)
                 ELSE upTo[n - 1]
      IN upTo[Len(c)]
<1>1. ProvedHistory(q) = History(q.checkpoints) /\ ProvedHistory(r) = History(r.checkpoints)
  BY DEF ProvedHistory
<1> HIDE DEF History
<1> QED
  BY <1>1

LEMMA SameChainRoom ==
  ASSUME TypeOK, JobsOK, [Next]_vars, ~Restart
  PROVE  room'.chainRoomId = room.chainRoomId \/ \E d \in Deploys : RoomCreated(d)
<1>0. room \in Room
  BY DEF TypeOK
<1>1. CASE room' = room \/ \E p \in Phases : room' = [room EXCEPT !.phase = p]
  <2>1. \A p \in Phases : [room EXCEPT !.phase = p].chainRoomId = room.chainRoomId
    BY <1>0, WithPhase
  <2>2. CASE room' = room
    BY <2>2
  <2>3. ASSUME NEW p \in Phases, room' = [room EXCEPT !.phase = p]
        PROVE  room'.chainRoomId = room.chainRoomId
    BY <2>1, <2>3
  <2> QED
    BY <1>1, <2>2, <2>3
<1>2. CASE CloseRoom \/ \E block \in Blocks : AddAction(block)
  BY <1>0, <1>2 DEF CloseRoom, AddAction, Room
<1>3. ASSUME NEW d \in Deploys, DeployRoom(d) \/ DeployStep(d), ~RoomCreated(d)
      PROVE  room' = room \/ \E p \in Phases : room' = [room EXCEPT !.phase = p]
  BY <1>3 DEF DeployRoom, DeployStep, LaunchDeploy, BeginDeployment, SendCreateRoom,
     DeployDone, DeployFails, EndDeploy, DeployPhase, Phases
<1>4. ASSUME NEW i \in Attempts, CheckpointRoom(i)
      PROVE  room'.chainRoomId = room.chainRoomId
  BY <1>0, <1>4, StartCheckpointType DEF CheckpointRoom
<1>5. ASSUME NEW i \in Attempts, CheckpointFails(i)
      PROVE  room'.chainRoomId = room.chainRoomId
  <2> DEFINE failed == FailCheckpoint(room, i)
  <2>1. failed \in Room /\ failed.chainRoomId = room.chainRoomId
    BY <1>0, AttemptsNat, FailCheckpointType
  <2>2. job[i].open \in Phases /\ room' = [failed EXCEPT !.phase = job[i].open]
    BY <1>5 DEF TypeOK, OpenPhases, Phases, CheckpointFails
  <2> HIDE DEF failed
  <2> QED
    BY <2>1, <2>2, WithPhase
<1>6. ASSUME NEW i \in Attempts, Complete(i)
      PROVE  room'.chainRoomId = room.chainRoomId
  <2> DEFINE result  == [at |-> job[i].batch.at, batchIndex |-> Len(job[i].batch.pre) + 1]
             settled == CompleteCheckpoint(room, i, result)
  <2>1. result \in Result
    BY LenProperties DEF TypeOK, Batch, Result
  <2>2. room' = [settled EXCEPT !.phase = "L1_FINALIZED"]
    BY <1>6 DEF Complete
  <2> HIDE DEF result
  <2>3. settled \in Room /\ settled.chainRoomId = room.chainRoomId
    BY <1>0, <2>1, AttemptsNat, CompleteCheckpointType
  <2> HIDE DEF settled
  <2> QED
    BY <2>2, <2>3, WithPhase DEF Phases
<1>7. ASSUME NEW i \in Attempts, CheckpointStep(i), ~CheckpointFails(i), ~Complete(i)
      PROVE  room' = room \/ \E p \in Phases : room' = [room EXCEPT !.phase = p]
  BY <1>7 DEF CheckpointStep, LaunchCheckpoint, CheckpointRefused,
     Reported, TakeSlot, Prepare, BeginProving, ProofVerified, BeginSubmission,
     OnPhase, PhaseSaved, Submit, BatchAccepted, BatchRetracted, BatchFinalized, SpendBudget,
     CheckpointDone, EndCheckpoint, Phases
<1>8. CASE BeginSave \/ EndReply \/ L1Step \/ UNCHANGED vars
  BY <1>1, <1>8 DEF BeginSave, EndReply, L1Step, Include, Finalize, Reorg, vars, demoVars
<1> QED
  BY <1>1, <1>2, <1>3, <1>4, <1>5, <1>6, <1>7, <1>8 DEF Next

(* the deployments move forward, and the room learns its L1 room from one *)
LEMMA CreatedStep ==
  ASSUME TypeOK, TypeOK', JobsOK, Created(room), Created(disk), Created(written), [Next]_vars
  PROVE  Created(room)' /\ Created(disk)' /\ Created(written)'
<1>0. /\ deploy \in [Deploys -> DeployStates]
      /\ \A r \in {room, disk, written} : r.chainRoomId \in Deploys \cup {NoRoom}
  BY RoomRecord DEF TypeOK, Places
<1>n. NoRoom \notin Deploys
  BY DEF NoRoom, Deploys
<1>1. ASSUME \A d \in Deploys : deploy[d] \in {"toActive", "quiet", "done"}
                => deploy'[d] \in {"toActive", "quiet", "done"},
             NEW r \in {room, disk, written}, NEW q, q.chainRoomId = r.chainRoomId
      PROVE  q.chainRoomId # NoRoom => deploy'[q.chainRoomId] \in {"toActive", "quiet", "done"}
  BY <1>0, <1>1 DEF Created
<1>2. \A d \in Deploys : deploy[d] \in {"toActive", "quiet", "done"}
        => deploy'[d] \in {"toActive", "quiet", "done"}
  <2>1. CASE deploy' = deploy
    BY <2>1
  <2>2. CASE Restart
    BY <1>0, <2>2 DEF Restart
  <2>3. ASSUME NEW d \in Deploys, DeployRoom(d) \/ DeployStep(d)
        PROVE  \A e \in Deploys : deploy[e] \in {"toActive", "quiet", "done"}
                 => deploy'[e] \in {"toActive", "quiet", "done"}
    <3>1. \E pc : /\ deploy' = [deploy EXCEPT ![d] = pc]
                  /\ deploy[d] \in {"toActive", "quiet", "done"}
                       => pc \in {"toActive", "quiet", "done"}
      BY <2>3 DEF DeployRoom, DeployStep, LaunchDeploy, BeginDeployment, SendCreateRoom,
         RoomCreated, DeployDone, DeployFails, EndDeploy, DeployPhase, DeployTo
    <3> QED
      BY <1>0, <3>1
  <2>4. ASSUME NEW i \in Attempts, CheckpointRoom(i) \/ CheckpointStep(i)
        PROVE  deploy' = deploy
    BY <2>4 DEF CheckpointRoom, CheckpointStep, LaunchCheckpoint, CheckpointRefused,
       Reported, TakeSlot, Prepare, BeginProving, ProofVerified, BeginSubmission,
       OnPhase, PhaseSaved, Submit, BatchAccepted, BatchRetracted, BatchFinalized, SpendBudget,
       Complete, CheckpointDone, CheckpointFails, EndCheckpoint
  <2>5. CASE BeginSave \/ EndReply \/ CloseRoom \/ \E block \in Blocks : AddAction(block)
    BY <2>1, <2>5 DEF BeginSave, EndReply, CloseRoom, AddAction
  <2>6. CASE L1Step \/ UNCHANGED vars
    BY <2>1, <2>6 DEF L1Step, Include, Finalize, Reorg, vars, demoVars
  <2> QED
    BY <2>1, <2>2, <2>3, <2>4, <2>5, <2>6 DEF Next
<1>3. CASE Restart
  <2>1. room' = RestoreSnapshot(disk) /\ disk' = room' /\ written' = room' /\ disk \in Room
    BY <1>3 DEF Restart, TypeOK
  <2>2. room'.chainRoomId = disk.chainRoomId
    BY <2>1, RestoreSnapshotType
  <2> QED
    BY <1>1, <1>2, <2>1, <2>2 DEF Created
<1>4. CASE ~Restart
  <2>1. room'.chainRoomId # NoRoom => deploy'[room'.chainRoomId] \in {"toActive", "quiet", "done"}
    <3>1. CASE room'.chainRoomId = room.chainRoomId
      BY <1>1, <1>2, <3>1
    <3>2. ASSUME NEW d \in Deploys, RoomCreated(d)
          PROVE  room'.chainRoomId # NoRoom => deploy'[room'.chainRoomId] \in {"toActive", "quiet", "done"}
      <4>1. room'.chainRoomId = d /\ deploy'[d] = "toActive"
        BY <1>0, <3>2 DEF RoomCreated, DeployTo, TypeOK, Room
      <4> QED
        BY <4>1
    <3> QED
      BY <1>4, <3>1, <3>2, SameChainRoom
  <2>2. disk' \in {disk, written} /\ written' \in {written, room, disk}
    BY <1>4, SaveStep
  <2> QED
    BY <1>1, <1>2, <2>1, <2>2 DEF Created
<1> QED
  BY <1>3, <1>4

(* no ACCEPTED record before L1 has a batch *)
LEMMA NoHistory ==
  ASSUME MaxDeploys = 1, TypeOK, AcceptedIsFinal, room.chainRoomId \in Deploys,
         Len(chain[room.chainRoomId]) = 0
  PROVE  ProvedHistory(room) = << >>
<1>1. Deploys = {1} /\ room.chainRoomId = 1
  BY DEF Deploys
<1>2. final[1] = 0
  BY <1>1 DEF TypeOK
<1>3. \A k \in DOMAIN room.checkpoints : room.checkpoints[k].outcome # "ACCEPTED"
  <2> SUFFICES ASSUME NEW k \in DOMAIN room.checkpoints, room.checkpoints[k].outcome = "ACCEPTED"
               PROVE  FALSE
    OBVIOUS
  <2>1. SettledRecord(room, k)
    BY DEF AcceptedIsFinal
  <2>2. room.checkpoints[k].result.at = 1
        /\ room.checkpoints[k].result.batchIndex \in 1 .. final[room.checkpoints[k].result.at]
    BY <1>1, <2>1 DEF SettledRecord
  <2>3. 1 .. 0 = {}
    OBVIOUS
  <2> QED
    BY <1>2, <2>2, <2>3
<1>4. ProvedHistory(room) \in Seq(SUBSET Nat) /\ DOMAIN ProvedHistory(room) = {}
  BY <1>3, HistoryElements DEF TypeOK
<1> QED
  BY <1>4

LEMMA ExtendedStep ==
  ASSUME MaxDeploys = 1, IInv, SlotsInv, HistoryIsExtended, [Next]_vars
  PROVE  HistoryIsExtended'
<1>0. TypeOK /\ JobsOK /\ AcceptedIsFinal
  BY DEF IInv
<1> SUFFICES ASSUME NEW i \in Attempts, Extending(i)'
             PROVE  job'[i].batch.pre = ProvedHistory(room')
  BY DEF HistoryIsExtended
<1>1. CASE Restart
  BY <1>1, IdleJobType DEF Restart, Extending, InFlight
<1>2. ASSUME Extending(i), job'[i].batch = job[i].batch, room'.checkpoints = room.checkpoints
      PROVE  job'[i].batch.pre = ProvedHistory(room')
  BY <1>2, SameHistory DEF HistoryIsExtended
<1>3. ~Restart /\ CheckpointStep(i) => job'[i].batch.pre = ProvedHistory(room')
  <2> SUFFICES ASSUME ~Restart, CheckpointStep(i)
               PROVE  job'[i].batch.pre = ProvedHistory(room')
    OBVIOUS
  <2>1. ~Complete(i) /\ ~CheckpointFails(i)
    <3>1. Active(i)'
      BY DEF Extending, InFlight, Active
    <3> QED
      BY <1>0, <3>1, JobEnds
  <2>2. room'.checkpoints = room.checkpoints
    BY <1>0, <2>1, QuietBooks DEF SameBooks
  <2>3. CASE Prepare(i)
    <3>1. \/ job'[i].batch.pre = ProvedHistory(room)
          \/ /\ job'[i].batch.pre = << >> /\ Len(chain[room.chainRoomId]) = 0
             /\ room.chainRoomId \in Deploys
      BY <1>0, <2>3, PreparedPre
    <3>2. job'[i].batch.pre = ProvedHistory(room)
      BY <1>0, <3>1, NoHistory
    <3> QED
      BY <2>2, <3>2, SameHistory
  <2>4. CASE ~Prepare(i)
    <3>1. job'[i].pc \in Carrying
      BY DEF Extending, InFlight, Carrying
    <3>2. job'[i].batch = job[i].batch
      BY <1>0, <2>4, <3>1, JobMoves
    <3>3. Extending(i)
      <4>1. CASE InFlight(i)'
        BY <1>0, <4>1, JobMoves DEF Extending, BeginProving, OnPhase
      <4>2. CASE job'[i].pc = "prepared"
        BY <1>0, <2>1, <2>4, <4>2, NotPreparedTwice
      <4> QED
        BY <4>1, <4>2 DEF Extending
    <3> QED
      BY <1>2, <2>2, <3>2, <3>3
  <2> QED
    BY <2>3, <2>4
<1>4. CASE ~Restart /\ ~CheckpointStep(i)
  <2>1. ~CheckpointRoom(i)
    <3>1. ASSUME CheckpointRoom(i) PROVE FALSE
      <4>1. job' = [job EXCEPT ![i] = [[IdleJob EXCEPT !.pc = "starting"] EXCEPT !.open = room.phase]]
        BY <3>1 DEF CheckpointRoom
      <4>2. job'[i].pc = "starting"
        BY <1>0, <4>1, IdleJobType DEF TypeOK, JobRecord
      <4> QED
        BY <4>2 DEF Extending, InFlight
    <3> QED
      BY <3>1
  <2>2. job'[i] = job[i]
    BY <1>0, <1>4, <2>1, OthersJob
  <2>3. Extending(i) /\ Active(i) /\ InSlot(i)
    BY <2>2, AfterPhaseType DEF Extending, InFlight, Active, InSlot, Awaiting
  <2>4. room'.checkpoints = room.checkpoints
    <3>1. ASSUME NEW j \in Attempts, CheckpointRoom(j) PROVE FALSE
      BY <1>0, <2>3, <3>1, StartedBooks DEF SlotsInv
    <3>2. ASSUME NEW j \in Attempts, CheckpointStep(j)
          PROVE  room'.checkpoints = room.checkpoints
      <4>1. j # i
        BY <1>4, <3>2
      <4>2. ~InSlot(j)
        BY <2>3, <4>1 DEF SlotsInv
      <4> QED
        BY <1>0, <3>2, <4>2, JobEnds, QuietBooks DEF SameBooks
    <3> QED
      BY <1>0, <1>4, <3>1, <3>2, BooksStep, AddedBooks DEF SameBooks
  <2> QED
    BY <1>2, <2>2, <2>3, <2>4
<1> QED
  BY <1>1, <1>3, <1>4

(* what a step that is not of the job itself may do to the phase *)
LEMMA PhaseStep ==
  ASSUME TypeOK, [Next]_vars, ~Restart, \A j \in Attempts : ~CheckpointStep(j)
  PROVE  \/ room'.phase = room.phase
         \/ room'.phase \notin OpenPhases
         \/ \E d \in Deploys : RoomCreated(d)
<1>0. room \in Room
  BY DEF TypeOK
<1>1. CASE room' = room
  BY <1>1
<1>2. CASE CloseRoom
  BY <1>0, <1>2 DEF CloseRoom, OpenPhases, Room
<1>3. CASE \E block \in Blocks : AddAction(block)
  BY <1>0, <1>3 DEF AddAction, Room
<1>4. ASSUME NEW i \in Attempts, CheckpointRoom(i)
      PROVE  room'.phase = room.phase
  BY <1>0, <1>4, StartCheckpointType DEF CheckpointRoom
<1>5. ASSUME NEW d \in Deploys, DeployRoom(d) \/ DeployStep(d), ~RoomCreated(d)
      PROVE  room' = room \/ room'.phase \notin OpenPhases
  <2>1. room' = room \/ room' = [room EXCEPT !.phase = "DEPLOYED"]
        \/ room' = [room EXCEPT !.phase = "FAILED"]
    BY <1>5 DEF DeployRoom, DeployStep, LaunchDeploy, BeginDeployment, SendCreateRoom,
       DeployDone, DeployFails, EndDeploy, DeployPhase
  <2> QED
    BY <1>0, <2>1 DEF OpenPhases, Room
<1>6. CASE BeginSave \/ EndReply \/ L1Step \/ UNCHANGED vars
  BY <1>1, <1>6 DEF BeginSave, EndReply, L1Step, Include, Finalize, Reorg, vars, demoVars
<1> QED
  BY <1>1, <1>2, <1>3, <1>4, <1>5, <1>6 DEF Next

(* the phase the job of a batch in flight assigns is a closed one *)
LEMMA OwnPhase ==
  ASSUME TypeOK, NEW i \in Attempts, CheckpointStep(i), InFlight(i)'
  PROVE  room'.phase \notin OpenPhases \/ (room' = room /\ InFlight(i))
<1>0. room \in Room /\ job \in [Attempts -> JobRecord]
  BY DEF TypeOK, JobRecord
<1>1. ~Complete(i) /\ ~CheckpointFails(i)
  BY JobEnds
<1>2. CASE BeginProving(i) \/ ProofVerified(i) \/ BeginSubmission(i) \/ BatchAccepted(i) \/ BatchRetracted(i)
  <2>1. \E p \in {"PROVING", "LOCALLY_VERIFIED", "L1_PENDING", "L1_ACCEPTED"} :
          room' = [room EXCEPT !.phase = p]
    BY <1>2 DEF BeginProving, ProofVerified, BeginSubmission, BatchAccepted, BatchRetracted, OnPhase
  <2> QED
    BY <1>0, <2>1 DEF OpenPhases, Room
<1>3. CASE BatchFinalized(i)
  <2>1. JobTo(i, "toFinalized") /\ "toFinalized" \in JobStates
    BY <1>3, AfterPhaseType DEF BatchFinalized, OnPhase, JobStates
  <2>2. job'[i].pc = "toFinalized"
    BY <2>1, JobToType
  <2> QED
    BY <2>2 DEF InFlight
<1>4. CASE \/ LaunchCheckpoint(i) \/ CheckpointRefused(i) \/ Reported(i) \/ TakeSlot(i)
           \/ Prepare(i) \/ PhaseSaved(i) \/ Submit(i) \/ SpendBudget(i)
           \/ CheckpointDone(i) \/ EndCheckpoint(i)
  <2>1. room' = room
    BY <1>4 DEF LaunchCheckpoint, CheckpointRefused, Reported, TakeSlot, Prepare, PhaseSaved,
       Submit, SpendBudget, CheckpointDone, EndCheckpoint
  <2>2. CASE InFlight(i)
    BY <2>1, <2>2
  <2>3. CASE BeginProving(i)
    BY <1>2, <2>3
  <2> QED
    BY <2>2, <2>3, JobMoves
<1> QED
  BY <1>1, <1>2, <1>3, <1>4 DEF CheckpointStep

LEMMA ClosedStep ==
  ASSUME MaxDeploys = 1, IInv, SlotsInv, Created(room), InFlightIsClosed, [Next]_vars
  PROVE  InFlightIsClosed'
<1>0. TypeOK /\ JobsOK
  BY DEF IInv
<1> SUFFICES ASSUME NEW i \in Attempts, InFlight(i)'
             PROVE  ~RoomIsOpen(room')
  BY DEF InFlightIsClosed
<1>1. CASE Restart
  BY <1>1, IdleJobType DEF Restart, InFlight
<1>2. CASE CheckpointStep(i)
  BY <1>0, <1>2, OwnPhase DEF InFlightIsClosed, RoomIsOpen
<1>3. CASE ~Restart /\ ~CheckpointStep(i)
  <2>1. ~CheckpointRoom(i)
    <3>1. ASSUME CheckpointRoom(i) PROVE FALSE
      <4>1. job' = [job EXCEPT ![i] = [[IdleJob EXCEPT !.pc = "starting"] EXCEPT !.open = room.phase]]
        BY <3>1 DEF CheckpointRoom
      <4>2. job'[i].pc = "starting"
        BY <1>0, <4>1, IdleJobType DEF TypeOK, JobRecord
      <4> QED
        BY <4>2 DEF InFlight
    <3> QED
      BY <3>1
  <2>2. job'[i] = job[i]
    BY <1>0, <1>3, <2>1, OthersJob
  <2>3. InFlight(i) /\ InSlot(i) /\ job[i].pc # "idle" /\ ~RoomIsOpen(room)
    BY <2>2, AfterPhaseType DEF InFlight, InSlot, Awaiting, InFlightIsClosed
  <2>4. ASSUME NEW j \in Attempts, CheckpointStep(j)
        PROVE  room' = room
    <3>1. ~InSlot(j)
      BY <1>3, <2>3, <2>4 DEF SlotsInv
    <3>2. job[j].pc \notin Awaiting \cup DOMAIN AfterPhase \cup {"completing"}
      BY <3>1 DEF InSlot
    <3>3. ~Complete(j) /\ ~CheckpointFails(j)
      BY <1>0, <3>1, JobEnds
    <3>4. ~BeginProving(j) /\ ~ProofVerified(j) /\ ~BeginSubmission(j) /\ ~BatchAccepted(j)
          /\ ~BatchRetracted(j) /\ ~BatchFinalized(j)
      BY <3>2 DEF BeginProving, ProofVerified, BeginSubmission, BatchAccepted, BatchRetracted,
         BatchFinalized, OnPhase, Awaiting
    <3> QED
      BY <2>4, <3>3, <3>4 DEF CheckpointStep, LaunchCheckpoint, CheckpointRefused, Reported, TakeSlot,
         Prepare, PhaseSaved, Submit, SpendBudget, CheckpointDone, EndCheckpoint
  <2>5. ASSUME NEW d \in Deploys, RoomCreated(d)
        PROVE  FALSE
    <3>1. room.chainRoomId \in Deploys
      BY <1>0, <2>3 DEF JobsOK, JobOK
    <3>2. room.chainRoomId = d /\ room.chainRoomId # NoRoom
      BY <3>1 DEF Deploys, NoRoom
    <3> QED
      BY <2>5, <3>2 DEF RoomCreated, Created
  <2> QED
    BY <1>0, <1>3, <2>3, <2>4, <2>5, PhaseStep DEF RoomIsOpen
<1> QED
  BY <1>1, <1>2, <1>3

LEMMA OneDeployStep ==
  ASSUME MaxDeploys = 1, IInv, IInv', SlotsInv, OneDeployInv, [Next]_vars
  PROVE  OneDeployInv'
<1>1. Created(room)' /\ Created(disk)' /\ Created(written)'
  BY CreatedStep DEF IInv, OneDeployInv
<1>2. InFlightIsClosed'
  BY ClosedStep DEF OneDeployInv
<1>3. HistoryIsExtended'
  BY ExtendedStep DEF OneDeployInv
<1> QED
  BY <1>1, <1>2, <1>3 DEF OneDeployInv

-------------------------------------------------------------------------------
(* The theorems *)

LEMMA InitIInv == Init => IInv
<1> SUFFICES ASSUME Init PROVE IInv
  OBVIOUS
<1>1. JobsOK
  BY IdleJobType DEF Init, JobsOK, JobOK, Carrying
<1>2. AcceptedIsFinal
  <2>1. \A r \in {room, disk, written} : r.checkpoints = << >>
    BY DEF Init
  <2> QED
    BY <2>1 DEF AcceptedIsFinal
<1> QED
  BY <1>1, <1>2, InitType DEF IInv

LEMMA IInvStep == IInv /\ [Next]_vars => IInv'
<1> SUFFICES ASSUME IInv, [Next]_vars PROVE IInv'
  OBVIOUS
<1>1. TypeOK /\ JobsOK /\ AcceptedIsFinal
  BY DEF IInv
<1>2. TypeOK'
  BY <1>1, TypeStep
<1> QED
  BY <1>1, <1>2, JobsStep, FinalStep DEF IInv

LEMMA Invariance == Spec => []IInv
BY InitIInv, IInvStep, PTL DEF Spec

(* Every variable of the controller, the snapshot file and L1 keeps its type, and
   L1 never counts more batches final than it included. *)
THEOREM TypeCorrect == Spec => []TypeOK
<1>1. IInv => TypeOK
  BY DEF IInv
<1> QED
  BY <1>1, Invariance, PTL

(* A record the controller or its snapshot file reports ACCEPTED is a final
   batch of L1 that carries exactly the record's moves, whatever saves fail,
   however often the process restarts and L1 reorganises, and also when two
   deployments of the room race each other.  (completeCheckpoint,
   watchSettlement, restoreSnapshot) *)
THEOREM AcceptedIsFinalAlways == Spec => []AcceptedIsFinal
<1>1. IInv => AcceptedIsFinal
  BY DEF IInv
<1> QED
  BY <1>1, Invariance, PTL

LEMMA InitOnce == Init => SlotsInv /\ OnceInv
<1> SUFFICES ASSUME Init PROVE SlotsInv /\ OnceInv
  OBVIOUS
<1>1. \A r \in {room, disk, written} : r.checkpoints = << >>
  BY DEF Init
<1>2. \A i \in Attempts : job[i].pc = "idle"
  BY IdleJobType DEF Init
<1>3. Running(room) = {}
  BY <1>1 DEF Running
<1>4. SlotsInv
  BY <1>2, <1>3, AfterPhaseType DEF SlotsInv, Active, InSlot, Awaiting
<1>5. SettledOnce /\ broadcast = {}
  BY DEF Init, SettledOnce
<1>6. Sound(room) /\ Sound(disk) /\ Sound(written) /\ RunningIsNew
  BY <1>1, <1>3 DEF Sound, RunningIsNew
<1> QED
  BY <1>2, <1>4, <1>5, <1>6 DEF OnceInv, Carrying

LEMMA OnceInvariance == Spec => [](SlotsInv /\ OnceInv)
<1>1. IInv /\ IInv' /\ SlotsInv /\ OnceInv /\ [Next]_vars => (SlotsInv /\ OnceInv)'
  BY SlotsStep, OnceStep DEF IInv
<1> QED
  BY <1>1, InitOnce, Invariance, PTL DEF Spec

(* No move is in two batches of an L1 room, provisional batches included, whatever
   fails, restarts, reorganises or is sent late, and also when deployments of the room
   race each other.  (replayRequest, assertPreparedMatches, completeCheckpoint) *)
THEOREM SettledOnceAlways == Spec => []SettledOnce
<1>1. OnceInv => SettledOnce
  BY DEF OnceInv
<1> QED
  BY <1>1, OnceInvariance, PTL

LEMMA InitAgree == Init => AgreeInv
<1> SUFFICES ASSUME Init PROVE AgreeInv
  OBVIOUS
<1>1. \A r \in {room, disk, written} : r.checkpoints = << >> /\ r.actions = << >>
  BY DEF Init
<1>2. Running(room) = {}
  BY <1>1 DEF Running
<1> QED
  BY <1>1, <1>2 DEF AgreeInv, CursorRange, CursorsAgree, CursorOf, RunningHasWorker

LEMMA AgreeInvariance == Spec => []AgreeInv
<1>1. IInv /\ SlotsInv /\ OnceInv /\ AgreeInv /\ [Next]_vars => AgreeInv'
  BY AgreeStep
<1> QED
  BY <1>1, InitAgree, Invariance, OnceInvariance, PTL DEF Spec

LEMMA InitOneDeploy == Init => OneDeployInv
<1> SUFFICES ASSUME Init PROVE OneDeployInv
  OBVIOUS
<1>1. \A r \in {room, disk, written} : r.chainRoomId = NoRoom
  BY DEF Init
<1>2. \A i \in Attempts : job[i].pc = "idle"
  BY IdleJobType DEF Init
<1> QED
  BY <1>1, <1>2 DEF OneDeployInv, Created, InFlightIsClosed, HistoryIsExtended, Extending, InFlight

LEMMA OneDeployInvariance ==
  ASSUME MaxDeploys = 1
  PROVE  Spec => []OneDeployInv
<1>1. IInv /\ IInv' /\ SlotsInv /\ OneDeployInv /\ [Next]_vars => OneDeployInv'
  BY OneDeployStep
<1> QED
  BY <1>1, InitOneDeploy, Invariance, OnceInvariance, PTL DEF Spec

(* The cursor of a move names the one ACCEPTED attempt that carried it, and a RUNNING
   record has a job that will end it, as long as no save has failed: also when the
   process crashes at any await and when deployments race each other.
   (completeCheckpoint, failCheckpoint, checkpointRoom, restoreSnapshot) *)
THEOREM CursorsAndWorkersAgree == Spec => [](CursorMatchesRecords /\ RunningHasWorker)
<1>1. AgreeInv => CursorMatchesRecords /\ RunningHasWorker
  BY DEF AgreeInv, CursorsAgree, CursorMatchesRecords
<1> QED
  BY <1>1, AgreeInvariance, PTL

(* With one deployment of the room, its records agree with its cursors and with its
   jobs, and it accepts no move while a batch is between the proof and its finality.
   A second deployment that races the first reopens the room under the batch.
   (addAction, roomIsOpen, deployRoom) *)
THEOREM RecordsAgreeAlways ==
  ASSUME MaxDeploys = 1
  PROVE  Spec => []RecordsAgree
<1>1. AgreeInv /\ OneDeployInv => RecordsAgree
  BY DEF AgreeInv, CursorsAgree, CursorMatchesRecords, OneDeployInv, RecordsAgree
<1> QED
  BY <1>1, AgreeInvariance, OneDeployInvariance, PTL

(* With one deployment of the room, every batch from the proof on opens from exactly
   the history the room's ACCEPTED records describe, and no move is in two batches.
   (runCheckpoint, replayRequest, assertPreparedMatches) *)
THEOREM HistoryIsSoundAlways ==
  ASSUME MaxDeploys = 1
  PROVE  Spec => []HistoryIsSound
<1>1. OnceInv /\ OneDeployInv => HistoryIsSound
  BY DEF OnceInv, OneDeployInv, HistoryIsExtended, Extending, BatchExtendsHistory, HistoryIsSound
<1> QED
  BY <1>1, OnceInvariance, OneDeployInvariance, PTL

LEMMA InitSaves == Init => SavesInv
<1> SUFFICES ASSUME Init PROVE SavesInv
  OBVIOUS
<1>1. \A r \in {room, disk, written} : r.checkpoints = << >>
  BY DEF Init
<1>2. writes = << >> /\ saving = FALSE /\ broadcast = {}
  BY DEF Init
<1>3. \A i \in Attempts : Launches(i)
  BY <1>2, IdleJobType DEF Init, Launches
<1> QED
  BY <1>1, <1>2, <1>3 DEF SavesInv, Within, AttemptIsDurable

LEMMA SavesInvariance == Spec => []SavesInv
<1>1. IInv /\ IInv' /\ SavesInv /\ [Next]_vars => SavesInv'
  BY SavesStep
<1> QED
  BY <1>1, InitSaves, Invariance, PTL DEF Spec

(* Whatever transaction was ever broadcast, the snapshot file knows the attempt
   behind it, with the moves the transaction carries: no restart gives its sequence
   number to other moves, whatever saves fail and however the process crashes.
   (checkpointRoom, persist, restoreSnapshot) *)
THEOREM AttemptIsDurableAlways == Spec => []AttemptIsDurable
<1>1. SavesInv => AttemptIsDurable
  BY DEF SavesInv
<1> QED
  BY <1>1, SavesInvariance, PTL
=============================================================================
