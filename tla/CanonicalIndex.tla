---------------------------- MODULE CanonicalIndex ----------------------------
(***************************************************************************)
(* The canonical event index: hosted-indexer.ts follows L1 through a quorum *)
(* of RPC providers and writes, in many transactions of                     *)
(* postgres-hosted-store.ts, the block journal, the facts every source's    *)
(* logs give, a durable cursor per source, the blob sidecars it must        *)
(* archive and the finalized floor. Meanwhile L1 grows, finalizes and       *)
(* reorganises, the reconciler writes observations, the publishers audit a  *)
(* finalized operation and an operator installs a recovery branch.          *)
(* A block is the path that leads to it from the bootstrap anchor, <<>>:    *)
(* its length is the number, its fronts the ancestors, the path the hash.   *)
(* Every block holds one log of each source; those of BlobSource come with  *)
(* a sidecar.                                                               *)
(***************************************************************************)
EXTENDS Naturals, Sequences, FiniteSets, FiniteSetsExt

CONSTANTS
  Forks, Trunk, \* what tells blocks of one parent apart; the first of them
  Sources,      \* the configured contracts, numbered in the order they are read
  BlobSource,   \* the one whose DataAvailabilityAccepted needs a sidecar
  OpHeight,     \* number of the block that holds the operation the publishers audit
  BlocksPerRun, \* maxBlocksPerRun
  MaxHeight, MaxReorgs, MaxSurprises, MaxErrors   \* bounds

ASSUME IndexAssumption ==
  /\ Trunk \in Forks /\ Sources \subseteq Nat /\ BlobSource \in Sources
  /\ OpHeight \in Nat \ {0} /\ BlocksPerRun \in Nat \ {0}

VARIABLES
  l1, final,    \* L1: the latest block and the finalized number
  journal,      \* canonical_l1_blocks: the canonical rows
  facts, dead,  \* hosted_indexer_facts: <<block, source>>, canonical or not
  cursor,       \* hosted_indexer_cursors: a block; a missing row is the anchor
  floor,        \* hosted_canonical_floors
  verified,     \* hosted_blob_requirements: blocks whose sidecar is VERIFIED
  seen,         \* hosted_room_observations: head of the room's observation, <<>> for none
  look,         \* the reconciler: the head it reads the room at, <<>> when idle
  op,           \* hosted_l1_transactions: a finalized operation of ours
  branch,       \* hosted_post_finality_recoveries: head of the installed branch, <<>> for none
  run,          \* the indexer's runOnce
  reorgs, surprises, errors

index == <<journal, facts, dead, cursor, verified>>
bounds == <<reorgs, surprises, errors>>
vars == <<l1, final, index, floor, seen, look, op, branch, run, bounds>>

Front(b, n) == SubSeq(b, 1, n)
Anchor == <<>>
Idle == [pc |-> "idle", number |-> 0, end |-> 0, block |-> Anchor, mem |-> [s \in Sources |-> 0]]
At(n) == {b \in journal : Len(b) = n}                     \* canonicalBlockAt
From(n) == {b \in journal : Len(b) >= n}
Tip == IF journal = {} THEN Anchor                       \* canonicalHead
        ELSE CHOOSE b \in journal : \A c \in journal : Len(b) >= Len(c)
Served(b) == b = Front(l1, Len(b)) /\ Len(b) <= Len(l1)   \* on L1's canonical chain

-----------------------------------------------------------------------------
(* L1 *)

(* the path of its parent already tells a new block from all others *)
Grow ==
  /\ Len(l1) < MaxHeight
  /\ l1' = Append(l1, Trunk)
  /\ UNCHANGED <<final, index, floor, seen, look, op, branch, run, bounds>>

Finalize ==
  /\ final < Len(l1) /\ final' = final + 1
  /\ UNCHANGED <<l1, index, floor, seen, look, op, branch, run, bounds>>

Rewrite(n) == \E f \in Forks \ {l1[n]} : l1' = [l1 EXCEPT ![n] = f]

Reorg ==
  /\ reorgs < MaxReorgs /\ reorgs' = reorgs + 1
  /\ \E n \in final + 1 .. Len(l1) : Rewrite(n)
  /\ UNCHANGED <<final, index, floor, seen, look, op, branch, run, surprises, errors>>

(* below the finalized block *)
Surprise ==
  /\ surprises < MaxSurprises /\ surprises' = surprises + 1
  /\ \E n \in 1 .. final : Rewrite(n)
  /\ UNCHANGED <<final, index, floor, seen, look, op, branch, run, reorgs, errors>>

-----------------------------------------------------------------------------
(* one transaction for all that hung on the blocks from number n on *)
Retract(n, cursors) ==
  /\ facts' = {r \in facts : Len(r[1]) < n}
  /\ dead' = dead \cup {r \in facts : Len(r[1]) >= n}
  /\ verified' = {b \in verified : Len(b) < n}
  /\ seen' = IF Len(seen) >= n THEN Anchor ELSE seen
  /\ cursor' = cursors

(* runOnce: the head of L1, the common ancestor with it, and the cursors, read once *)
TipAgrees == {n \in {Len(Tip)} : Served(Tip)}

CommonAncestor ==
  LET agree == {n \in Len(floor) .. Len(Tip) :
                  IF n = Len(floor) THEN Served(floor) ELSE \E b \in At(n) : Served(b)}
  IN IF journal = {} THEN {0} ELSE agree

FromAncestor(ancestor, mem) == ancestor + 1

Start(ancestor, mem) == Min({ancestor} \cup {mem[s] : s \in Sources}) + 1

Begin ==
  /\ run.pc = "idle" /\ CommonAncestor # {}
  /\ LET mem == [s \in Sources |-> Len(cursor[s])]
         start == Start(Max(CommonAncestor), mem)
     IN run' = [pc |-> "block", number |-> start, block |-> Anchor, mem |-> mem,
                end |-> Min({Len(l1), start + BlocksPerRun - 1})]
  /\ UNCHANGED <<l1, final, index, floor, seen, look, op, branch, bounds>>

(* recoverPending and the attempt after an ingest: the sidecar of a block that L1 still
   serves and that has a successor is fetched and checked, unless the beacon fails *)
Archive(b) ==
  /\ <<b, BlobSource>> \in facts /\ b \notin verified
  /\ Served(b) /\ Len(b) < Len(l1)
  /\ verified' = verified \cup {b}
  /\ UNCHANGED <<l1, final, journal, facts, dead, cursor, floor, seen, look, op, branch, run, bounds>>

(* planCanonicalIngestion *)
AboveFloor(b) == Len(b) > Len(floor)
Linked(b) ==
  LET parent == Front(b, Len(b) - 1)
  IN IF At(Len(parent)) # {} THEN parent \in journal ELSE parent = floor

(* recordCanonicalBlocks; every cursor goes back to the common ancestor *)
CursorsStay(b) == cursor

RolledBackCursors(b) ==
  [s \in Sources |-> IF cursor[s] = Anchor THEN Anchor ELSE Front(b, Len(b) - 1)]

Record(b) ==
  /\ IF From(Len(b)) # {}
     THEN Retract(Len(b), RolledBackCursors(b))
     ELSE UNCHANGED <<facts, dead, verified, seen, cursor>>
  /\ journal' = (journal \ From(Len(b))) \cup {b}

(* the loop of runOnce reads the block and journals it when the local one differs *)
ReadBlock ==
  LET b == Front(l1, run.number)
      goOn == run' = [run EXCEPT !.pc = "ingest", !.block = b]
  IN /\ run.pc = "block" /\ run.number <= run.end
     /\ IF b \in journal THEN goOn /\ UNCHANGED <<index, seen>>
        ELSE IF AboveFloor(b) /\ Linked(b) THEN goOn /\ Record(b)
        ELSE run' = Idle /\ UNCHANGED <<index, seen>>
     /\ UNCHANGED <<l1, final, floor, look, op, branch, bounds>>

(* ingestIndexerRecords: logs, facts, sidecar requirement and cursor in one transaction;
   a row that is there already is left as it is *)
Ingest(b, s) ==
  /\ cursor' = [cursor EXCEPT ![s] = b]
  /\ facts' = IF <<b, s>> \in dead THEN facts ELSE facts \cup {<<b, s>>}

Ingestible(b, s) == b \in journal /\ (Len(cursor[s]) < Len(b) \/ cursor[s] = b)

(* a source whose cursor, as read when the run began, is past the block is passed over *)
Todo == {s \in Sources : run.mem[s] < run.number}

ReadLogs ==
  /\ run.pc = "ingest" /\ Todo # {}
  /\ LET s == Min(Todo)
     IN IF Ingestible(run.block, s)
        THEN Ingest(run.block, s) /\ run' = [run EXCEPT !.mem[s] = run.number]
        ELSE run' = Idle /\ UNCHANGED <<cursor, facts>>
  /\ UNCHANGED <<l1, final, journal, dead, verified, floor, seen, look, op, branch, bounds>>

NextBlock ==
  /\ run.pc = "ingest" /\ Todo = {}
  /\ run' = [run EXCEPT !.pc = "block", !.number = @ + 1]
  /\ UNCHANGED <<l1, final, index, floor, seen, look, op, branch, bounds>>

(* putRoomObservation refuses a head that is not canonical *)
Observe(b) == seen' = IF b \in journal THEN b ELSE seen

(* reconcileRooms at the last block of the run, or at the head when there was none *)
Reconcile ==
  /\ run.pc = "block" /\ run.number > run.end
  /\ Observe(IF run.block = Anchor THEN Front(l1, Len(Tip)) ELSE run.block)
  /\ run' = [run EXCEPT !.pc = "floor"]
  /\ UNCHANGED <<l1, final, index, floor, look, op, branch, bounds>>

(* blobArchiveReadyThrough: only requirements that are still canonical count *)
ArchivedThrough(n) ==
  \A r \in facts : r[2] = BlobSource /\ Len(r[1]) <= n => r[1] \in verified

(* advanceCanonicalFloor, which an unresolved recovery freezes *)
Extends(b) == Len(b) > Len(floor) \/ b = floor

Indexed(b) == b \in journal /\ \A s \in Sources : run.mem[s] >= Len(b)

AdvanceFloor ==
  LET b == Front(l1, final)
  IN /\ run.pc = "floor"
     /\ floor' = IF Indexed(b) /\ ArchivedThrough(final) /\ op.status # "RECOVERY" /\ Extends(b)
                  THEN b ELSE floor
     /\ run' = Idle
     /\ UNCHANGED <<l1, final, index, seen, look, op, branch, bounds>>

(* a read the providers do not agree on, a lost fence or a crash ends the run *)
Abort ==
  /\ run.pc # "idle" /\ errors < MaxErrors /\ errors' = errors + 1
  /\ run' = Idle
  /\ UNCHANGED <<l1, final, index, floor, seen, look, op, branch, reorgs, surprises>>

Indexer == Begin \/ ReadBlock \/ ReadLogs \/ NextBlock \/ Reconcile \/ AdvanceFloor

-----------------------------------------------------------------------------
(* the reconciler, a process of its own: reads the room at the head, then writes *)

Look ==
  /\ look = Anchor /\ Tip # Anchor /\ Served(Tip)
  /\ look' = Tip
  /\ UNCHANGED <<l1, final, index, floor, seen, op, branch, run, bounds>>

Write ==
  /\ look # Anchor
  /\ Observe(look) /\ look' = Anchor
  /\ UNCHANGED <<l1, final, index, floor, op, branch, run, bounds>>

-----------------------------------------------------------------------------
(* an operation of ours, finalized and audited by the publishers, and its recovery *)

OpFinalizes ==
  /\ op.status = "none" /\ final >= OpHeight
  /\ op' = [status |-> "FINALIZED", block |-> Front(l1, OpHeight)]
  /\ UNCHANGED <<l1, final, index, floor, seen, look, branch, run, bounds>>

(* markL1TransactionRetracted: the journal is cut below it and every cursor deleted *)
Audit ==
  /\ op.status = "FINALIZED" /\ ~Served(op.block)
  /\ op' = [op EXCEPT !.status = "RECOVERY"]
  /\ Retract(OpHeight, [s \in Sources |-> Anchor])
  /\ journal' = journal \ From(OpHeight)
  /\ UNCHANGED <<l1, final, floor, look, branch, run, bounds>>

(* the route reads L1 from the operation's block through the number of the floor *)
RecoveryBlocks == {Front(l1, n) : n \in OpHeight .. Len(floor)}

InstallBranch ==
  LET parent == Front(l1, OpHeight - 1)
  IN /\ op.status = "RECOVERY" /\ branch = Anchor
     /\ OpHeight <= Len(floor) /\ Len(floor) <= Len(l1)
     /\ parent \in journal \cup {Anchor} /\ From(OpHeight) = {}
     /\ journal' = journal \cup RecoveryBlocks
     /\ branch' = Front(l1, Len(floor))
     /\ UNCHANGED <<l1, final, facts, dead, cursor, verified, floor, seen, look, op, run, bounds>>

Replayed == \A s \in Sources : cursor[s] = branch

FinalizeRecovery ==
  /\ branch # Anchor /\ op.status = "RECOVERY"
  /\ Served(branch) /\ branch \in journal
  /\ Replayed /\ ArchivedThrough(Len(branch))
  /\ floor' = branch /\ op' = [op EXCEPT !.status = "SUPERSEDED"]
  /\ UNCHANGED <<l1, final, index, seen, look, branch, run, bounds>>

-----------------------------------------------------------------------------
Init ==
  /\ l1 = Anchor /\ final = 0 /\ journal = {} /\ facts = {} /\ dead = {} /\ verified = {}
  /\ cursor = [s \in Sources |-> Anchor] /\ floor = Anchor /\ seen = Anchor /\ look = Anchor
  /\ op = [status |-> "none", block |-> Anchor] /\ branch = Anchor /\ run = Idle
  /\ reorgs = 0 /\ surprises = 0 /\ errors = 0

Blocks == UNION {[1 .. n -> Forks] : n \in 0 .. MaxHeight}

Next ==
  \/ Grow \/ Finalize \/ Reorg \/ Surprise
  \/ Indexer \/ Abort \/ \E r \in facts : Archive(r[1])
  \/ Look \/ Write
  \/ OpFinalizes \/ Audit \/ InstallBranch \/ FinalizeRecovery

Spec == Init /\ [][Next]_vars

(* the worker's timer starts run after run, each of which retries the pending sidecars;
   the publishers' and the operator's part is done when it can be *)
FairSpec ==
  /\ Spec
  /\ WF_vars(Indexer) /\ \A b \in Blocks : WF_vars(Archive(b))
  /\ WF_vars(Audit) /\ WF_vars(InstallBranch) /\ WF_vars(FinalizeRecovery)

-----------------------------------------------------------------------------
(* L1, rows and the run are well formed. *)
TypeOK ==
  /\ l1 \in Blocks /\ final \in 0 .. Len(l1)
  /\ journal \subseteq Blocks \ {Anchor} /\ verified \subseteq Blocks
  /\ facts \subseteq Blocks \X Sources /\ dead \subseteq Blocks \X Sources
  /\ cursor \in [Sources -> Blocks] /\ {floor, seen, look, branch, op.block} \subseteq Blocks
  /\ op.status \in {"none", "FINALIZED", "RECOVERY", "SUPERSEDED"}
  /\ run.pc \in {"idle", "block", "ingest", "floor"} /\ run.block \in Blocks

(* The journal is one chain that links to the anchor and carries the floor, whatever L1,
   the audit and a recovery do to it; only an open recovery may have cut the floor off. *)
JournalIsAChain ==
  /\ \A b \in journal : At(Len(b)) = {b} /\ Front(b, Len(b) - 1) \in journal \cup {Anchor, floor}
  /\ op.status # "RECOVERY" => floor \in journal \cup {Anchor}

(* Nothing a reader is given hangs on a block that left the chain: the facts, the cursors,
   the archived sidecars and the observation a slow reconciler wrote are of the journal,
   and the journal is one chain. *)
ReadersSeeTheChain ==
  /\ JournalIsAChain
  /\ \A r \in facts : r[1] \in journal
  /\ \A s \in Sources : cursor[s] \in journal \cup {Anchor, floor}
  /\ seen \in journal \cup {Anchor} /\ verified \subseteq journal

(* "Each source owns a durable cursor, so a crash after journalling a block cannot skip its
   logs" (hosted-indexer.ts, HostedIndexer): every block of the journal up to a source's
   cursor had its logs of that source read. *)
Covered == \A s \in Sources, b \in journal : Len(b) <= Len(cursor[s]) => <<b, s>> \in facts \cup dead

NothingSkipped == Covered

(* While L1 does not reorganise, crashes between the transactions of a block lose no log,
   and no block goes below the floor before its sidecar is archived. *)
CompleteWithoutReorg ==
  reorgs + surprises = 0 =>
    /\ Covered
    /\ \A b \in journal : Len(b) <= Len(floor) => b \in verified

(* The index comes to the head and the finalized block of L1 after reorganisations, errors
   and crashes, when that block has the successor its sidecar is found through; a rewrite
   of finalized blocks may stop it. *)
IndexCatchesUp ==
  <>[](surprises > 0 \/ (Tip = l1 /\ (floor = Front(l1, final) \/ final = Len(l1))))

(* A recovery's branch, once installed, is replayed by the indexer, so that the recovery can
   be resolved ("Finalize an indexed and blob-archived replacement branch",
   hosting-capabilities.ts). *)
RecoveryIsReplayed == branch # Anchor ~> \A s \in Sources : Len(cursor[s]) >= Len(branch)
=============================================================================
