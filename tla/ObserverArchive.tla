----------------------------- MODULE ObserverArchive -----------------------------
(***************************************************************************)
(* The observation archive of one room (observer-store.ts, observer-write.ts,*)
(* finalized-anchor-store.ts) and the admission of a coordinator without a  *)
(* database (admission.ts), which both write its one document. An indexer   *)
(* outside replaces the document after reading it and L1; the admission     *)
(* reads it, asks L1 and the signer, and writes it back with a new row; a   *)
(* heartbeat moves its freshness alone and leaves its revision.             *)
(*                                                                         *)
(* A batch is the L1 block that accepted it, a block its branch and the     *)
(* admission cursor it left. A block that was reorganised out does not come *)
(* back. Rows have no deadline, and the checks of the room, of the sender   *)
(* and of a deposit may refuse at any step (Refuse).                        *)
(***************************************************************************)
EXTENDS Naturals, Sequences, FiniteSets, FiniteSetsExt, SequencesExt

CONSTANTS
  Transactions, NoTransaction,
  Puts,                               \* the indexer's requests, each may be late
  MaxBlocks, MaxReorgs, MaxRestarts, MaxRevision   \* bounds

ASSUME ArchiveAssumption ==
  /\ NoTransaction \notin Transactions
  /\ {MaxBlocks, MaxReorgs, MaxRestarts, MaxRevision} \subseteq Nat

VARIABLES
  l1,        \* the chain: [branch, cursor] of every block
  final,     \* number of the finalized block
  branch,    \* reorganisations so far
  doc,       \* the document on disk; revision 0 when there is none
  anchor,    \* observer-finalized-anchor.json
  issued,    \* AdmissionIdStore: the highest id issued
  queue,     \* pending: ids that wait for the batch builder
  sub,       \* the submission that the room's serial chain lets through
  put,       \* by request: what the indexer and the handler of its PUT know
  returned,  \* history: receipts given to their callers
  drained,   \* history: ids the batch builder took
  restarts, rebuilt

chainVars == <<l1, final, branch>>
archiveVars == <<chainVars, doc, anchor, issued, queue, sub, put, returned, drained, restarts, rebuilt>>

CursorOf(chain) == IF chain = <<>> THEN 0 ELSE Last(chain).cursor
NoDoc == [revision |-> 0, batches |-> <<>>, admissions |-> {}, fresh |-> 0]
NoSubmission == [pc |-> "idle", transaction |-> NoTransaction, room |-> NoDoc, queue |-> <<>>, id |-> 0]
NoFork == MaxBlocks + 1
NoPut == [pc |-> "idle", body |-> NoDoc, fork |-> NoFork]

-----------------------------------------------------------------------------
(* L1 accepts an admission after the ones before it, and only what was drained *)

Grow ==
  /\ Len(l1) < MaxBlocks
  /\ \E c \in {CursorOf(l1)} \cup ({CursorOf(l1) + 1} \cap drained) :
       l1' = Append(l1, [branch |-> branch, cursor |-> c])
  /\ UNCHANGED <<final, branch, doc, anchor, issued, queue, sub, put, returned, drained, restarts, rebuilt>>

Finalize ==
  /\ final < Len(l1) /\ final' = final + 1
  /\ UNCHANGED <<l1, branch, doc, anchor, issued, queue, sub, put, returned, drained, restarts, rebuilt>>

Reorg ==
  /\ branch < MaxReorgs /\ branch' = branch + 1
  /\ \E n \in final .. Len(l1) - 1 : l1' = SubSeq(l1, 1, n)
  /\ UNCHANGED <<final, doc, anchor, issued, queue, sub, put, returned, drained, restarts, rebuilt>>

-----------------------------------------------------------------------------
(* ObserverStore.put: compare-and-set, and freshness that only a declared
   reorganisation takes back *)

(* expectedRevision *)
Fits(revision) == doc.revision = revision

(* Mutants (here and below): slips in the definition that follows. *)
AsWritten(room, regression) == [room EXCEPT !.revision = doc.revision + 1]

Written(room, regression) ==
  [room EXCEPT !.revision = doc.revision + 1,
               !.fresh = IF regression THEN @ ELSE Max({@, doc.fresh})]

Store(room, regression) == doc.revision < MaxRevision /\ doc' = Written(room, regression)

(* mergeFreshness *)
Heartbeat ==
  /\ doc.revision # 0
  /\ \E n \in 1 .. Len(l1) : n > doc.fresh /\ doc' = [doc EXCEPT !.fresh = n]
  /\ UNCHANGED <<chainVars, anchor, issued, queue, sub, put, returned, drained, restarts, rebuilt>>

-----------------------------------------------------------------------------
(* PUT /observer/v1/rooms/:id; the indexer reads the document, then L1 *)

Change(p, s) == put' = [put EXCEPT ![p] = s]

Draft ==
  [doc EXCEPT !.batches = l1, !.fresh = Len(l1),
              !.admissions = {[r EXCEPT !.settled = r.id <= CursorOf(l1)] : r \in @}]

ForkPoint ==
  IF IsPrefix(doc.batches, l1) THEN NoFork
  ELSE Len(LongestCommonPrefix({doc.batches, l1}))

Send(p) ==
  /\ put[p].pc = "idle" /\ l1 # <<>> /\ doc.batches # l1
  /\ Change(p, [pc |-> "sent", body |-> Draft, fork |-> ForkPoint])
  /\ UNCHANGED <<chainVars, doc, anchor, issued, queue, sub, returned, drained, restarts, rebuilt>>

(* droppedPendingKeys *)
DropsPending(body) ==
  \E r \in doc.admissions :
    ~r.settled /\ ~\E q \in body.admissions : q.id = r.id /\ q.transaction = r.transaction

(* finalizedFactViolation *)
RewritesFinal(body) ==
  \E i \in 1 .. Min({anchor, Len(doc.batches)}) :
    i > Len(body.batches) \/ body.batches[i] # doc.batches[i]

Refused(s) ==
  \/ doc.revision # 0 /\ DropsPending(s.body)
  \/ doc.revision # 0 /\ s.body.fresh < doc.fresh /\ s.fork = NoFork

(* the handler up to its first await; what it checks after that is what it has read *)
Arrive(p) ==
  LET s == put[p]
  IN /\ s.pc = "sent"
     /\ IF Refused(s) \/ (s.fork # NoFork /\ s.fork < anchor) \/ RewritesFinal(s.body)
        THEN Change(p, NoPut)
        ELSE Change(p, [s EXCEPT !.pc = IF s.fork = NoFork THEN "checked" ELSE "declared"])
     /\ UNCHANGED <<chainVars, doc, anchor, issued, queue, sub, returned, drained, restarts, rebuilt>>

(* the fork point has to be canonical *)
Corroborate(p) ==
  LET s == put[p]
  IN /\ s.pc = "declared"
     /\ Change(p, IF s.fork <= Len(l1) /\ SubSeq(l1, 1, s.fork) = SubSeq(s.body.batches, 1, s.fork)
                  THEN [s EXCEPT !.pc = "checked"] ELSE NoPut)
     /\ UNCHANGED <<chainVars, doc, anchor, issued, queue, sub, returned, drained, restarts, rebuilt>>

(* getFinalized, late or not at all, moves the anchor; then the write *)
Replace(p) ==
  LET s == put[p]
  IN /\ s.pc = "checked"
     /\ anchor' \in anchor .. Max({anchor, final})
     /\ IF Fits(s.body.revision) THEN Store(s.body, s.fork # NoFork) ELSE UNCHANGED doc
     /\ Change(p, NoPut)
     /\ UNCHANGED <<chainVars, issued, queue, sub, returned, drained, restarts, rebuilt>>

-----------------------------------------------------------------------------
(* submitSerial without hostedWal *)

Submission(t) ==
  /\ sub.pc = "idle" /\ doc.revision # 0
  /\ \A r \in doc.admissions : r.transaction # t
  /\ sub' = [NoSubmission EXCEPT !.pc = "read", !.transaction = t, !.room = doc]
  /\ UNCHANGED <<chainVars, doc, anchor, issued, queue, put, returned, drained, restarts, rebuilt>>

Unissued(id) == TRUE
AboveIssued(id) == id > issued

NumberReceipt ==
  LET room == sub.room
      id == Max({CursorOf(room.batches)} \cup {r.id : r \in room.admissions}) + 1
  IN /\ sub.pc = "read"
     /\ sub' = IF AboveIssued(id)
               THEN [sub EXCEPT !.pc = "numbered", !.queue = queue, !.id = id]
               ELSE NoSubmission
     /\ UNCHANGED <<chainVars, doc, anchor, issued, queue, put, returned, drained, restarts, rebuilt>>

WithRow ==
  [sub.room EXCEPT !.admissions =
     @ \cup {[id |-> sub.id, transaction |-> sub.transaction, settled |-> FALSE]}]

(* signed: the document, the id record and the queue, in this order *)
ArchiveReceipt ==
  /\ sub.pc = "numbered"
  /\ IF Fits(sub.room.revision)
     THEN /\ Store(WithRow, FALSE)
          /\ issued' = Max({issued, sub.id})
          /\ queue' = Append(sub.queue, sub.id)
          /\ returned' = returned \cup {[id |-> sub.id, transaction |-> sub.transaction]}
     ELSE UNCHANGED <<doc, issued, queue, returned>>
  /\ sub' = NoSubmission
  /\ UNCHANGED <<chainVars, anchor, put, drained, restarts, rebuilt>>

Refuse ==
  /\ sub.pc # "idle" /\ sub' = NoSubmission
  /\ UNCHANGED <<chainVars, doc, anchor, issued, queue, put, returned, drained, restarts, rebuilt>>

(* POST /rooms/:id/pending-transactions *)
TakePending ==
  /\ queue # <<>>
  /\ drained' = drained \cup ToSet(queue) /\ queue' = <<>>
  /\ UNCHANGED <<chainVars, doc, anchor, issued, sub, put, returned, restarts, rebuilt>>

(* the process ends, also after the document or the id record of a receipt and
   before its answer; the archive may be rebuilt from nothing *)
Restart ==
  /\ restarts < MaxRestarts /\ restarts' = restarts + 1
  /\ \/ UNCHANGED <<doc, issued, rebuilt>>
     \/ /\ sub.pc = "numbered" /\ Fits(sub.room.revision) /\ Store(WithRow, FALSE)
        /\ issued' \in {issued, Max({issued, sub.id})}
        /\ UNCHANGED rebuilt
     \/ doc.revision # 0 /\ doc' = NoDoc /\ rebuilt' = TRUE /\ UNCHANGED issued
  /\ queue' = <<>> /\ sub' = NoSubmission
  /\ put' = [p \in Puts |-> IF put[p].pc \in {"declared", "checked"} THEN NoPut ELSE put[p]]
  /\ UNCHANGED <<chainVars, anchor, returned, drained>>

-----------------------------------------------------------------------------
ArchiveInit ==
  /\ l1 = <<>> /\ final = 0 /\ branch = 0
  /\ doc = NoDoc /\ anchor = 0 /\ issued = 0
  /\ queue = <<>> /\ sub = NoSubmission
  /\ put = [p \in Puts |-> NoPut]
  /\ returned = {} /\ drained = {} /\ restarts = 0 /\ rebuilt = FALSE

ArchiveNext ==
  \/ Grow \/ Finalize \/ Reorg
  \/ Heartbeat
  \/ \E p \in Puts : Send(p) \/ Arrive(p) \/ Corroborate(p) \/ Replace(p)
  \/ \E t \in Transactions : Submission(t)
  \/ NumberReceipt \/ ArchiveReceipt \/ Refuse
  \/ TakePending
  \/ Restart

ArchiveSpec == ArchiveInit /\ [][ArchiveNext]_archiveVars
-----------------------------------------------------------------------------
(* Properties *)

(* A receipt that was given out stays the only one with its id, even when the
   archive is rebuilt; until then its row stays in the document whatever the
   indexer writes from an older copy, and, as long as the process runs, its id
   is with the batch builder or waits for it.
   (submitSerial, takePending, ObserverStore.put, droppedPendingKeys) *)
ReceiptsAreKept ==
  /\ \A p, q \in returned : p.id = q.id => p = q
  /\ ~rebuilt =>
       \A p \in returned : \E r \in doc.admissions : r.id = p.id /\ r.transaction = p.transaction
  /\ restarts = 0 => \A p \in returned : p.id \in ToSet(queue) \cup drained

(* What L1 has finalized, once archived, stays archived; and what readers take for
   the archive's freshness goes back by no write but that of a request which
   declared a reorganisation, although heartbeats leave the revision alone.
   (finalizedFactViolation, ObserverStore.put, mergeFreshness) *)
Archived(i) == i <= Len(doc.batches) /\ doc.batches[i] = l1[i]
FinalStays == ~rebuilt' => \A i \in 1 .. final : Archived(i) => Archived(i)'
FreshStays ==
  doc'.fresh < doc.fresh /\ doc' # NoDoc =>
    \E p \in Puts : put[p].fork # NoFork /\ put[p].pc = "checked" /\ put'[p] = NoPut
ArchiveAdvances == [][FinalStays /\ FreshStays]_archiveVars

(* Not so, and shown by configurations of their own: a drained id is not queued
   again, and what lies below the anchor is what L1 has ("an archived fact
   anchored there may never change"). *)
DrainedOnce == \A id \in ToSet(queue) : id \notin drained
AnchoredIsCanonical ==
  \A i \in 1 .. Min({anchor, Len(doc.batches)}) : doc.batches[i] = l1[i]
=============================================================================
