------------------------------- MODULE L1Journal -------------------------------
(***************************************************************************)
(* The L1 operation journal: nonces and signed bytes kept in PostgreSQL    *)
(* (postgres-hosted-store.ts), the API process that publishes an operation *)
(* under an idempotency key, the publisher worker that drives every        *)
(* pending row until L1 finality (managed-l1-publisher.ts,                 *)
(* managed-blob-publisher.ts, blob-publisher.ts), and the L1 they send to, *)
(* which may drop, delay, revert or reorganise what it was sent.           *)
(* A store method is one transaction, hence one action; between a read of  *)
(* L1 or of a row and the write that uses it there is an await, hence      *)
(* another action of another process.                                      *)
(***************************************************************************)
EXTENDS Integers, Sequences, FiniteSets

CONSTANTS
  Ops,          \* operations, one idempotency key each
  Publishers,   \* API processes running publish()
  Worker,       \* the publisher worker that holds the fence
  Sigs,         \* the signatures the signer may answer one request with
  Costs,        \* effective gas prices a block may have
  NoTx,
  MaxHeight, MaxReorgs, MaxSurprises, MaxAttempts, MaxPublishes, MaxCrashes

ASSUME NoTxAssumption == NoTx \notin Ops \X Sigs
ASSUME WorkerAssumption == Worker \notin Publishers
ASSUME BoundsAssumption == MaxAttempts \in Nat \ {0} /\ MaxHeight \in Nat \ {0} /\ Costs \subseteq Nat \ {0}

VARIABLES
  chain,      \* L1 blocks: the branch a block is of, its transaction of ours, what became of it
  final,      \* height of L1's finalized block
  sent,       \* transactions an L1 node was ever handed
  row,        \* hosted_l1_transactions
  nextNonce,  \* hosted_l1_nonce_state
  task,       \* process -> what it is in the middle of
  reorgs, surprises, publishes, crashes

vars == <<chain, final, sent, row, nextNonce, task, reorgs, surprises, publishes, crashes>>
l1 == <<chain, final, reorgs, surprises>>
db == <<row, nextNonce>>

Txs == Ops \X Sigs
Processes == Publishers \cup {Worker}
Pending == {"PREPARED", "SIGNED", "BROADCAST", "INCLUDED"}
NoRow == [status |-> "none", nonce |-> 0, tx |-> NoTx, height |-> 0, branch |-> 0,
          cost |-> 0, attempts |-> 0]

(* what a process holds over an await: where it is, its operation, the signed bytes of
   the row it read, and what L1 answered (a nonce, or the cost and block of a receipt) *)
Idle == [pc |-> "idle", op |-> NoTx, tx |-> NoTx, found |-> 0, height |-> 0, branch |-> 0]
Step(p, t) == task' = [task EXCEPT ![p] = t]
Done(p) == Step(p, Idle)
At(pc, o) == [Idle EXCEPT !.pc = pc, !.op = o]
With(pc, o, t) == [At(pc, o) EXCEPT !.tx = t]
Write(o, r) == row' = [row EXCEPT ![o] = r]

-----------------------------------------------------------------------------
(* L1 *)

Nonce(t) == row[t[1]].nonce
Mined(t) == \E h \in DOMAIN chain : chain[h].tx = t
AccountNonce == Cardinality({h \in DOMAIN chain : chain[h].tx # NoTx})
Receipt(t) == IF t # NoTx /\ Mined(t) THEN CHOOSE h \in DOMAIN chain : chain[h].tx = t ELSE 0
Block(t, ok, c) == [branch |-> reorgs + surprises, tx |-> t, ok |-> ok, cost |-> c]

OtherBlock == [branch |-> reorgs + surprises + 1, tx |-> NoTx, ok |-> TRUE, cost |-> 0]

(* blocks without a transaction of ours are left out of the chain *)
Mine ==
  /\ Len(chain) < MaxHeight
  /\ \E t \in sent, ok \in BOOLEAN, c \in Costs :
       /\ ~Mined(t) /\ Nonce(t) = AccountNonce
       /\ chain' = Append(chain, Block(t, ok, c))
  /\ UNCHANGED <<final, sent, db, task, reorgs, surprises, publishes, crashes>>

Finalize ==
  /\ final < Len(chain)
  /\ final' = final + 1
  /\ UNCHANGED <<chain, sent, db, task, reorgs, surprises, publishes, crashes>>

(* another branch wins above the finalized block; what it unmined can be mined again *)
Reorg ==
  /\ reorgs < MaxReorgs
  /\ \E k \in final .. Len(chain) - 1 : chain' = SubSeq(chain, 1, k)
  /\ reorgs' = reorgs + 1
  /\ UNCHANGED <<final, sent, db, task, surprises, publishes, crashes>>

(* finalized blocks are rewritten after all *)
Surprise ==
  /\ surprises < MaxSurprises
  /\ surprises' = surprises + 1
  /\ \E k \in 1 .. final :
       chain' = [h \in DOMAIN chain |-> IF h < k THEN chain[h] ELSE OtherBlock]
  /\ UNCHANGED <<final, sent, db, task, reorgs, publishes, crashes>>

-----------------------------------------------------------------------------
(* publish() *)

(* resume(), or where the worker's pass goes on: signed bytes are never replaced *)
Place(p, o, r) ==
  CASE r.status = "none" -> At("nonce", o)
    [] r.status = "PREPARED" -> At("sign", o)
    [] r.status = "SIGNED" -> With("send", o, r.tx)
    [] r.status = "BROADCAST" /\ p = Worker -> With("receipt", o, r.tx)
    [] r.status = "INCLUDED" /\ p = Worker ->
         [With("check", o, r.tx) EXCEPT !.height = r.height, !.branch = r.branch]
    [] OTHER -> Idle
Resume(p, o, r) == Step(p, Place(p, o, r))

Publish(p, o) ==
  /\ task[p].pc = "idle" /\ publishes < MaxPublishes
  /\ publishes' = publishes + 1
  /\ Resume(p, o, row[o])
  /\ UNCHANGED <<l1, sent, db, crashes>>

(* agreedTransactionCount(sender, "pending"): some of what was sent is counted *)
ReadNonce(p) ==
  /\ task[p].pc = "nonce"
  /\ \E n \in AccountNonce .. Cardinality(sent) : Step(p, [At("reserve", task[p].op) EXCEPT !.found = n])
  /\ UNCHANGED <<l1, sent, db, publishes, crashes>>

RemoteNonce(remote) == remote

(* the journal and L1 may each be ahead of the other *)
ReservedNonce(remote) == IF remote > nextNonce THEN remote ELSE nextNonce

(* reserveL1Transaction: a lost race replays the winner's row, or is refused
   when the fees or the deadline of the two requests differ *)
Reserve(p) ==
  LET o == task[p].op
      n == ReservedNonce(task[p].found)
      r == [NoRow EXCEPT !.status = "PREPARED", !.nonce = n]
  IN /\ task[p].pc = "reserve"
     /\ \/ /\ row[o].status = "none"
           /\ Write(o, r) /\ nextNonce' = n + 1 /\ Resume(p, o, r)
        \/ /\ row[o].status # "none"
           /\ Resume(p, o, row[o]) \/ Done(p)
           /\ UNCHANGED db
     /\ UNCHANGED <<l1, sent, publishes, crashes>>

RetriedNever(r) == r

(* recordL1TransactionAttemptError *)
Retried(r) == [r EXCEPT !.attempts = @ + 1]

(* a row is bound to the first bytes signed for it *)
Signed(r) == r.tx # NoTx
(* the worker notes an error on a row that is still pending; the API answers it *)
Fail(p) ==
  LET o == task[p].op
  IN /\ Done(p)
     /\ IF p = Worker /\ row[o].status \in Pending
        THEN Write(o, Retried(row[o])) ELSE UNCHANGED row
     /\ UNCHANGED nextNonce

(* attachSignedL1Transaction *)
Attach(p) ==
  LET o == task[p].op
      r == row[o]
  IN /\ task[p].pc = "sign"
     /\ \E s \in Sigs :
          IF Signed(r)
          THEN IF r.tx = <<o, s>> THEN Resume(p, o, r) /\ UNCHANGED db ELSE Fail(p)
          ELSE IF r.status # "PREPARED" THEN Fail(p)
          ELSE LET q == [r EXCEPT !.tx = <<o, s>>, !.status = "SIGNED"]
               IN Write(o, q) /\ Resume(p, o, q) /\ UNCHANGED nextNonce
     /\ UNCHANGED <<l1, sent, publishes, crashes>>

(* broadcastRawTransaction: accepted by one node at least, or an error, and then
   a node may have taken it all the same *)
Broadcast(p) ==
  LET t == task[p].tx
  IN /\ task[p].pc \in {"send", "again"}
     /\ \/ /\ Mined(t) \/ Nonce(t) >= AccountNonce
           /\ sent' = sent \cup {t}
           /\ Step(p, At(IF task[p].pc = "send" THEN "mark" ELSE "remark", task[p].op))
           /\ UNCHANGED db
        \/ /\ sent' \in {sent, sent \cup {t}}
           /\ Fail(p)
     /\ UNCHANGED <<l1, publishes, crashes>>

SignedIsBroadcastable(r) == Signed(r)

Broadcastable(r) == r.status \in {"SIGNED", "BROADCAST", "INCLUDED"}

(* markL1TransactionBroadcast *)
MarkBroadcast(p) ==
  LET o == task[p].op
      r == [row[o] EXCEPT !.status = "BROADCAST", !.attempts = @ + 1]
  IN /\ task[p].pc \in {"mark", "remark"}
     /\ IF Broadcastable(row[o])
        THEN /\ Write(o, r) /\ UNCHANGED nextNonce
             /\ IF task[p].pc = "mark" THEN Resume(p, o, r) ELSE Done(p)
        ELSE Fail(p)
     /\ UNCHANGED <<l1, sent, publishes, crashes>>

-----------------------------------------------------------------------------
(* the worker's pass over the pending rows *)

NeverExhausted(r) == FALSE

Exhausted(r) == r.attempts >= MaxAttempts

PickUp(o) ==
  /\ task[Worker].pc = "idle" /\ row[o].status \in Pending
  /\ IF Exhausted(row[o]) THEN Step(Worker, At("exhaust", o))
     ELSE Resume(Worker, o, row[o])
  /\ UNCHANGED <<l1, sent, db, publishes, crashes>>

(* markL1TransactionRecoveryRequired *)
Exhaust ==
  LET o == task[Worker].op
  IN /\ task[Worker].pc = "exhaust"
     /\ IF row[o].status \in Pending
        THEN Write(o, [row[o] EXCEPT !.status = "RECOVERY_REQUIRED"]) /\ Done(Worker)
             /\ UNCHANGED nextNonce
        ELSE Fail(Worker)
     /\ UNCHANGED <<l1, sent, publishes, crashes>>

Seen(o, h) ==
  [At("include", o) EXCEPT !.found = chain[h].cost, !.height = h, !.branch = chain[h].branch]

(* agreedReceiptOptional: no agreement of two providers is an error, not an absence *)
ReadReceipt ==
  LET h == Receipt(task[Worker].tx)
  IN /\ task[Worker].pc = "receipt"
     /\ \/ Fail(Worker)
        \/ /\ h = 0 /\ Step(Worker, [task[Worker] EXCEPT !.pc = "again"])
           /\ UNCHANGED db
        \/ /\ h # 0 /\ ~chain[h].ok /\ Step(Worker, At("fail", task[Worker].op))
           /\ UNCHANGED db
        \/ /\ h # 0 /\ chain[h].ok
           /\ Step(Worker, Seen(task[Worker].op, h))
           /\ UNCHANGED db
     /\ UNCHANGED <<l1, sent, publishes, crashes>>

(* markL1TransactionFailed *)
MarkFailed ==
  LET o == task[Worker].op
  IN /\ task[Worker].pc = "fail"
     /\ IF row[o].status \notin {"FINALIZED", "RECOVERY_REQUIRED"}
        THEN Write(o, [row[o] EXCEPT !.status = "FAILED"]) /\ Done(Worker) /\ UNCHANGED nextNonce
        ELSE Fail(Worker)
     /\ UNCHANGED <<l1, sent, publishes, crashes>>

Included(r, t) ==
  [r EXCEPT !.status = "INCLUDED", !.height = t.height, !.branch = t.branch, !.cost = t.found]

(* markL1TransactionIncluded: the first receipt's cost stays *)
MarkIncluded ==
  LET o == task[Worker].op
      c == task[Worker].found
      r == Included(row[o], task[Worker])
  IN /\ task[Worker].pc = "include"
     /\ IF row[o].status \in {"BROADCAST", "INCLUDED"} /\ row[o].cost \in {0, c}
        THEN Write(o, r) /\ Resume(Worker, o, r) /\ UNCHANGED nextNonce
        ELSE Fail(Worker)
     /\ UNCHANGED <<l1, sent, publishes, crashes>>

SameBlock(r) == r.height \in DOMAIN chain /\ chain[r.height].branch = r.branch

LatestIsFinal(t) == Len(chain) >= t.height

IsFinal(t) == final >= t.height

(* the receipt again, then the finalized block, then the block it names *)
Check ==
  LET t == task[Worker]
      same == SameBlock(t) /\ Receipt(t.tx) = t.height
  IN /\ t.pc = "check"
     /\ \/ Fail(Worker)
        \/ ~same /\ Step(Worker, At("retract", t.op)) /\ UNCHANGED db
        \/ same /\ ~IsFinal(t) /\ Done(Worker) /\ UNCHANGED db
        \/ same /\ IsFinal(t) /\ Step(Worker, At("finalize", t.op)) /\ UNCHANGED db
     /\ UNCHANGED <<l1, sent, publishes, crashes>>

(* markL1TransactionFinalized *)
MarkFinalized ==
  LET o == task[Worker].op
  IN /\ task[Worker].pc = "finalize"
     /\ IF row[o].status = "INCLUDED"
        THEN Write(o, [row[o] EXCEPT !.status = "FINALIZED"]) /\ Done(Worker) /\ UNCHANGED nextNonce
        ELSE Fail(Worker)
     /\ UNCHANGED <<l1, sent, publishes, crashes>>

(* markL1TransactionRetracted of an included row, then broadcast() of the same bytes *)
Retract ==
  LET o == task[Worker].op
      r == [row[o] EXCEPT !.status = "BROADCAST", !.height = 0, !.branch = 0]
  IN /\ task[Worker].pc = "retract"
     /\ IF row[o].status = "INCLUDED"
        THEN Write(o, r) /\ Step(Worker, With("again", o, r.tx)) /\ UNCHANGED nextNonce
        ELSE Fail(Worker)
     /\ UNCHANGED <<l1, sent, publishes, crashes>>

(* nextFinalizedL1AuditBatch, then the canonical block at the row's height *)
Audit(o) ==
  /\ task[Worker].pc = "idle" /\ row[o].status = "FINALIZED"
  /\ row[o].height \in DOMAIN chain /\ ~SameBlock(row[o])
  /\ Step(Worker, At("surprise", o))
  /\ UNCHANGED <<l1, sent, db, publishes, crashes>>

SurprisedAfter(o) ==
  {q \in Ops : row[q].status = "FINALIZED" /\ row[q].height > row[o].height}

(* markL1TransactionRetracted of a finalized row takes every later one with it *)
Surprised(o) ==
  {q \in Ops : row[q].status = "FINALIZED" /\ row[q].height >= row[o].height}

RetractFinalized ==
  LET o == task[Worker].op
  IN /\ task[Worker].pc = "surprise"
     /\ IF row[o].status = "FINALIZED"
        THEN row' = [q \in Ops |-> IF q \in Surprised(o)
                                   THEN [row[q] EXCEPT !.status = "RECOVERY_REQUIRED"] ELSE row[q]]
        ELSE UNCHANGED row
     /\ Done(Worker)
     /\ UNCHANGED <<l1, sent, nextNonce, publishes, crashes>>

(* a process dies with what it holds in memory; the worker's successor takes the fence *)
Crash(p) ==
  /\ task[p].pc # "idle" /\ Done(p)
  /\ IF p = Worker THEN crashes < MaxCrashes /\ crashes' = crashes + 1 ELSE UNCHANGED crashes
  /\ UNCHANGED <<l1, sent, db, publishes>>

-----------------------------------------------------------------------------
Init ==
  /\ chain = <<>> /\ final = 0 /\ sent = {}
  /\ row = [o \in Ops |-> NoRow] /\ nextNonce = 0
  /\ task = [p \in Processes |-> Idle]
  /\ reorgs = 0 /\ surprises = 0 /\ publishes = 0 /\ crashes = 0

WorkerStep ==
  \/ Exhaust \/ ReadReceipt \/ MarkFailed \/ MarkIncluded \/ Check
  \/ MarkFinalized \/ Retract \/ RetractFinalized
  \/ Attach(Worker) \/ Broadcast(Worker) \/ MarkBroadcast(Worker)

ApiStep(p) == ReadNonce(p) \/ Reserve(p) \/ Attach(p) \/ Broadcast(p) \/ MarkBroadcast(p)

Next ==
  \/ Mine \/ Finalize \/ Reorg \/ Surprise
  \/ \E p \in Publishers : ApiStep(p) \/ \E o \in Ops : Publish(p, o)
  \/ WorkerStep \/ \E o \in Ops : PickUp(o) \/ Audit(o)
  \/ \E p \in Processes : Crash(p)

Spec == Init /\ [][Next]_vars

(* the worker's timer keeps ticking and visits every row; L1 keeps finalizing *)
FairSpec ==
  /\ Spec
  /\ WF_vars(WorkerStep) /\ WF_vars(Finalize)
  /\ \A o \in Ops : SF_vars(PickUp(o)) /\ SF_vars(Audit(o))
-----------------------------------------------------------------------------
(* What is stored and held is well formed, and the counters are within their bounds. *)
Rows == [status : {"none", "FINALIZED", "FAILED", "RECOVERY_REQUIRED"} \cup Pending,
         nonce : Nat, tx : Txs \cup {NoTx}, height : 0 .. MaxHeight, branch : Nat,
         cost : Nat, attempts : Nat]
Blocks == [branch : Nat, tx : Txs \cup {NoTx}, ok : BOOLEAN, cost : Costs \cup {0}]
Pcs == {"idle", "nonce", "reserve", "sign", "send", "again", "mark", "remark", "exhaust",
        "receipt", "include", "fail", "check", "finalize", "retract", "surprise"}
Tasks == [pc : Pcs, op : Ops \cup {NoTx}, tx : Txs \cup {NoTx}, found : Nat,
          height : 0 .. MaxHeight, branch : Nat]

TypeOK ==
  /\ chain \in Seq(Blocks)
  /\ Len(chain) <= MaxHeight /\ final \in 0 .. Len(chain)
  /\ sent \subseteq Txs /\ row \in [Ops -> Rows] /\ nextNonce \in Nat
  /\ task \in [Processes -> Tasks]
  /\ {reorgs, surprises, publishes, crashes} \subseteq Nat

(* However publishers race, crash, retry or sign again, L1 is never handed two
   transactions with the same nonce: an operation is not executed twice, and no
   operation can displace another (reserveL1Transaction, attachSignedL1Transaction). *)
OneTransactionPerNonce == \A s, t \in sent : Nonce(s) = Nonce(t) => s = t

(* Why that is so: a row keeps the first bytes signed for it, no two rows share a nonce,
   and a process sends nothing but the bytes of its row. *)
RowsAreBound ==
  \A o \in Ops :
    /\ row[o].tx # NoTx => row[o].tx[1] = o /\ row[o].status # "none"
    /\ row[o].status \in {"SIGNED", "BROADCAST", "INCLUDED"} => row[o].tx # NoTx
    /\ row[o].status # "none" => row[o].nonce < nextNonce
    /\ \A q \in Ops : row[o].status # "none" /\ row[q].status # "none" /\ row[o].nonce = row[q].nonce
                        => o = q
TasksAreBound ==
  \A p \in Processes :
    /\ task[p].pc # "idle" => task[p].op \in Ops
    /\ task[p].pc \notin {"idle", "nonce", "reserve"} => row[task[p].op].status # "none"
    /\ task[p].pc \in {"send", "again", "receipt", "check"} =>
         task[p].tx = row[task[p].op].tx /\ task[p].tx # NoTx
SentIsBound == \A t \in sent : row[t[1]].tx = t
NonceInv == TypeOK /\ RowsAreBound /\ TasksAreBound /\ SentIsBound

(* FINALIZED is only said of a transaction that succeeded in a finalized block,
   whatever reorganised while the worker was between its reads and its write
   (watch: the receipt is read again, then the finalized block). *)
FinalIsMined ==
  surprises = 0 => \A o \in Ops : row[o].status = "FINALIZED" =>
    /\ row[o].height \in 1 .. final
    /\ chain[row[o].height].tx = row[o].tx /\ chain[row[o].height].ok

(* The journal keeps the promise of its idempotency keys (OperationLedger). *)
Verdict(o) ==
  CASE row[o].status = "none" -> "none" [] row[o].status \in Pending -> "open"
    [] row[o].status = "FINALIZED" -> "final" [] row[o].status = "FAILED" -> "failed"
    [] row[o].status = "RECOVERY_REQUIRED" -> "recovery"

Ledger == INSTANCE OperationLedger WITH
  Bytes <- Txs, NoBytes <- NoTx,
  verdict <- [o \in Ops |-> Verdict(o)], bound <- [o \in Ops |-> row[o].tx]
ImplementsOperationLedger == Ledger!Spec

(* An operation that has its nonce ends: finalized, failed, or handed to an operator
   when its attempts are used up; lost sends, errors, crashes and reorganisations do
   not leave it pending (processOnce: attempts >= 32). *)
OperationEnds == \A o \in Ops : row[o].status \in Pending ~> row[o].status \notin Pending

(* A finalized block that is rewritten is found by the audit, and its operation
   handed to an operator (nextFinalizedL1AuditBatch). *)
SurpriseIsNoticed ==
  \A o \in Ops :
    (row[o].status = "FINALIZED" /\ row[o].height > 0 /\ ~SameBlock(row[o]))
      ~> row[o].status = "RECOVERY_REQUIRED"

(* A transaction that a reorganisation took out and L1 mined again can be recorded
   again (pool-sponsor-mutation.integration.test.ts, "retracts and rebroadcasts the
   identical archived bytes", then FINALIZED). The code keeps the first receipt's
   cost and refuses the second when its gas price differs. *)
MinedAgainIsIncludable ==
  \A o \in Ops :
    row[o].status = "BROADCAST" /\ Receipt(row[o].tx) # 0
      => row[o].cost \in {0, chain[Receipt(row[o].tx)].cost}
=============================================================================
