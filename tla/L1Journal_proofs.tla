---------------------------- MODULE L1Journal_proofs ----------------------------
(***************************************************************************)
(* The nonces of the L1 operation journal, for any number of operations,   *)
(* publishers, signatures, blocks, reorganisations and crashes.            *)
(***************************************************************************)
EXTENDS L1Journal, FiniteSetTheorems, SequenceTheorems, TLAPS

USE NoTxAssumption, WorkerAssumption, BoundsAssumption

-----------------------------------------------------------------------------
(* What a process holds, typed. *)

LEMMA IdleType == Idle \in Tasks
BY DEF Idle, Tasks, Pcs

LEMMA AtType ==
  ASSUME NEW pc \in Pcs, NEW o \in Ops
  PROVE  /\ At(pc, o) \in Tasks
         /\ At(pc, o).pc = pc /\ At(pc, o).op = o
BY IdleType DEF At, Tasks

LEMMA WithType ==
  ASSUME NEW pc \in Pcs, NEW o \in Ops, NEW t \in Txs \cup {NoTx}
  PROVE  /\ With(pc, o, t) \in Tasks
         /\ With(pc, o, t).pc = pc /\ With(pc, o, t).op = o /\ With(pc, o, t).tx = t
BY AtType DEF With, Tasks

(* Where a row sends the process that read it. *)
LEMMA PlaceType ==
  ASSUME NEW p, NEW o \in Ops, NEW r \in Rows
  PROVE  /\ Place(p, o, r) \in Tasks
         /\ Place(p, o, r).pc # "idle" => Place(p, o, r).op = o
         /\ Place(p, o, r).pc \notin {"idle", "nonce", "reserve"} => r.status # "none"
         /\ Place(p, o, r).pc \in {"send", "again", "receipt", "check"} =>
              /\ Place(p, o, r).tx = r.tx
              /\ r.status \in {"SIGNED", "BROADCAST", "INCLUDED"}
<1> DEFINE c == [With("check", o, r.tx) EXCEPT !.height = r.height, !.branch = r.branch]
<1>1. r.tx \in Txs \cup {NoTx} /\ r.height \in 0 .. MaxHeight /\ r.branch \in Nat
  BY DEF Rows
<1>2. {"nonce", "sign", "send", "receipt", "check", "idle"} \subseteq Pcs
  BY DEF Pcs
<1>3. c \in Tasks /\ c.pc = "check" /\ c.op = o /\ c.tx = r.tx
  BY <1>1, <1>2 DEF With, At, Idle, Tasks
<1>4. CASE r.status = "none"
  BY <1>2, <1>4, AtType DEF Place
<1>5. CASE r.status = "PREPARED"
  BY <1>2, <1>5, AtType DEF Place
<1>6. CASE r.status = "SIGNED"
  BY <1>1, <1>2, <1>6, WithType DEF Place
<1>7. CASE r.status = "BROADCAST" /\ p = Worker
  BY <1>1, <1>2, <1>7, WithType DEF Place
<1>8. CASE r.status = "INCLUDED" /\ p = Worker
  BY <1>3, <1>8 DEF Place
<1>9. CASE Place(p, o, r) = Idle
  BY <1>9, IdleType DEF Idle
<1> QED BY <1>4, <1>5, <1>6, <1>7, <1>8, <1>9 DEF Place

(* What L1 answered, carried to the row. *)
LEMMA BlockType ==
  ASSUME NEW b \in Blocks
  PROVE  b.cost \in Nat /\ b.branch \in Nat
<1>1. \A c \in Costs \cup {0} : c \in Nat
  OBVIOUS
<1>2. b.cost \in Nat
  BY <1>1 DEF Blocks
<1>3. b.branch \in Nat
  BY DEF Blocks
<1> QED BY <1>2, <1>3

LEMMA IncludeType ==
  ASSUME NEW o \in Ops, NEW h \in 0 .. MaxHeight, chain[h] \in Blocks
  PROVE  Seen(o, h) \in Tasks /\ Seen(o, h).pc = "include" /\ Seen(o, h).op = o
<1>1. At("include", o) \in Tasks /\ At("include", o).pc = "include" /\ At("include", o).op = o
  BY AtType DEF Pcs
<1>2. ASSUME NEW c \in Nat, NEW n \in Nat
      PROVE  LET t == [At("include", o) EXCEPT !.found = c, !.height = h, !.branch = n]
             IN t \in Tasks /\ t.pc = "include" /\ t.op = o
  BY <1>1 DEF Tasks
<1>3. chain[h].cost \in Nat /\ chain[h].branch \in Nat
  BY BlockType
<1> QED BY <1>2, <1>3 DEF Seen

(* The rows that the three marks of an operation under way write. *)
LEMMA SentRow ==
  ASSUME NEW r \in Rows
  PROVE  LET q == [r EXCEPT !.status = "BROADCAST", !.attempts = @ + 1]
         IN q \in Rows /\ q.status = "BROADCAST" /\ q.tx = r.tx /\ q.nonce = r.nonce
<1> DEFINE s == "BROADCAST"
<1>1. ASSUME NEW a \in Nat, NEW v \in Pending
      PROVE  [r EXCEPT !.status = v, !.attempts = a] \in Rows
  BY DEF Rows
<1>2. r.attempts + 1 \in Nat /\ s \in Pending
  BY DEF Rows, Pending
<1>3. [r EXCEPT !.status = s, !.attempts = r.attempts + 1] \in Rows
  BY <1>1, <1>2
<1> QED BY <1>3 DEF Rows

LEMMA IncludedRow ==
  ASSUME NEW r \in Rows, NEW t \in Tasks
  PROVE  /\ Included(r, t) \in Rows /\ Included(r, t).status = "INCLUDED"
         /\ Included(r, t).tx = r.tx /\ Included(r, t).nonce = r.nonce
<1> DEFINE m == [r EXCEPT !.status = "INCLUDED"]
<1>1. m \in Rows
  BY DEF Rows, Pending
<1>2. ASSUME NEW k \in Rows, NEW h \in 0 .. MaxHeight, NEW n \in Nat, NEW c \in Nat
      PROVE  [k EXCEPT !.height = h, !.branch = n, !.cost = c] \in Rows
  BY DEF Rows
<1>3. t.height \in 0 .. MaxHeight /\ t.branch \in Nat /\ t.found \in Nat
  BY DEF Tasks
<1>4. [m EXCEPT !.height = t.height, !.branch = t.branch, !.cost = t.found] = Included(r, t)
  BY DEF Rows, Included
<1>5. Included(r, t) \in Rows
  <2>1. [m EXCEPT !.height = t.height, !.branch = t.branch, !.cost = t.found] \in Rows
    <3> HIDE DEF m
    <3> QED BY <1>1, <1>2, <1>3
  <2> QED BY <2>1, <1>4
<1> QED BY <1>5 DEF Rows, Included

LEMMA RetractedRow ==
  ASSUME NEW r \in Rows
  PROVE  LET q == [r EXCEPT !.status = "BROADCAST", !.height = 0, !.branch = 0]
         IN q \in Rows /\ q.status = "BROADCAST" /\ q.tx = r.tx /\ q.nonce = r.nonce
<1>1. ASSUME NEW h \in 0 .. MaxHeight, NEW n \in Nat, NEW v \in Pending
      PROVE  [r EXCEPT !.status = v, !.height = h, !.branch = n] \in Rows
  BY DEF Rows
<1>2. 0 \in 0 .. MaxHeight /\ 0 \in Nat /\ "BROADCAST" \in Pending
  BY DEF Pending
<1>3. [r EXCEPT !.status = "BROADCAST", !.height = 0, !.branch = 0] \in Rows
  BY <1>1, <1>2
<1> QED BY <1>3 DEF Rows

-----------------------------------------------------------------------------
(* L1's counters are numbers. *)

LEMMA AccountNonceType ==
  ASSUME chain \in Seq(Blocks)
  PROVE  AccountNonce \in Nat
<1>1. IsFiniteSet(1 .. Len(chain))
  BY FS_Interval
<1>2. {h \in DOMAIN chain : chain[h].tx # NoTx} \subseteq 1 .. Len(chain)
  OBVIOUS
<1> QED BY <1>1, <1>2, FS_Subset, FS_CardinalityType DEF AccountNonce

-----------------------------------------------------------------------------
(* What almost every step leaves of a row: its nonce, and the bytes once signed. *)

Keeps(o, r, q) ==
  /\ q \in Rows
  /\ (q.status = "none") = (r.status = "none")
  /\ r.status # "none" => q.nonce = r.nonce
  /\ r.tx # NoTx => q.tx = r.tx
  /\ q.tx # NoTx => q.tx[1] = o /\ q.status # "none"
  /\ q.status \in {"SIGNED", "BROADCAST", "INCLUDED"} => q.tx # NoTx

RowsKept == row' \in [Ops -> Rows] /\ \A o \in Ops : Keeps(o, row[o], row'[o])

LEMMA KeptSame ==
  ASSUME NonceInv
  PROVE  /\ \A o \in Ops : row[o] \in Rows /\ Keeps(o, row[o], row[o])
         /\ row' = row => RowsKept
BY DEF NonceInv, TypeOK, RowsAreBound, Keeps, RowsKept

LEMMA KeptWrite ==
  ASSUME NonceInv, NEW o \in Ops, NEW r, Keeps(o, row[o], r), Write(o, r)
  PROVE  RowsKept /\ row'[o] = r
BY KeptSame DEF RowsKept, Keeps, Write, NonceInv, TypeOK

LEMMA KeptBinding ==
  ASSUME NonceInv, RowsKept, nextNonce' = nextNonce
  PROVE  /\ RowsAreBound'
         /\ \A t \in sent : row'[t[1]].tx = t
<1>1. RowsAreBound'
  <2> SUFFICES ASSUME NEW o \in Ops
               PROVE  /\ row'[o].tx # NoTx => row'[o].tx[1] = o /\ row'[o].status # "none"
                      /\ row'[o].status \in {"SIGNED", "BROADCAST", "INCLUDED"} => row'[o].tx # NoTx
                      /\ row'[o].status # "none" => row'[o].nonce < nextNonce'
                      /\ \A q \in Ops : row'[o].status # "none" /\ row'[q].status # "none"
                                          /\ row'[o].nonce = row'[q].nonce => o = q
    BY DEF RowsAreBound
  <2> QED BY DEF NonceInv, RowsAreBound, RowsKept, Keeps
<1>2. \A t \in sent : row'[t[1]].tx = t
  <2> SUFFICES ASSUME NEW t \in sent
               PROVE  row'[t[1]].tx = t
    OBVIOUS
  <2>1. t \in Txs /\ t[1] \in Ops /\ t # NoTx
    BY DEF NonceInv, TypeOK, Txs
  <2> QED BY <2>1 DEF NonceInv, SentIsBound, RowsKept, Keeps
<1> QED BY <1>1, <1>2

(* Another process's task stays bound when rows only grow. *)
Held(t, rows) ==
  /\ t.pc # "idle" => t.op \in Ops
  /\ t.pc \notin {"idle", "nonce", "reserve"} => rows[t.op].status # "none"
  /\ t.pc \in {"send", "again", "receipt", "check"} => t.tx = rows[t.op].tx /\ t.tx # NoTx

LEMMA HeldKept ==
  ASSUME NonceInv, NEW t, Held(t, row),
         \A o \in Ops : row[o].status # "none" => row'[o].status # "none",
         \A o \in Ops : row[o].tx # NoTx => row'[o].tx = row[o].tx
  PROVE  Held(t, row')
BY DEF Held

LEMMA HeldIdle == \A rows : Held(Idle, rows)
BY DEF Held, Idle

LEMMA TasksHeld ==
  ASSUME TasksAreBound
  PROVE  \A p \in Processes : Held(task[p], row)
BY DEF TasksAreBound, Held

(* One process's step over kept rows: enough for most actions. *)
LEMMA KeptStep ==
  ASSUME NonceInv, NEW p \in Processes, NEW t \in Tasks, Step(p, t),
         RowsKept, Held(t, row'), UNCHANGED <<l1, nextNonce>>, sent' \subseteq Txs,
         \A s \in sent' \ sent : row'[s[1]].tx = s, {publishes', crashes'} \subseteq Nat
  PROVE  NonceInv'
<1>1. TypeOK'
  BY DEF NonceInv, TypeOK, RowsKept, Step, l1
<1>2. RowsAreBound' /\ SentIsBound'
  BY KeptBinding DEF SentIsBound
<1>3. TasksAreBound'
  <2> SUFFICES ASSUME NEW q \in Processes
               PROVE  Held(task'[q], row')
    BY DEF TasksAreBound, Held
  <2>1. CASE q = p
    BY <2>1 DEF Step, NonceInv, TypeOK
  <2>2. CASE q # p
    <3>1. task'[q] = task[q]
      BY <2>2 DEF Step, NonceInv, TypeOK
    <3>2. Held(task[q], row)
      BY TasksHeld DEF NonceInv
    <3>3. /\ \A o \in Ops : row[o].status # "none" => row'[o].status # "none"
          /\ \A o \in Ops : row[o].tx # NoTx => row'[o].tx = row[o].tx
      BY DEF RowsKept, Keeps
    <3> QED BY <3>1, <3>2, <3>3, HeldKept
  <2> QED BY <2>1, <2>2
<1> QED BY <1>1, <1>2, <1>3 DEF NonceInv

-----------------------------------------------------------------------------
(* The steps of one process. *)

(* Reading a row, at any time, puts the process where the row is bound. *)
LEMMA ResumeHeld ==
  ASSUME NEW p, NEW o \in Ops, NEW r, NEW rows, rows[o] = r, r \in Rows,
         r.status \in {"SIGNED", "BROADCAST", "INCLUDED"} => r.tx # NoTx
  PROVE  Place(p, o, r) \in Tasks /\ Held(Place(p, o, r), rows)
BY PlaceType DEF Held

LEMMA BoundRow ==
  ASSUME NonceInv, NEW p \in Processes, task[p].pc # "idle"
  PROVE  /\ task[p].op \in Ops
         /\ row[task[p].op] \in Rows
         /\ row[task[p].op].status \in {"SIGNED", "BROADCAST", "INCLUDED"} => row[task[p].op].tx # NoTx
         /\ task[p] \in Tasks
BY DEF NonceInv, TypeOK, TasksAreBound, RowsAreBound

LEMMA FailKept ==
  ASSUME NonceInv, NEW p \in Processes, task[p].pc # "idle", Fail(p)
  PROVE  /\ RowsKept /\ nextNonce' = nextNonce
         /\ Step(p, Idle) /\ Idle \in Tasks /\ Held(Idle, row')
<1> DEFINE o == task[p].op
<1>1. o \in Ops
  BY BoundRow
<1>2. RowsKept
  <2>1. CASE Write(o, Retried(row[o]))
    <3>1. Keeps(o, row[o], row[o]) /\ row[o] \in Rows
      BY <1>1, KeptSame
    <3>2. Keeps(o, row[o], Retried(row[o]))
      <4> DEFINE r == row[o]
                 q == Retried(r)
      <4>1. q \in Rows /\ q.status = r.status /\ q.nonce = r.nonce /\ q.tx = r.tx
        BY <3>1 DEF Retried, Rows
      <4> HIDE DEF q, r
      <4>2. Keeps(o, r, r) => Keeps(o, r, q)
        BY <4>1 DEF Keeps
      <4> QED BY <3>1, <4>2 DEF q, r
    <3> QED BY <1>1, <2>1, <3>2, KeptWrite
  <2>2. CASE row' = row
    BY <2>2, KeptSame
  <2> QED BY <2>1, <2>2 DEF Fail
<1> QED BY <1>2, IdleType, HeldIdle DEF Fail, Done

LEMMA AttachStep ==
  ASSUME NonceInv, NEW p \in Processes, Attach(p)
  PROVE  NonceInv'
<1> DEFINE o == task[p].op
           r == row[o]
<1>1. o \in Ops /\ r \in Rows /\ r.status # "none"
  BY BoundRow DEF Attach, NonceInv, TasksAreBound
<1>2. UNCHANGED <<l1, sent, publishes, crashes>> /\ task[p].pc # "idle"
  BY DEF Attach
<1>3. CASE Fail(p)
  BY <1>2, <1>3, FailKept, KeptStep DEF l1, NonceInv, TypeOK
<1>4. CASE Resume(p, o, r) /\ UNCHANGED db
  <2>1. RowsKept /\ row'[o] = r
    BY <1>4, KeptSame DEF db
  <2>2. Place(p, o, r) \in Tasks /\ Held(Place(p, o, r), row')
    BY <1>1, <2>1, ResumeHeld, BoundRow, <1>2
  <2> QED BY <1>2, <1>4, <2>1, <2>2, KeptStep DEF Resume, db, l1, NonceInv, TypeOK
<1>5. ASSUME NEW s \in Sigs, r.tx = NoTx, r.status = "PREPARED",
             Write(o, [r EXCEPT !.tx = <<o, s>>, !.status = "SIGNED"]),
             Resume(p, o, [r EXCEPT !.tx = <<o, s>>, !.status = "SIGNED"]),
             UNCHANGED nextNonce
      PROVE  NonceInv'
  <2> DEFINE q == [r EXCEPT !.tx = <<o, s>>, !.status = "SIGNED"]
  <2>1. <<o, s>> \in Txs /\ <<o, s>> # NoTx /\ <<o, s>>[1] = o
    BY <1>1 DEF Txs
  <2>2. q \in Rows /\ q.tx = <<o, s>> /\ q.status = "SIGNED" /\ q.nonce = r.nonce
    BY <1>1, <2>1 DEF Rows, Pending
  <2>3. Keeps(o, r, q)
    BY <1>5, <2>1, <2>2 DEF Keeps
  <2>4. RowsKept /\ row'[o] = q
    BY <1>1, <1>5, <2>3, KeptWrite
  <2>5. Place(p, o, q) \in Tasks /\ Held(Place(p, o, q), row')
    BY <1>1, <2>1, <2>2, <2>4, ResumeHeld
  <2> QED BY <1>2, <1>5, <2>4, <2>5, KeptStep DEF Resume, l1, NonceInv, TypeOK
<1> QED BY <1>3, <1>4, <1>5 DEF Attach, Signed

LEMMA BroadcastStep ==
  ASSUME NonceInv, NEW p \in Processes, Broadcast(p)
  PROVE  NonceInv'
<1> DEFINE t == task[p].tx
           o == task[p].op
<1>1. o \in Ops /\ task[p].pc # "idle" /\ row[o].status # "none" /\ t = row[o].tx /\ t # NoTx
  BY DEF Broadcast, NonceInv, TasksAreBound
<1>2. t \in Txs /\ t[1] = o
  BY <1>1, KeptSame DEF Keeps, Rows
<1>3. UNCHANGED <<l1, publishes, crashes>> /\ sent' \subseteq Txs
  BY <1>2 DEF Broadcast, NonceInv, TypeOK
<1>4. RowsKept => \A s \in sent' \ sent : row'[s[1]].tx = s
  <2>1. \A s \in sent' \ sent : s = t
    BY DEF Broadcast
  <2>2. RowsKept => row'[o].tx = t
    <3>1. RowsKept => Keeps(o, row[o], row'[o])
      BY <1>1 DEF RowsKept
    <3> QED BY <1>1, <3>1 DEF Keeps
  <2> QED BY <1>2, <2>1, <2>2
<1>5. CASE Fail(p)
  BY <1>1, <1>3, <1>4, <1>5, FailKept, KeptStep DEF l1, NonceInv, TypeOK
<1>6. ASSUME NEW pc \in {"mark", "remark"}, Step(p, At(pc, o)), UNCHANGED db
      PROVE  NonceInv'
  <2>1. RowsKept /\ row' = row /\ nextNonce' = nextNonce
    BY <1>6, KeptSame DEF db
  <2>2. At(pc, o) \in Tasks /\ Held(At(pc, o), row')
    BY <1>1, <1>6, <2>1, AtType DEF Pcs, Held
  <2> QED BY <1>3, <1>4, <1>6, <2>1, <2>2, KeptStep DEF l1, NonceInv, TypeOK
<1> QED BY <1>5, <1>6 DEF Broadcast

LEMMA MarkBroadcastStep ==
  ASSUME NonceInv, NEW p \in Processes, MarkBroadcast(p)
  PROVE  NonceInv'
<1> DEFINE o == task[p].op
           r == [row[o] EXCEPT !.status = "BROADCAST", !.attempts = @ + 1]
<1>1. task[p].pc # "idle" /\ o \in Ops /\ row[o] \in Rows
  BY BoundRow DEF MarkBroadcast
<1>2. UNCHANGED <<l1, sent, publishes, crashes>>
  BY DEF MarkBroadcast
<1>3. CASE Fail(p)
  BY <1>1, <1>2, <1>3, FailKept, KeptStep DEF l1, NonceInv, TypeOK
<1>4. CASE /\ Broadcastable(row[o]) /\ Write(o, r) /\ UNCHANGED nextNonce
           /\ Resume(p, o, r) \/ Done(p)
  <2>1. r \in Rows /\ r.tx # NoTx /\ r.status = "BROADCAST"
    <3>1. row[o].tx # NoTx
      BY <1>1, <1>4, BoundRow DEF Broadcastable
    <3> QED BY <1>1, <3>1, SentRow
  <2>2. Keeps(o, row[o], r)
    BY <1>1, <1>4, <2>1, KeptSame, SentRow DEF Keeps, Broadcastable
  <2>3. RowsKept /\ row'[o] = r
    BY <1>1, <1>4, <2>2, KeptWrite
  <2>4. Place(p, o, r) \in Tasks /\ Held(Place(p, o, r), row')
    BY <1>1, <2>1, <2>3, ResumeHeld
  <2> QED BY <1>2, <1>4, <2>3, <2>4, IdleType, HeldIdle, KeptStep DEF Resume, Done, l1, NonceInv, TypeOK
<1> QED BY <1>3, <1>4 DEF MarkBroadcast

(* Every other step of the worker either writes one row and goes on, or reports. *)
LEMMA WorkerWrites ==
  ASSUME NonceInv, NEW r, NEW t \in Tasks, task[Worker].pc # "idle",
         Keeps(task[Worker].op, row[task[Worker].op], r), Write(task[Worker].op, r),
         Step(Worker, t), Held(t, [row EXCEPT ![task[Worker].op] = r]),
         UNCHANGED <<l1, sent, nextNonce, publishes, crashes>>
  PROVE  NonceInv'
<1>1. Worker \in Processes
  BY DEF Processes
<1>2. RowsKept /\ Held(t, row')
  BY <1>1, BoundRow, KeptWrite DEF Write
<1> QED BY <1>1, <1>2, KeptStep DEF l1, NonceInv, TypeOK

LEMMA WorkerReads ==
  ASSUME NonceInv, NEW t \in Tasks, Step(Worker, t), Held(t, row),
         UNCHANGED <<l1, sent, db, publishes, crashes>>
  PROVE  NonceInv'
<1>1. Worker \in Processes
  BY DEF Processes
<1>2. RowsKept /\ row' = row
  BY KeptSame DEF db
<1> QED BY <1>1, <1>2, KeptStep DEF db, l1, NonceInv, TypeOK

LEMMA WorkerFails ==
  ASSUME NonceInv, task[Worker].pc # "idle", Fail(Worker),
         UNCHANGED <<l1, sent, publishes, crashes>>
  PROVE  NonceInv'
<1>1. Worker \in Processes
  BY DEF Processes
<1> QED BY <1>1, FailKept, KeptStep DEF l1, NonceInv, TypeOK

(* What the worker knows of the row it is working on. *)
LEMMA WorkersRow ==
  ASSUME NonceInv, task[Worker].pc \notin {"idle", "nonce", "reserve"}
  PROVE  /\ task[Worker] \in Tasks /\ task[Worker].op \in Ops
         /\ row[task[Worker].op] \in Rows /\ row[task[Worker].op].status # "none"
         /\ Keeps(task[Worker].op, row[task[Worker].op], row[task[Worker].op])
         /\ Held(task[Worker], row)
<1>1. Worker \in Processes
  BY DEF Processes
<1> QED BY <1>1, BoundRow, KeptSame, TasksHeld DEF NonceInv, TasksAreBound

(* A new verdict of a row keeps the rest of it. *)
LEMMA VerdictKeeps ==
  ASSUME NEW o, NEW r \in Rows, Keeps(o, r, r), r.status # "none",
         NEW v \in {"FINALIZED", "FAILED", "RECOVERY_REQUIRED"}
  PROVE  Keeps(o, r, [r EXCEPT !.status = v])
BY DEF Keeps, Rows

LEMMA VerdictStep ==
  ASSUME NonceInv, task[Worker].pc \notin {"idle", "nonce", "reserve"},
         NEW v \in {"FINALIZED", "FAILED", "RECOVERY_REQUIRED"},
         Write(task[Worker].op, [row[task[Worker].op] EXCEPT !.status = v]),
         Done(Worker), UNCHANGED <<l1, sent, nextNonce, publishes, crashes>>
  PROVE  NonceInv'
BY WorkersRow, VerdictKeeps, WorkerWrites, IdleType, HeldIdle DEF Done

LEMMA ReadReceiptStep == ASSUME NonceInv, ReadReceipt PROVE NonceInv'
<1> DEFINE o == task[Worker].op
           h == Receipt(task[Worker].tx)
           b == Seen(o, h)
<1>1. /\ task[Worker].pc = "receipt" /\ UNCHANGED <<l1, sent, publishes, crashes>>
      /\ o \in Ops /\ row[o].status # "none" /\ task[Worker] \in Tasks /\ Held(task[Worker], row)
  BY WorkersRow DEF ReadReceipt
<1>2. CASE Fail(Worker)
  BY <1>1, <1>2, WorkerFails
<1>3. CASE Step(Worker, [task[Worker] EXCEPT !.pc = "again"]) /\ UNCHANGED db
  <2>1. [task[Worker] EXCEPT !.pc = "again"] \in Tasks
    BY <1>1 DEF Tasks, Pcs
  <2>2. Held([task[Worker] EXCEPT !.pc = "again"], row)
    BY <1>1 DEF Held, Tasks
  <2> QED BY <1>1, <1>3, <2>1, <2>2, WorkerReads
<1>4. CASE Step(Worker, At("fail", o)) /\ UNCHANGED db
  <2>1. At("fail", o) \in Tasks /\ Held(At("fail", o), row)
    BY <1>1, AtType DEF Held, Pcs
  <2> QED BY <1>1, <1>4, <2>1, WorkerReads
<1>5. CASE h # 0 /\ Step(Worker, b) /\ UNCHANGED db
  <2>1. h \in DOMAIN chain
    BY <1>5 DEF Receipt, Mined
  <2>2. h \in 0 .. MaxHeight /\ chain[h] \in Blocks
    BY <2>1 DEF NonceInv, TypeOK
  <2>5. b \in Tasks /\ b.pc = "include" /\ b.op = o
    BY <1>1, <2>2, IncludeType
  <2>6. Held(b, row)
    BY <1>1, <2>5 DEF Held
  <2> QED BY <1>1, <1>5, <2>5, <2>6, WorkerReads
<1> QED BY <1>2, <1>3, <1>4, <1>5 DEF ReadReceipt

LEMMA MarkIncludedStep == ASSUME NonceInv, MarkIncluded PROVE NonceInv'
<1> DEFINE o == task[Worker].op
           r == Included(row[o], task[Worker])
<1>1. /\ task[Worker].pc = "include" /\ UNCHANGED <<l1, sent, publishes, crashes>>
      /\ o \in Ops /\ row[o] \in Rows /\ row[o].status # "none" /\ task[Worker] \in Tasks
      /\ Keeps(o, row[o], row[o])
  BY WorkersRow DEF MarkIncluded
<1>2. CASE Fail(Worker)
  BY <1>1, <1>2, WorkerFails
<1>3. CASE /\ row[o].status \in {"BROADCAST", "INCLUDED"} /\ row[o].cost \in {0, task[Worker].found}
           /\ Write(o, r) /\ Resume(Worker, o, r) /\ UNCHANGED nextNonce
  <2>1. r \in Rows /\ r.status = "INCLUDED" /\ r.tx = row[o].tx /\ r.nonce = row[o].nonce
    BY <1>1, IncludedRow
  <2>2. Keeps(o, row[o], r)
    BY <1>1, <1>3, <2>1 DEF Keeps
  <2>3. r = [row EXCEPT ![o] = r][o]
    BY <1>1 DEF NonceInv, TypeOK
  <2>4. Place(Worker, o, r) \in Tasks /\ Held(Place(Worker, o, r), [row EXCEPT ![o] = r])
    BY <1>1, <2>1, <2>2, <2>3, ResumeHeld DEF Keeps
  <2> QED BY <1>1, <1>3, <2>2, <2>4, WorkerWrites DEF Resume
<1> QED BY <1>2, <1>3 DEF MarkIncluded

LEMMA RetractStep == ASSUME NonceInv, Retract PROVE NonceInv'
<1> DEFINE o == task[Worker].op
           r == [row[o] EXCEPT !.status = "BROADCAST", !.height = 0, !.branch = 0]
<1>1. /\ task[Worker].pc = "retract" /\ UNCHANGED <<l1, sent, publishes, crashes>>
      /\ o \in Ops /\ row[o] \in Rows /\ row[o].status # "none" /\ task[Worker] \in Tasks
      /\ Keeps(o, row[o], row[o])
  BY WorkersRow DEF Retract
<1>2. CASE Fail(Worker)
  BY <1>1, <1>2, WorkerFails
<1>3. CASE /\ row[o].status = "INCLUDED" /\ Write(o, r)
           /\ Step(Worker, With("again", o, r.tx)) /\ UNCHANGED nextNonce
  <2>1. r \in Rows /\ r.status = "BROADCAST" /\ r.tx = row[o].tx /\ r.nonce = row[o].nonce
    BY <1>1, RetractedRow
  <2>2. Keeps(o, row[o], r) /\ r.tx # NoTx /\ r.tx \in Txs
    BY <1>1, <1>3, <2>1 DEF Keeps, Rows
  <2>3. r = [row EXCEPT ![o] = r][o]
    BY <1>1 DEF NonceInv, TypeOK
  <2> HIDE DEF r
  <2>4. With("again", o, r.tx) \in Tasks /\ Held(With("again", o, r.tx), [row EXCEPT ![o] = r])
    <3>1. o \in Ops /\ r.tx \in Txs \cup {NoTx} /\ "again" \in Pcs
      BY <1>1, <2>2 DEF Pcs
    <3> DEFINE t == With("again", o, r.tx)
    <3>2. t \in Tasks /\ t.pc = "again" /\ t.op = o /\ t.tx = r.tx
      BY <3>1, WithType
    <3>3. [row EXCEPT ![o] = r][o].status # "none" /\ [row EXCEPT ![o] = r][o].tx = r.tx /\ r.tx # NoTx
      BY <1>1, <2>1, <2>2, <2>3 DEF Keeps
    <3> HIDE DEF t, r, o
    <3>4. Held(t, [row EXCEPT ![o] = r])
      BY <3>1, <3>2, <3>3 DEF Held
    <3> QED BY <3>2, <3>4 DEF t
  <2> USE DEF r
  <2> QED BY <1>1, <1>3, <2>2, <2>4, WorkerWrites
<1> QED BY <1>2, <1>3 DEF Retract

LEMMA CheckStep == ASSUME NonceInv, Check PROVE NonceInv'
<1> DEFINE o == task[Worker].op
<1>1. /\ task[Worker].pc = "check" /\ UNCHANGED <<l1, sent, publishes, crashes>>
      /\ o \in Ops /\ row[o].status # "none"
  BY WorkersRow DEF Check
<1>2. CASE Fail(Worker)
  BY <1>1, <1>2, WorkerFails
<1>3. CASE Done(Worker) /\ UNCHANGED db
  BY <1>1, <1>3, WorkerReads, IdleType, HeldIdle DEF Done
<1>4. ASSUME NEW pc \in {"retract", "finalize"}, Step(Worker, At(pc, o)), UNCHANGED db
      PROVE  NonceInv'
  <2>1. At(pc, o) \in Tasks /\ Held(At(pc, o), row)
    BY <1>1, AtType DEF Held, Pcs
  <2> QED BY <1>1, <1>4, <2>1, WorkerReads
<1> QED BY <1>2, <1>3, <1>4 DEF Check

LEMMA RetractFinalizedStep == ASSUME NonceInv, RetractFinalized PROVE NonceInv'
<1> DEFINE o == task[Worker].op
<1>1. Worker \in Processes
  BY DEF Processes
<1>2. RowsKept
  <2>1. CASE row' = row
    BY <2>1, KeptSame
  <2>2. CASE row' = [q \in Ops |-> IF q \in Surprised(o)
                                   THEN [row[q] EXCEPT !.status = "RECOVERY_REQUIRED"] ELSE row[q]]
    <3>1. ASSUME NEW q \in Ops
          PROVE  row'[q] \in Rows /\ Keeps(q, row[q], row'[q])
      <4>1. row[q] \in Rows /\ Keeps(q, row[q], row[q])
        BY KeptSame
      <4>2. CASE q \in Surprised(o)
        <5>1. row[q].status = "FINALIZED"
          BY <4>2 DEF Surprised
        <5>2. Keeps(q, row[q], [row[q] EXCEPT !.status = "RECOVERY_REQUIRED"])
          BY <4>1, <5>1, VerdictKeeps
        <5> QED BY <2>2, <4>2, <5>2 DEF Keeps
      <4>3. CASE q \notin Surprised(o)
        BY <2>2, <4>1, <4>3
      <4> QED BY <4>2, <4>3
    <3>2. row' = [q \in Ops |-> row'[q]]
      BY <2>2
    <3> QED BY <3>1, <3>2 DEF RowsKept
  <2> QED BY <2>1, <2>2 DEF RetractFinalized
<1> QED BY <1>1, <1>2, KeptStep, IdleType, HeldIdle DEF RetractFinalized, Done, l1, NonceInv, TypeOK

LEMMA WorkerStepInv == ASSUME NonceInv, WorkerStep PROVE NonceInv'
<1> DEFINE o == task[Worker].op
<1>1. CASE Exhaust
  <2>1. task[Worker].pc = "exhaust" /\ UNCHANGED <<l1, sent, publishes, crashes>>
    BY <1>1 DEF Exhaust
  <2>2. CASE Fail(Worker)
    BY <2>1, <2>2, WorkerFails
  <2>3. CASE /\ Write(o, [row[o] EXCEPT !.status = "RECOVERY_REQUIRED"])
             /\ Done(Worker) /\ UNCHANGED nextNonce
    BY <2>1, <2>3, VerdictStep
  <2> QED BY <1>1, <2>2, <2>3 DEF Exhaust
<1>2. CASE MarkFailed
  <2>1. task[Worker].pc = "fail" /\ UNCHANGED <<l1, sent, publishes, crashes>>
    BY <1>2 DEF MarkFailed
  <2>2. CASE Fail(Worker)
    BY <2>1, <2>2, WorkerFails
  <2>3. CASE /\ Write(o, [row[o] EXCEPT !.status = "FAILED"])
             /\ Done(Worker) /\ UNCHANGED nextNonce
    BY <2>1, <2>3, VerdictStep
  <2> QED BY <1>2, <2>2, <2>3 DEF MarkFailed
<1>3. CASE MarkFinalized
  <2>1. task[Worker].pc = "finalize" /\ UNCHANGED <<l1, sent, publishes, crashes>>
    BY <1>3 DEF MarkFinalized
  <2>2. CASE Fail(Worker)
    BY <2>1, <2>2, WorkerFails
  <2>3. CASE /\ Write(o, [row[o] EXCEPT !.status = "FINALIZED"])
             /\ Done(Worker) /\ UNCHANGED nextNonce
    BY <2>1, <2>3, VerdictStep
  <2> QED BY <1>3, <2>2, <2>3 DEF MarkFinalized
<1>4. Worker \in Processes
  BY DEF Processes
<1> QED BY <1>1, <1>2, <1>3, <1>4, ReadReceiptStep, MarkIncludedStep, CheckStep, RetractStep,
           RetractFinalizedStep, AttachStep, BroadcastStep, MarkBroadcastStep DEF WorkerStep

(* A process that starts or goes on from a row, and one that dies. *)
LEMMA PickUpStep == ASSUME NonceInv, NEW o \in Ops, PickUp(o) PROVE NonceInv'
<1>1. row[o] \in Rows /\ row[o].status # "none" /\ Keeps(o, row[o], row[o])
      /\ UNCHANGED <<l1, sent, db, publishes, crashes>>
  BY KeptSame DEF PickUp, Pending
<1>2. CASE Step(Worker, At("exhaust", o))
  <2>1. At("exhaust", o) \in Tasks /\ Held(At("exhaust", o), row)
    BY <1>1, AtType DEF Held, Pcs
  <2> QED BY <1>1, <1>2, <2>1, WorkerReads
<1>3. CASE Resume(Worker, o, row[o])
  <2>1. Place(Worker, o, row[o]) \in Tasks /\ Held(Place(Worker, o, row[o]), row)
    BY <1>1, ResumeHeld DEF Keeps
  <2> QED BY <1>1, <1>3, <2>1, WorkerReads DEF Resume
<1> QED BY <1>2, <1>3 DEF PickUp

LEMMA AuditStep == ASSUME NonceInv, NEW o \in Ops, Audit(o) PROVE NonceInv'
<1>1. At("surprise", o) \in Tasks /\ Held(At("surprise", o), row)
  BY AtType DEF Audit, Held, Pcs
<1> QED BY <1>1, WorkerReads DEF Audit

LEMMA CrashStep == ASSUME NonceInv, NEW p \in Processes, Crash(p) PROVE NonceInv'
<1>1. RowsKept /\ row' = row /\ nextNonce' = nextNonce /\ sent' = sent
  BY KeptSame DEF Crash, db
<1>2. {publishes', crashes'} \subseteq Nat /\ UNCHANGED l1
  BY DEF Crash, NonceInv, TypeOK
<1> QED BY <1>1, <1>2, KeptStep, IdleType, HeldIdle DEF Crash, Done, NonceInv, TypeOK

LEMMA PublishStep ==
  ASSUME NonceInv, NEW p \in Publishers, NEW o \in Ops, Publish(p, o)
  PROVE  NonceInv'
<1>1. p \in Processes /\ row[o] \in Rows /\ Keeps(o, row[o], row[o])
  BY KeptSame DEF Processes
<1>2. RowsKept /\ row' = row /\ UNCHANGED <<l1, sent, nextNonce, crashes>>
  BY KeptSame DEF Publish, db
<1>3. {publishes', crashes'} \subseteq Nat
  BY <1>2 DEF Publish, NonceInv, TypeOK
<1>4. Place(p, o, row[o]) \in Tasks /\ Held(Place(p, o, row[o]), row')
  BY <1>1, <1>2, ResumeHeld DEF Keeps
<1> QED BY <1>1, <1>2, <1>3, <1>4, KeptStep DEF Publish, Resume, NonceInv, TypeOK

LEMMA ReadNonceStep ==
  ASSUME NonceInv, NEW p \in Publishers, ReadNonce(p)
  PROVE  NonceInv'
<1> DEFINE o == task[p].op
<1>1. p \in Processes /\ task[p].pc = "nonce" /\ o \in Ops
  BY BoundRow DEF Processes, ReadNonce
<1>2. PICK n \in AccountNonce .. Cardinality(sent) : Step(p, [At("reserve", o) EXCEPT !.found = n])
  BY DEF ReadNonce
<1>3. n \in Nat
  BY AccountNonceType DEF NonceInv, TypeOK
<1> DEFINE t == [At("reserve", o) EXCEPT !.found = n]
<1>4. At("reserve", o) \in Tasks /\ At("reserve", o).pc = "reserve" /\ At("reserve", o).op = o
  BY <1>1, AtType DEF Pcs
<1>5. t \in Tasks /\ t.pc = "reserve" /\ t.op = o
  BY <1>3, <1>4 DEF Tasks
<1>6. Held(t, row)
  BY <1>1, <1>5 DEF Held
<1>7. RowsKept /\ row' = row /\ UNCHANGED <<l1, sent, nextNonce, publishes, crashes>>
  BY KeptSame DEF ReadNonce, db
<1> QED BY <1>1, <1>2, <1>5, <1>6, <1>7, KeptStep DEF NonceInv, TypeOK

LEMMA NoRowType == NoRow \in Rows /\ NoRow.tx = NoTx /\ NoRow.status = "none"
BY DEF NoRow, Rows

LEMMA ReservedRow ==
  ASSUME NEW n \in Nat
  PROVE  LET r == [NoRow EXCEPT !.status = "PREPARED", !.nonce = n]
         IN r \in Rows /\ r.status = "PREPARED" /\ r.tx = NoTx /\ r.nonce = n
<1>1. ASSUME NEW k \in Rows, NEW v \in Pending
      PROVE  [k EXCEPT !.status = v, !.nonce = n] \in Rows
  BY DEF Rows
<1>2. [NoRow EXCEPT !.status = "PREPARED", !.nonce = n] \in Rows
  BY <1>1, NoRowType DEF Pending
<1> QED BY <1>2, NoRowType DEF NoRow

(* The one step that gives a nonce away. *)
LEMMA ReserveStep ==
  ASSUME NonceInv, NEW p \in Publishers, Reserve(p)
  PROVE  NonceInv'
<1> DEFINE o == task[p].op
           n == ReservedNonce(task[p].found)
           r == [NoRow EXCEPT !.status = "PREPARED", !.nonce = n]
<1>1. p \in Processes /\ task[p].pc = "reserve" /\ o \in Ops /\ task[p] \in Tasks
      /\ UNCHANGED <<l1, sent, publishes, crashes>>
  BY BoundRow DEF Processes, Reserve
<1>2. CASE row[o].status # "none" /\ (Resume(p, o, row[o]) \/ Done(p)) /\ UNCHANGED db
  <2>1. RowsKept /\ row' = row /\ nextNonce' = nextNonce
    BY <1>2, KeptSame DEF db
  <2>2. row[o] \in Rows /\ Keeps(o, row[o], row[o])
    BY <1>1, KeptSame
  <2>3. Place(p, o, row[o]) \in Tasks /\ Held(Place(p, o, row[o]), row')
    BY <1>1, <2>1, <2>2, ResumeHeld DEF Keeps
  <2>4. sent' \subseteq Txs /\ sent' \ sent = {} /\ {publishes', crashes'} \subseteq Nat /\ UNCHANGED <<l1, nextNonce>>
    BY <1>1, <2>1 DEF NonceInv, TypeOK
  <2>5. CASE Resume(p, o, row[o])
    BY <1>1, <2>1, <2>3, <2>4, <2>5, KeptStep DEF Resume
  <2>6. CASE Done(p)
    BY <1>1, <2>1, <2>4, <2>6, IdleType, HeldIdle, KeptStep DEF Done
  <2> QED BY <1>2, <2>5, <2>6
<1>3. CASE /\ row[o].status = "none" /\ Write(o, r) /\ nextNonce' = n + 1 /\ Resume(p, o, r)
  <2>1. n \in Nat /\ nextNonce \in Nat /\ nextNonce <= n
    BY <1>1 DEF ReservedNonce, NonceInv, TypeOK, Tasks
  <2>2. r \in Rows /\ r.status = "PREPARED" /\ r.tx = NoTx /\ r.nonce = n
    <3> HIDE DEF n
    <3> QED BY <2>1, ReservedRow
  <2>3. /\ row' \in [Ops -> Rows] /\ row'[o] = r
        /\ \A q \in Ops \ {o} : row'[q] = row[q]
    BY <1>1, <1>3, <2>2 DEF Write, NonceInv, TypeOK
  <2>4. /\ row[o].tx = NoTx
        /\ \A q \in Ops : row[q].status # "none" => row'[q].status # "none"
        /\ \A q \in Ops : row[q].tx # NoTx => row'[q].tx = row[q].tx
    <3>1. row[o].tx = NoTx
      BY <1>1, <1>3 DEF NonceInv, RowsAreBound
    <3> QED BY <1>3, <2>2, <2>3, <3>1
  <2>5. Place(p, o, r) \in Tasks /\ Held(Place(p, o, r), row')
    BY <1>1, <2>2, <2>3, ResumeHeld
  <2>6. task' = [task EXCEPT ![p] = Place(p, o, r)]
    BY <1>3 DEF Resume, Step
  <2>7. TypeOK'
    <3> HIDE DEF n, r
    <3> QED BY <1>1, <1>3, <2>1, <2>3, <2>5, <2>6 DEF NonceInv, TypeOK, l1
  <2>8. RowsAreBound'
    <3> SUFFICES ASSUME NEW a \in Ops
                 PROVE  /\ row'[a].tx # NoTx => row'[a].tx[1] = a /\ row'[a].status # "none"
                        /\ row'[a].status \in {"SIGNED", "BROADCAST", "INCLUDED"} => row'[a].tx # NoTx
                        /\ row'[a].status # "none" => row'[a].nonce < nextNonce'
                        /\ \A q \in Ops : row'[a].status # "none" /\ row'[q].status # "none"
                                            /\ row'[a].nonce = row'[q].nonce => a = q
      BY DEF RowsAreBound
    <3> HIDE DEF n, r
    <3>1. \A q \in Ops \ {o} : row'[q].status # "none" => row'[q].nonce < nextNonce /\ row'[q].nonce \in Nat
      BY <2>3 DEF NonceInv, RowsAreBound, TypeOK, Rows
    <3>2. CASE a = o
      <4>1. row'[a].tx = NoTx /\ row'[a].status = "PREPARED" /\ row'[a].nonce = n
        BY <2>2, <2>3, <3>2
      <4>2. nextNonce' = n + 1 /\ n < n + 1
        BY <1>3, <2>1
      <4>3. ASSUME NEW q \in Ops, row'[q].status # "none", row'[q].nonce = n, q # a PROVE FALSE
        <5>1. row'[q].nonce < nextNonce /\ row'[q].nonce \in Nat
          BY <3>1, <3>2, <4>3
        <5> QED BY <2>1, <4>3, <5>1
      <4> QED BY <4>1, <4>2, <4>3
    <3>3. CASE a # o
      BY <1>3, <2>1, <2>2, <2>3, <3>1, <3>3 DEF NonceInv, RowsAreBound
    <3> QED BY <3>2, <3>3
  <2>9. TasksAreBound'
    <3> SUFFICES ASSUME NEW q \in Processes
                 PROVE  Held(task'[q], row')
      BY DEF TasksAreBound, Held
    <3>1. CASE q = p
      BY <1>1, <2>5, <2>6, <3>1 DEF NonceInv, TypeOK
    <3>2. CASE q # p
      <4>1. task'[q] = task[q] /\ Held(task[q], row)
        BY <2>6, <3>2, TasksHeld DEF NonceInv, TypeOK
      <4> QED BY <4>1, <2>4, HeldKept
    <3> QED BY <3>1, <3>2
  <2>10. SentIsBound'
    <3> SUFFICES ASSUME NEW t \in sent
                 PROVE  row'[t[1]].tx = t
      BY <1>1 DEF SentIsBound
    <3>1. t \in Txs /\ t[1] \in Ops /\ t # NoTx /\ row[t[1]].tx = t
      BY DEF NonceInv, TypeOK, SentIsBound, Txs
    <3> QED BY <3>1, <2>4
  <2> QED BY <2>7, <2>8, <2>9, <2>10 DEF NonceInv
<1> QED BY <1>2, <1>3 DEF Reserve

-----------------------------------------------------------------------------
(* The steps of L1. *)

LEMMA ChainStep ==
  ASSUME NonceInv, TypeOK', UNCHANGED <<sent, db, task>>
  PROVE  NonceInv'
BY DEF NonceInv, RowsAreBound, TasksAreBound, SentIsBound, db

LEMMA MineStep == ASSUME NonceInv, Mine PROVE NonceInv'
<1> PICK t \in sent, ok \in BOOLEAN, c \in Costs : chain' = Append(chain, Block(t, ok, c))
  BY DEF Mine
<1>1. Block(t, ok, c) \in Blocks
  BY DEF Block, Blocks, NonceInv, TypeOK
<1>2. chain' \in Seq(Blocks) /\ Len(chain') = Len(chain) + 1
  BY <1>1 DEF NonceInv, TypeOK
<1>3. TypeOK'
  BY <1>2 DEF Mine, NonceInv, TypeOK, db
<1> QED BY <1>3, ChainStep DEF Mine

LEMMA FinalizeStep == ASSUME NonceInv, Finalize PROVE NonceInv'
<1>1. TypeOK'
  BY DEF Finalize, NonceInv, TypeOK, db
<1> QED BY <1>1, ChainStep DEF Finalize

LEMMA ReorgStep == ASSUME NonceInv, Reorg PROVE NonceInv'
<1> PICK k \in final .. Len(chain) - 1 : chain' = SubSeq(chain, 1, k)
  BY DEF Reorg
<1>1. k \in Nat /\ k <= Len(chain) /\ final <= k /\ chain \in Seq(Blocks)
  BY DEF NonceInv, TypeOK
<1>2. chain' \in Seq(Blocks) /\ Len(chain') = k
  BY <1>1, SubSeqProperties
<1>3. /\ UNCHANGED <<final, sent, row, nextNonce, task, surprises, publishes, crashes>>
      /\ reorgs' = reorgs + 1
  BY DEF Reorg, db
<1>4. k <= MaxHeight /\ final \in 0 .. k /\ {reorgs', surprises, publishes, crashes} \subseteq Nat
  BY <1>1, <1>3 DEF NonceInv, TypeOK
<1>5. TypeOK'
  BY <1>2, <1>3, <1>4 DEF NonceInv, TypeOK
<1> QED BY <1>5, ChainStep DEF Reorg

LEMMA SurpriseStep == ASSUME NonceInv, Surprise PROVE NonceInv'
<1> PICK k \in 1 .. final :
      chain' = [h \in DOMAIN chain |-> IF h < k THEN chain[h] ELSE OtherBlock]
  BY DEF Surprise
<1>1. OtherBlock \in Blocks
  BY DEF OtherBlock, Blocks, NonceInv, TypeOK
<1>2. chain' \in Seq(Blocks) /\ Len(chain') = Len(chain)
  <2>1. DOMAIN chain = 1 .. Len(chain) /\ Len(chain) \in Nat /\ \A h \in DOMAIN chain : chain[h] \in Blocks
    BY DEF NonceInv, TypeOK
  <2>2. chain' \in [1 .. Len(chain) -> Blocks]
    BY <1>1, <2>1
  <2>3. chain' \in Seq(Blocks)
    BY <2>1, <2>2, SeqDef
  <2> QED BY <2>1, <2>2, <2>3, LenProperties
<1>3. TypeOK'
  BY <1>2 DEF Surprise, NonceInv, TypeOK, db
<1> QED BY <1>3, ChainStep DEF Surprise

-----------------------------------------------------------------------------
LEMMA NonceInit == Init => NonceInv
<1> SUFFICES ASSUME Init PROVE NonceInv
  OBVIOUS
<1>1. NoRow \in Rows /\ NoRow.tx = NoTx /\ NoRow.status = "none"
  BY NoRowType
<1>2. TypeOK
  BY <1>1, IdleType DEF Init, TypeOK
<1>3. RowsAreBound /\ TasksAreBound /\ SentIsBound
  BY <1>1 DEF Init, RowsAreBound, TasksAreBound, SentIsBound, Idle
<1> QED BY <1>2, <1>3 DEF NonceInv

LEMMA NonceStep == ASSUME NonceInv, [Next]_vars PROVE NonceInv'
<1>1. CASE Mine \/ Finalize \/ Reorg \/ Surprise
  BY <1>1, MineStep, FinalizeStep, ReorgStep, SurpriseStep
<1>2. ASSUME NEW p \in Publishers, ApiStep(p) \/ \E o \in Ops : Publish(p, o)
      PROVE  NonceInv'
  <2>1. p \in Processes
    BY DEF Processes
  <2> QED BY <1>2, <2>1, ReadNonceStep, ReserveStep, AttachStep, BroadcastStep, MarkBroadcastStep,
             PublishStep DEF ApiStep
<1>3. CASE WorkerStep \/ \E o \in Ops : PickUp(o) \/ Audit(o)
  BY <1>3, WorkerStepInv, PickUpStep, AuditStep
<1>4. CASE \E p \in Processes : Crash(p)
  BY <1>4, CrashStep
<1>5. CASE UNCHANGED vars
  BY <1>5 DEF NonceInv, TypeOK, RowsAreBound, TasksAreBound, SentIsBound, vars
<1> QED BY <1>1, <1>2, <1>3, <1>4, <1>5 DEF Next

LEMMA NonceInvIsSafe == NonceInv => OneTransactionPerNonce
<1> SUFFICES ASSUME NonceInv, NEW s \in sent, NEW t \in sent, Nonce(s) = Nonce(t)
             PROVE  s = t
  BY DEF OneTransactionPerNonce
<1>1. /\ s[1] \in Ops /\ s # NoTx /\ row[s[1]].tx = s
      /\ t[1] \in Ops /\ t # NoTx /\ row[t[1]].tx = t
  BY DEF NonceInv, TypeOK, SentIsBound, Txs
<1> QED BY <1>1 DEF NonceInv, RowsAreBound, Nonce

LEMMA SpecNonceInv == Spec => []NonceInv
BY NonceInit, NonceStep, PTL DEF Spec

(* Whatever L1, the publishers and the signer do, the rows, the nonce counter, the processes'
   memory and the chain keep their types. *)
THEOREM JournalTypeCorrect == Spec => []TypeOK
<1>1. NonceInv => TypeOK
  BY DEF NonceInv
<1> QED BY <1>1, SpecNonceInv, PTL

(* L1 is never handed two transactions with one nonce. *)
THEOREM OneTransactionPerNonceAlways == Spec => []OneTransactionPerNonce
BY SpecNonceInv, NonceInvIsSafe, PTL

-----------------------------------------------------------------------------
(* How a step may change the rows: one row, in one of four ways, or finalized rows
   that go to the operator together. *)

Others(o) == \A q \in Ops \ {o} : row'[q] = row[q]

Reserves(o) == row[o].status = "none" /\ row'[o].status = "PREPARED" /\ row'[o].tx = NoTx

Binds(o) ==
  /\ row[o].status = "PREPARED" /\ row[o].tx = NoTx
  /\ row'[o].status = "SIGNED" /\ \E s \in Sigs : row'[o].tx = <<o, s>>

SamePlace(o) == row'[o].height = row[o].height /\ row'[o].branch = row[o].branch

WorkersPlace(o) ==
  /\ task[Worker].pc = "include" /\ task[Worker].op = o
  /\ row'[o].height = task[Worker].height /\ row'[o].branch = task[Worker].branch

Drives(o) ==
  /\ row[o].status \in Pending /\ row'[o].status \in Pending
  /\ row'[o].tx = row[o].tx
  /\ \/ SamePlace(o) /\ (row'[o].status = "INCLUDED" => row[o].status = "INCLUDED")
     \/ WorkersPlace(o)
     \/ row'[o].status = "BROADCAST" /\ task[Worker].pc = "retract" /\ task[Worker].op = o

Ends(o) ==
  /\ row[o].status \in Pending
  /\ row'[o].tx = row[o].tx /\ SamePlace(o)
  /\ \/ row'[o].status = "RECOVERY_REQUIRED"
     \/ row'[o].status = "FAILED" /\ task[Worker].pc = "fail" /\ task[Worker].op = o
     \/ /\ row'[o].status = "FINALIZED" /\ row[o].status = "INCLUDED"
        /\ task[Worker].pc = "finalize" /\ task[Worker].op = o

SurprisesAll(o) ==
  /\ row[o].status = "FINALIZED"
  /\ row' = [q \in Ops |-> IF q \in Surprised(o)
                           THEN [row[q] EXCEPT !.status = "RECOVERY_REQUIRED"] ELSE row[q]]

RowStep ==
  \/ row' = row
  \/ \E o \in Ops : Others(o) /\ (Reserves(o) \/ Binds(o) \/ Drives(o) \/ Ends(o))
  \/ \E o \in Ops : SurprisesAll(o)

LEMMA Wrote ==
  ASSUME NonceInv, NEW o \in Ops, NEW r, Write(o, r)
  PROVE  Others(o) /\ row'[o] = r
BY DEF NonceInv, TypeOK, Write, Others

LEMMA FailRow ==
  ASSUME NonceInv, NEW p \in Processes, task[p].pc # "idle", Fail(p)
  PROVE  RowStep
<1> DEFINE o == task[p].op
<1>1. o \in Ops /\ row[o] \in Rows
  BY BoundRow
<1>2. CASE row' = row
  BY <1>2 DEF RowStep
<1>3. CASE row[o].status \in Pending /\ Write(o, Retried(row[o]))
  <2>1. Others(o) /\ row'[o] = Retried(row[o])
    BY <1>1, <1>3, Wrote
  <2>2. Drives(o)
    BY <1>1, <1>3, <2>1 DEF Drives, SamePlace, Retried, Rows
  <2> QED BY <1>1, <2>1, <2>2 DEF RowStep
<1> QED BY <1>2, <1>3 DEF Fail

LEMMA AttachRow ==
  ASSUME NonceInv, NEW p \in Processes, Attach(p)
  PROVE  RowStep
<1> DEFINE o == task[p].op
           r == row[o]
<1>1. o \in Ops /\ r \in Rows /\ task[p].pc # "idle"
  BY BoundRow DEF Attach
<1>2. CASE Fail(p)
  BY <1>1, <1>2, FailRow
<1>3. CASE UNCHANGED db
  BY <1>3 DEF db, RowStep
<1>4. ASSUME NEW s \in Sigs, r.tx = NoTx, r.status = "PREPARED",
             Write(o, [r EXCEPT !.tx = <<o, s>>, !.status = "SIGNED"])
      PROVE  RowStep
  <2>1. Others(o) /\ row'[o] = [r EXCEPT !.tx = <<o, s>>, !.status = "SIGNED"]
    BY <1>1, <1>4, Wrote
  <2>2. row'[o].tx = <<o, s>> /\ row'[o].status = "SIGNED"
    BY <1>1, <2>1 DEF Rows
  <2> QED BY <1>1, <1>4, <2>1, <2>2 DEF RowStep, Binds
<1> QED BY <1>2, <1>3, <1>4 DEF Attach, Signed

LEMMA BroadcastRow ==
  ASSUME NonceInv, NEW p \in Processes, Broadcast(p)
  PROVE  RowStep
BY FailRow DEF Broadcast, db, RowStep

LEMMA MarkBroadcastRow ==
  ASSUME NonceInv, NEW p \in Processes, MarkBroadcast(p)
  PROVE  RowStep
<1> DEFINE o == task[p].op
           r == [row[o] EXCEPT !.status = "BROADCAST", !.attempts = @ + 1]
<1>1. o \in Ops /\ row[o] \in Rows /\ task[p].pc # "idle"
  BY BoundRow DEF MarkBroadcast
<1>2. CASE Fail(p)
  BY <1>1, <1>2, FailRow
<1>3. CASE Broadcastable(row[o]) /\ Write(o, r)
  <2>1. Others(o) /\ row'[o] = r
    BY <1>1, <1>3, Wrote
  <2>2. /\ row'[o].status = "BROADCAST" /\ row'[o].tx = row[o].tx
        /\ row'[o].height = row[o].height /\ row'[o].branch = row[o].branch
    BY <1>1, <2>1 DEF Rows
  <2>3. Drives(o)
    BY <1>1, <1>3, <2>2 DEF Drives, SamePlace, Broadcastable, Pending
  <2> QED BY <1>1, <2>1, <2>3 DEF RowStep
<1> QED BY <1>2, <1>3 DEF MarkBroadcast

LEMMA ReserveRow ==
  ASSUME NonceInv, NEW p \in Publishers, Reserve(p)
  PROVE  RowStep
<1> DEFINE o == task[p].op
           n == ReservedNonce(task[p].found)
           r == [NoRow EXCEPT !.status = "PREPARED", !.nonce = n]
<1>1. o \in Ops /\ task[p] \in Tasks
  BY BoundRow DEF Processes, Reserve
<1>2. CASE UNCHANGED db
  BY <1>2 DEF db, RowStep
<1>3. CASE row[o].status = "none" /\ Write(o, r)
  <2>1. Others(o) /\ row'[o] = r
    BY <1>1, <1>3, Wrote
  <2>2. r.status = "PREPARED" /\ r.tx = NoTx
    BY DEF NoRow
  <2> QED BY <1>1, <1>3, <2>1, <2>2 DEF RowStep, Reserves
<1> QED BY <1>2, <1>3 DEF Reserve

(* The verdicts the worker writes. *)
LEMMA VerdictRow ==
  ASSUME NonceInv, task[Worker].pc \notin {"idle", "nonce", "reserve"},
         NEW v \in {"FINALIZED", "FAILED", "RECOVERY_REQUIRED"},
         Write(task[Worker].op, [row[task[Worker].op] EXCEPT !.status = v])
  PROVE  LET o == task[Worker].op
         IN /\ o \in Ops /\ Others(o)
            /\ row'[o].status = v /\ row'[o].tx = row[o].tx /\ SamePlace(o)
<1> DEFINE o == task[Worker].op
           r == [row[o] EXCEPT !.status = v]
<1>1. o \in Ops /\ row[o] \in Rows
  BY WorkersRow
<1>2. Others(o) /\ row'[o] = r
  BY <1>1, Wrote
<1>3. r.status = v /\ r.tx = row[o].tx /\ r.height = row[o].height /\ r.branch = row[o].branch
  BY <1>1 DEF Rows
<1> HIDE DEF r
<1> QED
  BY <1>1, <1>2, <1>3 DEF SamePlace

LEMMA WorkerRow == ASSUME NonceInv, WorkerStep PROVE RowStep
<1> DEFINE o == task[Worker].op
<1>1. Worker \in Processes
  BY DEF Processes
<1>2. task[Worker].pc # "idle" /\ Fail(Worker) => RowStep
  BY <1>1, FailRow
<1>3. UNCHANGED db => RowStep
  BY DEF db, RowStep
<1>4. CASE Exhaust
  <2>1. CASE row[o].status \in Pending /\ Write(o, [row[o] EXCEPT !.status = "RECOVERY_REQUIRED"])
    BY <1>4, <2>1, VerdictRow DEF Exhaust, Ends, RowStep
  <2> QED BY <1>2, <1>4, <2>1 DEF Exhaust
<1>5. CASE ReadReceipt \/ Check
  BY <1>2, <1>3, <1>5 DEF ReadReceipt, Check
<1>6. CASE MarkFailed
  <2>1. CASE /\ row[o].status \notin {"FINALIZED", "RECOVERY_REQUIRED"}
             /\ Write(o, [row[o] EXCEPT !.status = "FAILED"])
    <3>1. o \in Ops /\ row[o] \in Rows /\ row[o].status # "none"
      BY <1>6, WorkersRow DEF MarkFailed
    <3>2. CASE row[o].status = "FAILED"
      <4>1. [row[o] EXCEPT !.status = "FAILED"] = row[o]
        BY <3>1, <3>2 DEF Rows
      <4>2. row' = row
        BY <2>1, <3>1, <4>1 DEF Write, NonceInv, TypeOK
      <4> QED BY <4>2 DEF RowStep
    <3>3. CASE row[o].status # "FAILED"
      <4>1. row[o].status \in Pending
        BY <2>1, <3>1, <3>3 DEF Rows, Pending
      <4>2. Others(o) /\ row'[o].status = "FAILED" /\ row'[o].tx = row[o].tx /\ SamePlace(o)
        BY <1>6, <2>1, VerdictRow DEF MarkFailed
      <4>3. Ends(o)
        BY <1>6, <4>1, <4>2 DEF MarkFailed, Ends
      <4> QED BY <3>1, <4>2, <4>3 DEF RowStep
    <3> QED BY <3>2, <3>3
  <2> QED BY <1>2, <1>6, <2>1 DEF MarkFailed
<1>7. CASE MarkIncluded
  <2> DEFINE r == Included(row[o], task[Worker])
  <2>1. CASE row[o].status \in {"BROADCAST", "INCLUDED"} /\ Write(o, r)
    <3>1. o \in Ops /\ row[o] \in Rows
      BY <1>7, WorkersRow DEF MarkIncluded
    <3>2. Others(o) /\ row'[o] = r
      BY <2>1, <3>1, Wrote
    <3>3. /\ r.status = "INCLUDED" /\ r.tx = row[o].tx
          /\ r.height = task[Worker].height /\ r.branch = task[Worker].branch
      BY <3>1 DEF Included, Rows
    <3>4. Drives(o)
      BY <1>7, <2>1, <3>2, <3>3 DEF Drives, WorkersPlace, Pending, MarkIncluded
    <3> QED BY <3>1, <3>2, <3>4 DEF RowStep
  <2> QED BY <1>2, <1>7, <2>1 DEF MarkIncluded
<1>8. CASE MarkFinalized
  <2>1. CASE row[o].status = "INCLUDED" /\ Write(o, [row[o] EXCEPT !.status = "FINALIZED"])
    <3>1. /\ o \in Ops /\ Others(o)
          /\ row'[o].status = "FINALIZED" /\ row'[o].tx = row[o].tx /\ SamePlace(o)
      BY <1>8, <2>1, VerdictRow DEF MarkFinalized
    <3>2. Ends(o)
      BY <1>8, <2>1, <3>1 DEF Ends, Pending, MarkFinalized
    <3> QED BY <3>1, <3>2 DEF RowStep
  <2> QED BY <1>2, <1>8, <2>1 DEF MarkFinalized
<1>9. CASE Retract
  <2> DEFINE r == [row[o] EXCEPT !.status = "BROADCAST", !.height = 0, !.branch = 0]
  <2>1. CASE row[o].status = "INCLUDED" /\ Write(o, r)
    <3>1. o \in Ops /\ row[o] \in Rows
      BY <1>9, WorkersRow DEF Retract
    <3>2. Others(o) /\ row'[o] = r
      BY <2>1, <3>1, Wrote
    <3>3. r.status = "BROADCAST" /\ r.tx = row[o].tx
      BY <3>1 DEF Rows
    <3>4. Drives(o)
      BY <1>9, <2>1, <3>2, <3>3 DEF Drives, Pending, Retract
    <3> QED BY <3>1, <3>2, <3>4 DEF RowStep
  <2> QED BY <1>2, <1>9, <2>1 DEF Retract
<1>10. CASE RetractFinalized
  BY <1>10, WorkersRow DEF RetractFinalized, SurprisesAll, RowStep
<1>11. CASE Attach(Worker) \/ Broadcast(Worker) \/ MarkBroadcast(Worker)
  BY <1>1, <1>11, AttachRow, BroadcastRow, MarkBroadcastRow
<1> QED BY <1>4, <1>5, <1>6, <1>7, <1>8, <1>9, <1>10, <1>11 DEF WorkerStep

LEMMA NextRow == ASSUME NonceInv, [Next]_vars PROVE RowStep
<1>1. UNCHANGED db => RowStep
  BY DEF db, RowStep
<1>2. ASSUME NEW p \in Publishers, ApiStep(p) PROVE RowStep
  <2>1. p \in Processes
    BY DEF Processes
  <2>2. CASE ReadNonce(p)
    BY <1>1, <2>2 DEF ReadNonce
  <2> QED BY <1>2, <2>1, <2>2, ReserveRow, AttachRow, BroadcastRow, MarkBroadcastRow DEF ApiStep
<1>3. CASE Mine \/ Finalize \/ Reorg \/ Surprise
  BY <1>1, <1>3 DEF Mine, Finalize, Reorg, Surprise
<1>4. CASE \/ \E p \in Publishers, o \in Ops : Publish(p, o)
           \/ \E o \in Ops : PickUp(o) \/ Audit(o)
           \/ \E p \in Processes : Crash(p)
  BY <1>1, <1>4 DEF Publish, PickUp, Audit, Crash
<1>5. CASE UNCHANGED vars
  BY <1>1, <1>5 DEF vars, db
<1> QED BY <1>2, <1>3, <1>4, <1>5, WorkerRow DEF Next

-----------------------------------------------------------------------------
(* The inductive invariant of finality.  A block that a receipt named, at a height
   of a branch, is the only block that was ever at this height of this branch: if
   the chain has that branch there, it has that transaction.  The worker holds such
   a block over its reads, and an included row records one. *)

Age == reorgs + surprises

KnownBlock(t, h, b) ==
  /\ t # NoTx /\ h \in Nat \ {0} /\ b \in Nat /\ b <= Age
  /\ b = Age => h \in DOMAIN chain
  /\ h \in DOMAIN chain /\ chain[h].branch = b => chain[h].tx = t /\ chain[h].ok

FinalBlock(t, h) ==
  surprises = 0 => t # NoTx /\ h \in 1 .. final /\ chain[h].tx = t /\ chain[h].ok

BlocksAreOld == \A h \in DOMAIN chain : chain[h].branch <= Age

RowIsKnown(r) ==
  /\ r.status = "INCLUDED" => KnownBlock(r.tx, r.height, r.branch)
  /\ r.status = "FINALIZED" => FinalBlock(r.tx, r.height)

(* t is what the worker holds, r the row it holds it about *)
TaskIsKnown(t, r) ==
  /\ t.pc \in {"include", "check"} => KnownBlock(r.tx, t.height, t.branch)
  /\ t.pc = "check" => r.height = t.height
  /\ t.pc = "fail" => r.tx # NoTx
  /\ t.pc = "finalize" => FinalBlock(r.tx, r.height)

FinalInv ==
  /\ NonceInv /\ BlocksAreOld
  /\ \A o \in Ops : RowIsKnown(row[o])
  /\ TaskIsKnown(task[Worker], row[task[Worker].op])

LEMMA ChainType ==
  ASSUME NonceInv
  PROVE  /\ Len(chain) \in Nat /\ DOMAIN chain = 1 .. Len(chain)
         /\ \A h \in DOMAIN chain : chain[h] \in Blocks /\ chain[h].branch \in Nat
         /\ final \in 0 .. Len(chain)
         /\ reorgs \in Nat /\ surprises \in Nat /\ Age \in Nat
<1>1. chain \in Seq(Blocks) /\ final \in 0 .. Len(chain) /\ reorgs \in Nat /\ surprises \in Nat
  BY DEF NonceInv, TypeOK
<1>2. \A h \in DOMAIN chain : chain[h] \in Blocks
  BY <1>1
<1> QED BY <1>1, <1>2, BlockType DEF Age

(* A step of L1, and what it keeps of the blocks that are known. *)
LEMMA L1Keeps ==
  ASSUME FinalInv, NonceInv', BlocksAreOld', UNCHANGED <<row, task>>,
         \A t, h, b : KnownBlock(t, h, b) => KnownBlock(t, h, b)',
         \A t, h : FinalBlock(t, h) => FinalBlock(t, h)'
  PROVE  FinalInv'
<1>1. ASSUME NEW o \in Ops PROVE RowIsKnown(row[o])'
  <2>1. RowIsKnown(row[o]) /\ row'[o] = row[o]
    BY DEF FinalInv
  <2> QED BY <2>1 DEF RowIsKnown
<1>2. TaskIsKnown(task[Worker], row[task[Worker].op])'
  <2>1. TaskIsKnown(task[Worker], row[task[Worker].op]) /\ task' = task /\ row' = row
    BY DEF FinalInv
  <2> QED BY <2>1 DEF TaskIsKnown
<1> QED BY <1>1, <1>2 DEF FinalInv

LEMMA MineKeeps == ASSUME FinalInv, NonceInv', Mine PROVE FinalInv'
<1> PICK t \in sent, ok \in BOOLEAN, c \in Costs : chain' = Append(chain, Block(t, ok, c))
  BY DEF Mine
<1> DEFINE n == Len(chain)
<1>1. Block(t, ok, c) \in Blocks /\ Block(t, ok, c).branch = Age
  BY DEF Block, Blocks, FinalInv, NonceInv, TypeOK, Age
<1>2. /\ n \in Nat /\ DOMAIN chain = 1 .. n /\ DOMAIN chain' = 1 .. n + 1
      /\ \A h \in 1 .. n : chain'[h] = chain[h]
      /\ chain'[n + 1].branch = Age
  BY <1>1 DEF FinalInv, NonceInv, TypeOK
<1>3. UNCHANGED <<final, reorgs, surprises, row, task>> /\ Age' = Age
  BY DEF Mine, db, Age
<1>4. BlocksAreOld'
  BY <1>2, <1>3, ChainType DEF BlocksAreOld, FinalInv
<1>5. \A x, h, b : KnownBlock(x, h, b) => KnownBlock(x, h, b)'
  BY <1>2, <1>3 DEF KnownBlock
<1>6. \A x, h : FinalBlock(x, h) => FinalBlock(x, h)'
  BY <1>2, <1>3, ChainType DEF FinalBlock, FinalInv
<1> QED BY <1>3, <1>4, <1>5, <1>6, L1Keeps

LEMMA FinalizeKeeps == ASSUME FinalInv, NonceInv', Finalize PROVE FinalInv'
<1>1. UNCHANGED <<chain, reorgs, surprises, row, task>> /\ Age' = Age /\ final' = final + 1
  BY DEF Finalize, db, Age
<1>2. BlocksAreOld'
  BY <1>1 DEF BlocksAreOld, FinalInv
<1>3. \A x, h, b : KnownBlock(x, h, b) => KnownBlock(x, h, b)'
  BY <1>1 DEF KnownBlock
<1>4. \A x, h : FinalBlock(x, h) => FinalBlock(x, h)'
  BY <1>1, ChainType DEF FinalBlock, FinalInv
<1> QED BY <1>1, <1>2, <1>3, <1>4, L1Keeps

LEMMA ReorgKeeps == ASSUME FinalInv, NonceInv', Reorg PROVE FinalInv'
<1> PICK k \in final .. Len(chain) - 1 : chain' = SubSeq(chain, 1, k)
  BY DEF Reorg
<1>1. k \in Nat /\ k <= Len(chain) /\ final <= k /\ chain \in Seq(Blocks)
  BY DEF FinalInv, NonceInv, TypeOK
<1>2. DOMAIN chain' = 1 .. k /\ \A h \in 1 .. k : chain'[h] = chain[h] /\ h \in DOMAIN chain
  BY <1>1, SubSeqProperties
<1>3. UNCHANGED <<final, surprises, row, task>> /\ Age' = Age + 1 /\ Age \in Nat
  BY ChainType DEF Reorg, db, Age, FinalInv
<1>4. BlocksAreOld'
  BY <1>2, <1>3, ChainType DEF BlocksAreOld, FinalInv
<1>5. \A x, h, b : KnownBlock(x, h, b) => KnownBlock(x, h, b)'
  BY <1>2, <1>3 DEF KnownBlock
<1>6. \A x, h : FinalBlock(x, h) => FinalBlock(x, h)'
  BY <1>1, <1>2, <1>3, ChainType DEF FinalBlock, FinalInv
<1> QED BY <1>3, <1>4, <1>5, <1>6, L1Keeps

LEMMA SurpriseKeeps == ASSUME FinalInv, NonceInv', Surprise PROVE FinalInv'
<1> PICK k \in 1 .. final :
      chain' = [h \in DOMAIN chain |-> IF h < k THEN chain[h] ELSE OtherBlock]
  BY DEF Surprise
<1>1. UNCHANGED <<final, reorgs, row, task>> /\ surprises' = surprises + 1
      /\ Age' = Age + 1 /\ Age \in Nat /\ surprises \in Nat
  BY ChainType DEF Surprise, db, Age, FinalInv
<1>2. OtherBlock.branch = Age + 1
  BY DEF OtherBlock, Age
<1>3. DOMAIN chain' = DOMAIN chain
      /\ \A h \in DOMAIN chain : chain'[h] = chain[h] \/ chain'[h].branch = Age + 1
  BY <1>2
<1>4. BlocksAreOld'
  BY <1>1, <1>3, ChainType DEF BlocksAreOld, FinalInv
<1>5. \A x, h, b : KnownBlock(x, h, b) => KnownBlock(x, h, b)'
  BY <1>1, <1>3 DEF KnownBlock
<1>6. \A x, h : FinalBlock(x, h) => FinalBlock(x, h)'
  BY <1>1 DEF FinalBlock
<1> QED BY <1>1, <1>4, <1>5, <1>6, L1Keeps

(* A step of a process: L1 stays, so it is enough that rows and the worker's task
   are still about known blocks. *)
LEMMA ProcessKeeps ==
  ASSUME FinalInv, NonceInv', UNCHANGED l1,
         \A o \in Ops : RowIsKnown(row'[o]),
         TaskIsKnown(task'[Worker], row'[task'[Worker].op])
  PROVE  FinalInv'
BY DEF FinalInv, BlocksAreOld, RowIsKnown, TaskIsKnown, KnownBlock, FinalBlock, Age, l1

LEMMA RowsStayKnown ==
  ASSUME FinalInv, RowStep
  PROVE  \A o \in Ops : RowIsKnown(row'[o])
<1> SUFFICES ASSUME NEW o \in Ops PROVE RowIsKnown(row'[o])
  OBVIOUS
<1>1. RowIsKnown(row[o]) /\ row[o] \in Rows
  BY DEF FinalInv, NonceInv, TypeOK
<1>2. CASE row'[o] = row[o]
  BY <1>1, <1>2
<1>3. CASE Reserves(o) \/ Binds(o)
  BY <1>3 DEF Reserves, Binds, RowIsKnown
<1>4. CASE Drives(o)
  <2>1. CASE SamePlace(o) /\ (row'[o].status = "INCLUDED" => row[o].status = "INCLUDED")
    BY <1>1, <1>4, <2>1 DEF Drives, SamePlace, RowIsKnown, Pending
  <2>2. CASE WorkersPlace(o)
    BY <1>1, <1>4, <2>2 DEF Drives, WorkersPlace, RowIsKnown, TaskIsKnown, FinalInv, Pending
  <2>3. CASE row'[o].status = "BROADCAST"
    BY <2>3 DEF RowIsKnown
  <2> QED BY <1>4, <2>1, <2>2, <2>3 DEF Drives
<1>5. CASE Ends(o)
  <2>1. CASE row'[o].status # "FINALIZED"
    BY <1>5, <2>1 DEF Ends, RowIsKnown
  <2>2. CASE row'[o].status = "FINALIZED"
    BY <1>5, <2>2 DEF Ends, SamePlace, RowIsKnown, TaskIsKnown, FinalInv
  <2> QED BY <2>1, <2>2
<1>6. CASE \E q \in Ops : SurprisesAll(q)
  <2>1. row'[o] = row[o] \/ row'[o] = [row[o] EXCEPT !.status = "RECOVERY_REQUIRED"]
    BY <1>6 DEF SurprisesAll
  <2>2. [row[o] EXCEPT !.status = "RECOVERY_REQUIRED"].status = "RECOVERY_REQUIRED"
    BY <1>1 DEF Rows
  <2> QED BY <1>2, <2>1, <2>2 DEF RowIsKnown
<1> QED BY <1>2, <1>3, <1>4, <1>5, <1>6 DEF RowStep, Others

(* What the worker holds stays known whoever writes rows meanwhile. *)
LEMMA TaskStaysKnown ==
  ASSUME FinalInv, RowStep
  PROVE  TaskIsKnown(task[Worker], row'[task[Worker].op])
<1> DEFINE t == task[Worker]
           o == t.op
<1>1. TaskIsKnown(t, row[o])
  BY DEF FinalInv
<1>2. CASE t.pc \notin {"include", "check", "fail", "finalize"}
  BY <1>2 DEF TaskIsKnown
<1>3. CASE t.pc \in {"include", "check", "fail", "finalize"}
  <2>1. o \in Ops /\ row[o] \in Rows /\ row[o].status # "none"
    BY <1>3, WorkersRow DEF FinalInv
  <2>2. t.pc # "finalize" \/ surprises = 0 => row[o].tx # NoTx
    BY <1>1, <1>3 DEF TaskIsKnown, KnownBlock, FinalBlock
  <2>3. CASE row'[o] = row[o]
    BY <1>1, <2>3
  <2>4. CASE Reserves(o)
    BY <2>1, <2>4 DEF Reserves
  <2>5. CASE Binds(o)
    BY <1>3, <2>2, <2>5 DEF Binds, TaskIsKnown, FinalBlock
  <2>6. CASE Drives(o) \/ Ends(o)
    BY <1>1, <1>3, <2>6 DEF Drives, Ends, SamePlace, WorkersPlace, TaskIsKnown
  <2>7. CASE \E q \in Ops : SurprisesAll(q)
    <3>1. row'[o] = row[o] \/ row'[o] = [row[o] EXCEPT !.status = "RECOVERY_REQUIRED"]
      BY <2>1, <2>7 DEF SurprisesAll
    <3>2. row'[o].tx = row[o].tx /\ row'[o].height = row[o].height
      BY <2>1, <3>1 DEF Rows
    <3> QED BY <1>1, <3>2 DEF TaskIsKnown
  <2> QED BY <2>1, <2>3, <2>4, <2>5, <2>6, <2>7 DEF RowStep, Others
<1> QED BY <1>2, <1>3

(* Where a row sends the worker is known, when the row is. *)
LEMMA PlaceIsKnown ==
  ASSUME NEW o \in Ops, NEW r \in Rows, RowIsKnown(r)
  PROVE  TaskIsKnown(Place(Worker, o, r), r)
<1>1. CASE Place(Worker, o, r).pc \notin {"include", "check", "fail", "finalize"}
  BY <1>1 DEF TaskIsKnown
<1>2. CASE Place(Worker, o, r).pc \in {"include", "check", "fail", "finalize"}
  <2> DEFINE c == [With("check", o, r.tx) EXCEPT !.height = r.height, !.branch = r.branch]
  <2>1. r.status = "INCLUDED" /\ Place(Worker, o, r) = c
    BY <1>2 DEF Place, At, With, Idle
  <2>2. c.pc = "check" /\ c.height = r.height /\ c.branch = r.branch
    BY DEF At, With, Idle
  <2> QED BY <2>1, <2>2 DEF TaskIsKnown, RowIsKnown
<1> QED BY <1>1, <1>2

LEMMA QuietTask ==
  ASSUME NEW t, NEW r, t.pc \notin {"include", "check", "fail", "finalize"}
  PROVE  TaskIsKnown(t, r)
BY DEF TaskIsKnown

LEMMA WorkerGoes ==
  ASSUME FinalInv, NonceInv', RowStep, UNCHANGED l1, NEW t, Step(Worker, t),
         TaskIsKnown(t, row'[t.op])
  PROVE  FinalInv'
<1>1. task'[Worker] = t
  BY DEF Step, FinalInv, NonceInv, TypeOK, Processes
<1> QED BY <1>1, RowsStayKnown, ProcessKeeps

LEMMA WorkerResumes ==
  ASSUME FinalInv, NonceInv', RowStep, UNCHANGED l1, NEW o \in Ops, Resume(Worker, o, row'[o])
  PROVE  FinalInv'
<1> DEFINE t == Place(Worker, o, row'[o])
<1>1. row'[o] \in Rows /\ RowIsKnown(row'[o])
  BY RowsStayKnown DEF NonceInv, TypeOK
<1>2. TaskIsKnown(t, row'[o])
  BY <1>1, PlaceIsKnown
<1>3. TaskIsKnown(t, row'[t.op])
  <2>1. t.pc # "idle" => t.op = o
    BY <1>1, PlaceType
  <2> HIDE DEF t
  <2> QED BY <1>2, <2>1, QuietTask
<1> QED BY <1>3, WorkerGoes DEF Resume

LEMMA WorkerStops ==
  ASSUME FinalInv, NonceInv', RowStep, UNCHANGED l1, Done(Worker)
  PROVE  FinalInv'
<1>1. Idle.pc = "idle"
  BY DEF Idle
<1> QED BY <1>1, QuietTask, WorkerGoes DEF Done

LEMMA WorkerTurns ==
  ASSUME FinalInv, NonceInv', RowStep, UNCHANGED l1, NEW o, NEW pc, Step(Worker, At(pc, o)),
         pc \notin {"include", "check", "fail", "finalize"}
  PROVE  FinalInv'
<1>1. At(pc, o).pc = pc
  BY DEF At, Idle
<1> QED BY <1>1, QuietTask, WorkerGoes

LEMMA AttachKeeps == ASSUME FinalInv, NonceInv', Attach(Worker) PROVE FinalInv'
<1> DEFINE o == task[Worker].op
           r == row[o]
<1>1. Worker \in Processes
  BY DEF Processes
<1>2. /\ RowStep /\ UNCHANGED l1 /\ o \in Ops /\ r \in Rows
  BY <1>1, AttachRow, BoundRow DEF Attach, FinalInv
<1>3. CASE Fail(Worker)
  BY <1>2, <1>3, WorkerStops DEF Fail
<1>4. CASE Resume(Worker, o, r) /\ UNCHANGED db
  BY <1>2, <1>4, WorkerResumes DEF db
<1>5. ASSUME NEW s \in Sigs, Write(o, [r EXCEPT !.tx = <<o, s>>, !.status = "SIGNED"]),
             Resume(Worker, o, [r EXCEPT !.tx = <<o, s>>, !.status = "SIGNED"])
      PROVE  FinalInv'
  <2>1. row'[o] = [r EXCEPT !.tx = <<o, s>>, !.status = "SIGNED"]
    BY <1>2, <1>5, Wrote DEF FinalInv
  <2> QED BY <1>2, <1>5, <2>1, WorkerResumes
<1> QED BY <1>3, <1>4, <1>5 DEF Attach

LEMMA BroadcastKeeps == ASSUME FinalInv, NonceInv', Broadcast(Worker) PROVE FinalInv'
<1>1. Worker \in Processes
  BY DEF Processes
<1>2. RowStep /\ UNCHANGED l1
  BY <1>1, BroadcastRow DEF Broadcast, FinalInv
<1>3. CASE Fail(Worker)
  BY <1>2, <1>3, WorkerStops DEF Fail
<1>4. ASSUME NEW pc \in {"mark", "remark"}, Step(Worker, At(pc, task[Worker].op))
      PROVE  FinalInv'
  BY <1>2, <1>4, WorkerTurns
<1> QED BY <1>3, <1>4 DEF Broadcast

LEMMA MarkBroadcastKeeps == ASSUME FinalInv, NonceInv', MarkBroadcast(Worker) PROVE FinalInv'
<1> DEFINE o == task[Worker].op
           r == [row[o] EXCEPT !.status = "BROADCAST", !.attempts = @ + 1]
<1>1. Worker \in Processes
  BY DEF Processes
<1>2. RowStep /\ UNCHANGED l1 /\ o \in Ops
  BY <1>1, MarkBroadcastRow, BoundRow DEF MarkBroadcast, FinalInv
<1>3. CASE Fail(Worker)
  BY <1>2, <1>3, WorkerStops DEF Fail
<1>4. CASE Write(o, r) /\ Resume(Worker, o, r)
  <2>1. row'[o] = r
    BY <1>2, <1>4, Wrote DEF FinalInv
  <2> QED BY <1>2, <1>4, <2>1, WorkerResumes
<1>5. CASE Done(Worker)
  BY <1>2, <1>5, WorkerStops
<1> QED BY <1>3, <1>4, <1>5 DEF MarkBroadcast

(* The receipt names a block of the chain, and it is still there. *)
LEMMA ReadReceiptKeeps == ASSUME FinalInv, NonceInv', ReadReceipt PROVE FinalInv'
<1> DEFINE o == task[Worker].op
           h == Receipt(task[Worker].tx)
           b == Seen(o, h)
<1>1. /\ task[Worker].pc = "receipt" /\ o \in Ops /\ UNCHANGED l1
      /\ task[Worker].tx = row[o].tx /\ row[o].tx # NoTx
  BY WorkersRow DEF ReadReceipt, FinalInv, Held
<1>2. RowStep
  BY WorkerRow DEF WorkerStep, FinalInv
<1>3. CASE Fail(Worker)
  BY <1>1, <1>2, <1>3, WorkerStops DEF Fail
<1>4. CASE Step(Worker, [task[Worker] EXCEPT !.pc = "again"])
  <2>1. [task[Worker] EXCEPT !.pc = "again"].pc = "again"
    BY <1>1, WorkersRow DEF FinalInv, Tasks
  <2> QED BY <1>1, <1>2, <1>4, <2>1, QuietTask, WorkerGoes
<1>5. CASE Step(Worker, At("fail", o)) /\ UNCHANGED db
  <2>1. At("fail", o).pc = "fail" /\ At("fail", o).op = o
    BY DEF At, Idle
  <2>2. TaskIsKnown(At("fail", o), row'[o])
    BY <1>1, <1>5, <2>1 DEF TaskIsKnown, db
  <2> QED BY <1>1, <1>2, <1>5, <2>1, <2>2, WorkerGoes
<1>6. CASE h # 0 /\ chain[h].ok /\ Step(Worker, b) /\ UNCHANGED db
  <2>1. h \in DOMAIN chain /\ chain[h].tx = row[o].tx
    BY <1>1, <1>6 DEF Receipt, Mined
  <2>2. b.pc = "include" /\ b.op = o /\ b.height = h /\ b.branch = chain[h].branch
    BY DEF Seen, At, Idle
  <2>3. KnownBlock(row[o].tx, h, chain[h].branch)
    <3>1. h \in Nat \ {0} /\ chain[h].branch \in Nat
      BY <2>1, ChainType DEF FinalInv
    <3>2. chain[h].branch <= Age
      BY <2>1 DEF FinalInv, BlocksAreOld
    <3> QED BY <1>1, <1>6, <2>1, <3>1, <3>2 DEF KnownBlock
  <2>4. TaskIsKnown(b, row'[o])
    BY <1>6, <2>2, <2>3 DEF TaskIsKnown, db
  <2> QED BY <1>1, <1>2, <1>6, <2>2, <2>4, WorkerGoes
<1> QED BY <1>3, <1>4, <1>5, <1>6 DEF ReadReceipt

(* The block that the row records is in the chain and final: it is the block of the
   receipt, and stays it. *)
LEMMA CheckKeeps == ASSUME FinalInv, NonceInv', Check PROVE FinalInv'
<1> DEFINE t == task[Worker]
           o == t.op
<1>1. t.pc = "check" /\ o \in Ops /\ t \in Tasks /\ UNCHANGED l1
  BY WorkersRow DEF Check, FinalInv
<1>2. RowStep
  BY WorkerRow DEF WorkerStep, FinalInv
<1>3. CASE Fail(Worker) \/ Done(Worker)
  BY <1>1, <1>2, <1>3, WorkerStops DEF Fail
<1>4. CASE Step(Worker, At("retract", o))
  BY <1>1, <1>2, <1>4, WorkerTurns
<1>5. CASE SameBlock(t) /\ IsFinal(t) /\ Step(Worker, At("finalize", o)) /\ UNCHANGED db
  <2>1. At("finalize", o).pc = "finalize" /\ At("finalize", o).op = o
    BY DEF At, Idle
  <2>2. KnownBlock(row[o].tx, t.height, t.branch) /\ row[o].height = t.height
    BY <1>1 DEF FinalInv, TaskIsKnown
  <2>3. FinalBlock(row[o].tx, row[o].height)
    BY <1>5, <2>2, ChainType DEF FinalInv, FinalBlock, KnownBlock, SameBlock, IsFinal
  <2>4. TaskIsKnown(At("finalize", o), row'[o])
    BY <1>5, <2>1, <2>3 DEF TaskIsKnown, db
  <2> QED BY <1>1, <1>2, <1>5, <2>1, <2>4, WorkerGoes
<1> QED BY <1>3, <1>4, <1>5 DEF Check

LEMMA MarkIncludedKeeps == ASSUME FinalInv, NonceInv', MarkIncluded PROVE FinalInv'
<1> DEFINE o == task[Worker].op
           r == Included(row[o], task[Worker])
<1>1. o \in Ops /\ UNCHANGED l1
  BY WorkersRow DEF MarkIncluded, FinalInv
<1>2. RowStep
  BY WorkerRow DEF WorkerStep, FinalInv
<1>3. CASE Fail(Worker)
  BY <1>1, <1>2, <1>3, WorkerStops DEF Fail
<1>4. CASE Write(o, r) /\ Resume(Worker, o, r)
  <2>1. row'[o] = r
    BY <1>1, <1>4, Wrote DEF FinalInv
  <2> QED BY <1>1, <1>2, <1>4, <2>1, WorkerResumes
<1> QED BY <1>3, <1>4 DEF MarkIncluded

LEMMA RetractKeeps == ASSUME FinalInv, NonceInv', Retract PROVE FinalInv'
<1> DEFINE o == task[Worker].op
           r == [row[o] EXCEPT !.status = "BROADCAST", !.height = 0, !.branch = 0]
<1>1. UNCHANGED l1 /\ RowStep
  BY WorkerRow DEF Retract, WorkerStep, FinalInv
<1>2. CASE Fail(Worker)
  BY <1>1, <1>2, WorkerStops DEF Fail
<1>3. CASE Step(Worker, With("again", o, r.tx))
  <2>1. With("again", o, r.tx).pc = "again"
    BY DEF With, At, Idle
  <2> QED BY <1>1, <1>3, <2>1, QuietTask, WorkerGoes
<1> QED BY <1>2, <1>3 DEF Retract

LEMMA WorkerKeeps == ASSUME FinalInv, NonceInv', WorkerStep PROVE FinalInv'
<1>1. RowStep
  BY WorkerRow DEF FinalInv
<1>2. CASE Exhaust \/ MarkFailed \/ MarkFinalized \/ RetractFinalized
  <2>1. Done(Worker) /\ UNCHANGED l1
    BY <1>2 DEF Exhaust, MarkFailed, MarkFinalized, RetractFinalized, Fail
  <2> QED BY <1>1, <2>1, WorkerStops
<1> QED BY <1>2, AttachKeeps, BroadcastKeeps, MarkBroadcastKeeps, ReadReceiptKeeps, CheckKeeps,
           MarkIncludedKeeps, RetractKeeps DEF WorkerStep

(* The worker starts, or its successor does. *)
LEMMA PickUpKeeps == ASSUME FinalInv, NonceInv', NEW o \in Ops, PickUp(o) PROVE FinalInv'
<1>1. row' = row /\ UNCHANGED l1 /\ RowStep
  BY DEF PickUp, db, RowStep
<1>2. CASE Step(Worker, At("exhaust", o))
  BY <1>1, <1>2, WorkerTurns
<1>3. CASE Resume(Worker, o, row[o])
  BY <1>1, <1>3, WorkerResumes
<1> QED BY <1>2, <1>3 DEF PickUp

LEMMA AuditKeeps == ASSUME FinalInv, NonceInv', NEW o \in Ops, Audit(o) PROVE FinalInv'
<1>1. UNCHANGED l1 /\ RowStep /\ Step(Worker, At("surprise", o))
  BY DEF Audit, db, RowStep
<1> QED BY <1>1, WorkerTurns

(* A step of another process leaves the worker where it was. *)
LEMMA OthersKeep ==
  ASSUME FinalInv, NonceInv', RowStep, UNCHANGED l1, task'[Worker] = task[Worker]
  PROVE  FinalInv'
BY RowsStayKnown, TaskStaysKnown, ProcessKeeps

LEMMA PublisherKeeps ==
  ASSUME FinalInv, NonceInv', [Next]_vars, NEW p \in Publishers,
         ApiStep(p) \/ \E o \in Ops : Publish(p, o)
  PROVE  FinalInv'
<1>1. RowStep
  BY NextRow DEF FinalInv
<1>2. p # Worker /\ Worker \in Processes /\ task \in [Processes -> Tasks]
  BY DEF FinalInv, NonceInv, TypeOK, Processes
<1>3. UNCHANGED l1 /\ \E t : task' = [task EXCEPT ![p] = t]
  BY DEF ApiStep, Publish, ReadNonce, Reserve, Attach, Broadcast, MarkBroadcast, Resume, Fail, Done, Step
<1>4. task'[Worker] = task[Worker]
  BY <1>2, <1>3
<1> QED BY <1>1, <1>3, <1>4, OthersKeep

LEMMA CrashKeeps ==
  ASSUME FinalInv, NonceInv', NEW p \in Processes, Crash(p)
  PROVE  FinalInv'
<1>1. RowStep /\ UNCHANGED l1 /\ Done(p)
  BY DEF Crash, db, RowStep
<1>2. CASE p = Worker
  BY <1>1, <1>2, WorkerStops
<1>3. CASE p # Worker
  <2>1. task'[Worker] = task[Worker]
    BY <1>1, <1>3 DEF Done, Step, FinalInv, NonceInv, TypeOK, Processes
  <2> QED BY <1>1, <2>1, OthersKeep
<1> QED BY <1>2, <1>3

LEMMA FinalStep == ASSUME FinalInv, [Next]_vars PROVE FinalInv'
<1>1. NonceInv'
  BY NonceStep DEF FinalInv
<1>2. CASE Mine \/ Finalize \/ Reorg \/ Surprise
  BY <1>1, <1>2, MineKeeps, FinalizeKeeps, ReorgKeeps, SurpriseKeeps
<1>3. CASE \E p \in Publishers : ApiStep(p) \/ \E o \in Ops : Publish(p, o)
  BY <1>1, <1>3, PublisherKeeps
<1>4. CASE WorkerStep \/ \E o \in Ops : PickUp(o) \/ Audit(o)
  BY <1>1, <1>4, WorkerKeeps, PickUpKeeps, AuditKeeps
<1>5. CASE \E p \in Processes : Crash(p)
  BY <1>1, <1>5, CrashKeeps
<1>6. CASE UNCHANGED vars
  BY <1>1, <1>6, OthersKeep DEF vars, l1, RowStep
<1> QED BY <1>2, <1>3, <1>4, <1>5, <1>6 DEF Next

LEMMA FinalInit == Init => FinalInv
<1> SUFFICES ASSUME Init PROVE FinalInv
  OBVIOUS
<1>1. NonceInv
  BY NonceInit
<1>2. BlocksAreOld
  BY DEF Init, BlocksAreOld
<1>3. \A o \in Ops : RowIsKnown(row[o])
  BY DEF Init, RowIsKnown, NoRow
<1>4. task[Worker].pc = "idle"
  BY DEF Init, Processes, Idle
<1> QED BY <1>1, <1>2, <1>3, <1>4, QuietTask DEF FinalInv

LEMMA SpecFinalInv == Spec => []FinalInv
BY FinalInit, FinalStep, PTL DEF Spec

(* FINALIZED is only said of a transaction that succeeded in a finalized block of
   L1, however many reorganisations fall between the worker's reads and its write. *)
THEOREM FinalIsMinedAlways == Spec => []FinalIsMined
<1>1. FinalInv => FinalIsMined
  BY DEF FinalInv, RowIsKnown, FinalBlock, FinalIsMined
<1> QED BY <1>1, SpecFinalInv, PTL

-----------------------------------------------------------------------------
(* The journal implements the ledger of operations. *)

LEMMA VerdictOf ==
  ASSUME NonceInv, NEW o \in Ops
  PROVE  /\ Verdict(o) = "none" <=> row[o].status = "none"
         /\ Verdict(o) = "open" <=> row[o].status \in Pending
         /\ Verdict(o) = "final" <=> row[o].status = "FINALIZED"
         /\ Verdict(o) = "failed" <=> row[o].status = "FAILED"
         /\ Verdict(o) = "recovery" <=> row[o].status = "RECOVERY_REQUIRED"
<1>1. row[o].status \in {"none", "FINALIZED", "FAILED", "RECOVERY_REQUIRED"} \cup Pending
  BY DEF NonceInv, TypeOK, Rows
<1> QED BY <1>1 DEF Verdict, Pending

verdict == [o \in Ops |-> Verdict(o)]
bound == [o \in Ops |-> row[o].tx]

LEMMA SameRows ==
  ASSUME row' = row
  PROVE  UNCHANGED Ledger!vars
BY DEF Ledger!vars, Verdict

(* One row changes, and with it one verdict and one binding. *)
LEMMA OneVerdict ==
  ASSUME NEW o \in Ops, Others(o), NEW v, Verdict(o)' = v
  PROVE  verdict' = [verdict EXCEPT ![o] = v]
<1>1. \A q \in Ops \ {o} : Verdict(q)' = Verdict(q)
  BY DEF Others, Verdict
<1> QED BY <1>1 DEF verdict

LEMMA OneBinding ==
  ASSUME NEW o \in Ops, Others(o), NEW t, row'[o].tx = t
  PROVE  bound' = [bound EXCEPT ![o] = t]
BY DEF Others, bound

LEMMA SameBinding ==
  ASSUME NEW o \in Ops, Others(o), row'[o].tx = row[o].tx
  PROVE  bound' = bound
BY DEF Others, bound

LEMMA SameVerdict ==
  ASSUME NEW o \in Ops, Others(o), Verdict(o)' = Verdict(o)
  PROVE  verdict' = verdict
<1>1. \A q \in Ops \ {o} : Verdict(q)' = Verdict(q)
  BY DEF Others, Verdict
<1> QED BY <1>1 DEF verdict

LEMMA BindImplements ==
  ASSUME NonceInv, NonceInv', NEW o \in Ops, Others(o), Binds(o)
  PROVE  Ledger!Bind(o)
<1>1. PICK s \in Sigs : row'[o].tx = <<o, s>>
  BY DEF Binds
<1> DEFINE t == <<o, s>>
<1>2. t \in Txs /\ t[1] = o /\ t # NoTx
  BY DEF Txs
<1>3. ASSUME NEW q \in Ops PROVE row[q].tx # t
  <2>1. CASE q = o
    BY <1>2, <2>1 DEF Binds
  <2>2. CASE q # o
    BY <1>2, <2>2 DEF NonceInv, RowsAreBound
  <2> QED BY <2>1, <2>2
<1>4. t \in Txs \ {bound[q] : q \in Ops}
  BY <1>2, <1>3 DEF bound
<1>5. bound' = [bound EXCEPT ![o] = t]
  BY <1>1, OneBinding
<1>6. Verdict(o) = "open" /\ Verdict(o)' = "open"
  BY DEF Binds, Verdict, Pending
<1>7. verdict' = verdict
  BY <1>6, SameVerdict
<1>8. verdict[o] = "open" /\ bound[o] = NoTx
  BY <1>6 DEF verdict, bound, Binds
<1> QED BY <1>4, <1>5, <1>7, <1>8 DEF Ledger!Bind, verdict, bound

LEMMA EndImplements ==
  ASSUME FinalInv, NonceInv', NEW o \in Ops, Others(o), Ends(o)
  PROVE  Ledger!End(o)
<1>1. NonceInv
  BY DEF FinalInv
<1>2. verdict[o] = "open" /\ bound' = bound
  BY <1>1, VerdictOf, SameBinding DEF Ends, verdict
<1>3. PICK v \in {"recovery", "final", "failed"} :
        Verdict(o)' = v /\ (v \in {"final", "failed"} => row[o].tx # NoTx)
  <2>1. CASE row'[o].status = "RECOVERY_REQUIRED"
    BY <2>1 DEF Verdict, Pending
  <2>2. CASE row'[o].status = "FAILED" /\ task[Worker].pc = "fail" /\ task[Worker].op = o
    BY <2>2 DEF Verdict, Pending, FinalInv, TaskIsKnown
  <2>3. CASE row'[o].status = "FINALIZED" /\ row[o].status = "INCLUDED"
    BY <1>1, <2>3 DEF Verdict, Pending, NonceInv, RowsAreBound
  <2> QED BY <2>1, <2>2, <2>3 DEF Ends
<1>4. verdict' = [verdict EXCEPT ![o] = v]
  BY <1>3, OneVerdict
<1>5. v \in {"recovery"} \cup (IF bound[o] = NoTx THEN {} ELSE {"final", "failed"})
  BY <1>3 DEF bound
<1> QED BY <1>2, <1>4, <1>5 DEF Ledger!End, verdict, bound

LEMMA SurpriseImplements ==
  ASSUME NonceInv, NEW o \in Ops, SurprisesAll(o)
  PROVE  \E S \in SUBSET Ops : Ledger!Surprise(S)
<1> DEFINE S == Surprised(o)
<1>1. S \in SUBSET Ops /\ \A q \in S : row[q].status = "FINALIZED"
  BY DEF Surprised
<1>2. o \in S
  BY DEF Surprised, SurprisesAll, NonceInv, TypeOK, Rows
<1>3. ASSUME NEW q \in Ops
      PROVE  /\ Verdict(q)' = IF q \in S THEN "recovery" ELSE Verdict(q)
             /\ row'[q].tx = row[q].tx
  <2>1. row[q] \in Rows
    BY DEF NonceInv, TypeOK
  <2>2. CASE q \in S
    <3>1. row'[q].status = "RECOVERY_REQUIRED" /\ row'[q].tx = row[q].tx
      BY <2>1, <2>2 DEF SurprisesAll, Rows
    <3> QED BY <2>2, <3>1 DEF Verdict, Pending
  <2>3. CASE q \notin S
    <3>1. row'[q] = row[q]
      BY <2>3 DEF SurprisesAll
    <3>2. Verdict(q)' = Verdict(q)
      BY <3>1 DEF Verdict
    <3> HIDE DEF S
    <3> QED BY <2>3, <3>1, <3>2
  <2> QED BY <2>2, <2>3
<1>4. \A q \in S : verdict[q] = "final"
  BY <1>1, VerdictOf DEF verdict
<1> HIDE DEF S
<1>5. verdict' = [q \in Ops |-> IF q \in S THEN "recovery" ELSE verdict[q]]
  BY <1>3 DEF verdict
<1>6. bound' = bound
  BY <1>3 DEF bound
<1> QED BY <1>1, <1>2, <1>4, <1>5, <1>6 DEF Ledger!Surprise, verdict, bound

LEMMA JournalStepImplements ==
  ASSUME FinalInv, NonceInv', RowStep
  PROVE  [Ledger!Next]_(Ledger!vars)
<1>1. CASE row' = row
  BY <1>1, SameRows
<1>2. ASSUME NEW o \in Ops, Others(o), Reserves(o)
      PROVE  Ledger!Reserve(o)
  <2>1. Verdict(o) = "none" /\ Verdict(o)' = "open" /\ row[o].tx = NoTx
    BY <1>2, VerdictOf DEF Reserves, Verdict, Pending, FinalInv, NonceInv, RowsAreBound
  <2>2. verdict[o] = "none" /\ verdict' = [verdict EXCEPT ![o] = "open"]
    BY <1>2, <2>1, OneVerdict DEF verdict
  <2>3. bound' = bound
    BY <1>2, <2>1, SameBinding DEF Reserves
  <2> QED BY <2>2, <2>3 DEF Ledger!Reserve, verdict, bound
<1>3. ASSUME NEW o \in Ops, Others(o), Drives(o)
      PROVE  UNCHANGED Ledger!vars
  <2>1. Verdict(o) = "open" /\ Verdict(o)' = "open"
    BY <1>3 DEF Drives, Verdict, Pending
  <2>2. verdict' = verdict /\ bound' = bound
    BY <1>3, <2>1, SameVerdict, SameBinding DEF Drives
  <2> QED BY <2>2 DEF Ledger!vars, verdict, bound
<1>4. ASSUME NEW o \in Ops, Others(o), Binds(o) \/ Ends(o)
      PROVE  Ledger!Bind(o) \/ Ledger!End(o)
  BY <1>4, BindImplements, EndImplements DEF FinalInv
<1>5. CASE \E o \in Ops : SurprisesAll(o)
  BY <1>5, SurpriseImplements DEF FinalInv, Ledger!Next
<1> QED BY <1>1, <1>2, <1>3, <1>4, <1>5 DEF RowStep, Ledger!Next

(* Under any idempotency key an operation is reserved once, bound to one signed
   transaction for ever, and has one verdict, taken back only when L1 rewrote
   finalized blocks: every step of the journal is a step of OperationLedger. *)
THEOREM OperationLedgerIsImplemented == Spec => ImplementsOperationLedger
<1>1. Init => Ledger!Init
  <2> SUFFICES ASSUME Init PROVE Ledger!Init
    OBVIOUS
  <2>1. \A o \in Ops : row[o].status = "none" /\ row[o].tx = NoTx
    BY DEF Init, NoRow
  <2>2. \A o \in Ops : Verdict(o) = "none"
    BY <2>1 DEF Verdict, Pending
  <2> QED BY <2>1, <2>2 DEF Ledger!Init
<1>2. FinalInv /\ [Next]_vars => [Ledger!Next]_(Ledger!vars)
  BY NextRow, NonceStep, JournalStepImplements DEF FinalInv
<1> QED BY <1>1, <1>2, SpecFinalInv, PTL DEF Spec, ImplementsOperationLedger, Ledger!Spec
=============================================================================
