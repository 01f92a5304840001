--------------------------- MODULE Admission_proofs ---------------------------
(***************************************************************************)
(* The admission log, for any number of coordinators, builders, requests,  *)
(* crashes and changes of the writer; and the archive of a coordinator     *)
(* without the log, for any number of the indexer's requests, blocks,      *)
(* reorganisations and restarts.                                           *)
(***************************************************************************)
EXTENDS AdmissionWal, ObserverArchive, SequenceTheorems, WellFoundedInduction, TLAPS

USE AdmissionAssumption

-----------------------------------------------------------------------------
(* The inductive invariant.  Of the log: only the last row may be reserved, a
   receipt is for the request reserved, no two rows share a transaction or a
   deposit, and the rows under a live lease come before every other row that is
   not acknowledged. *)
RowsAreSound ==
  \A i \in Ids : /\ wal[i].status = "RESERVED" <=> wal[i].receipt = NoRequest
                 /\ wal[i].status = "LEASED" <=> wal[i].owner # Nobody
                 /\ wal[i].receipt # NoRequest => wal[i].receipt = wal[i].request
                 /\ wal[i].live => wal[i].status = "LEASED"
                 /\ wal[i].status = "RESERVED" => i = Len(wal)

Apart(r, q) ==
  /\ TransactionOf(r) # TransactionOf(q)
  /\ DepositOf(q) # NoDeposit => DepositOf(r) # DepositOf(q)

RowsAreApart ==
  \A i, j \in Ids : i # j => Apart(wal[i].request, wal[j].request)

LiveComesFirst ==
  \A i, j \in Ids : i <= j /\ wal[j].live => wal[i].status = "ACKED" \/ wal[i].live

LogInv ==
  wal \in Seq(Row) /\ RowsAreSound /\ RowsAreApart /\ LiveComesFirst /\ OneBuilderAtATime

(* Of the processes: what is past the reservation is in the log, an id before it
   is at most the next one, and a recovery has one row at a time. *)
SubmitState == [at : Steps, request : Requests \cup {NoRequest}, id : Nat]
Recovery == [at : {"idle", "sign", "commit"}, ids : SUBSET Nat]

IsReserved(log, id, r) == id \in DOMAIN log /\ log[id].request = r

SubmitIsBound(log, s) ==
  /\ s.at # "idle" => s.request \in Requests
  /\ s.at \in {"deposit", "number"} => s.id = 0 \/ s.id \in DOMAIN log
  /\ s.at = "reserve" => s.id \in 1 .. Len(log) + 1
  /\ s.at \in {"sign", "commit"} => IsReserved(log, s.id, s.request)

RecoveryIsBound(log, r) ==
  /\ r.ids \subseteq DOMAIN log
  /\ r.at # "idle" => r.ids # {}
  /\ \A i, j \in r.ids : i = j

TaskInv ==
  /\ writer \in Coordinators \cup {NoOne}
  /\ submit \in [Coordinators -> SubmitState]
  /\ recover \in [Coordinators -> Recovery]
  /\ listening \in [Coordinators -> BOOLEAN]
  /\ signed \subseteq [id : Nat, request : Requests]
  /\ \A c \in Coordinators :
       SubmitIsBound(wal, submit[c]) /\ RecoveryIsBound(wal, recover[c])
  /\ SignedIsReserved

WalInv == LogInv /\ TaskInv

-----------------------------------------------------------------------------
(* The log as a sequence of rows. *)

LEMMA LogType ==
  ASSUME LogInv
  PROVE  /\ Len(wal) \in Nat /\ Ids = 1 .. Len(wal)
         /\ \A i \in Ids : i \in Nat /\ wal[i] \in Row
BY DEF LogInv, Ids

(* What every step leaves of the log: its rows, and whose bytes they hold. *)
LogIsKept ==
  /\ Len(wal') \in Nat /\ Ids' = 1 .. Len(wal')
  /\ Ids \subseteq Ids' /\ Len(wal) <= Len(wal')
  /\ \A i \in Ids : wal'[i].request = wal[i].request

LEMMA KeptSame ==
  ASSUME LogInv, wal' = wal
  PROVE  LogInv' /\ LogIsKept
BY LogType DEF LogInv, LogIsKept, RowsAreSound, RowsAreApart, LiveComesFirst,
  OneBuilderAtATime, Ids

(* A step that rewrites rows in their place. *)
LEMMA KeptRows ==
  ASSUME LogInv, wal' = [i \in Ids |-> wal'[i]],
         \A i \in Ids : wal'[i] \in Row /\ wal'[i].request = wal[i].request
  PROVE  wal' \in Seq(Row) /\ LogIsKept /\ Len(wal') = Len(wal) /\ Ids' = Ids
<1>1. wal' \in Seq(Row) /\ Len(wal') = Len(wal)
  BY LogType
<1> QED BY <1>1, LogType DEF LogIsKept, Ids

-----------------------------------------------------------------------------
(* reserveAdmission *)

LEMMA LowestIn ==
  ASSUME NEW S, S # {}, S \subseteq Nat, \A i, j \in S : i = j
  PROVE  Lowest(S) \in S
<1>1. PICK i \in S : TRUE
  OBVIOUS
<1>2. \A j \in S : i <= j
  OBVIOUS
<1> QED BY <1>1, <1>2 DEF Lowest

LEMMA HeadIsLast ==
  ASSUME LogInv, Reserved # {}
  PROVE  Lowest(Reserved) \in Reserved /\ Reserved = {Len(wal)}
<1>1. \A i \in Reserved : i = Len(wal)
  BY DEF Reserved, LogInv, RowsAreSound
<1>2. Reserved \subseteq Nat /\ \A i, j \in Reserved : i = j
  BY <1>1, LogType DEF Reserved
<1> QED BY <1>1, <1>2, LowestIn

LEMMA NewRowType ==
  ASSUME NEW r \in Requests
  PROVE  NewRow(r) \in Row
BY DEF NewRow, Row

LEMMA ReserveKeeps ==
  ASSUME LogInv, NEW id \in 1 .. Len(wal) + 1, NEW r \in Requests, ReserveAdmission(id, r)
  PROVE  LogInv' /\ LogIsKept /\ IsReserved(wal', id, r)
<1> DEFINE n == Len(wal)
<1>1. CASE id \in Ids
  <2>1. wal' = wal
    BY <1>1 DEF ReserveAdmission
  <2>2. SameBytes(id, r)
    BY <1>1 DEF ReserveAdmission, HeadIsMine, Insertable
  <2> QED BY <2>1, <2>2, <1>1, KeptSame DEF SameBytes, IsReserved, Ids
<1>2. CASE id \notin Ids
  <2>1. Reserved = {}
    <3> SUFFICES ASSUME Reserved # {} PROVE FALSE
      OBVIOUS
    <3>1. id \in Reserved
      BY HeadIsLast DEF ReserveAdmission, HeadIsMine
    <3> QED BY <3>1, <1>2 DEF Reserved
  <2>2. wal' = Append(wal, NewRow(r)) /\ id = n + 1
    BY <1>2, LogType DEF ReserveAdmission
  <2>3. wal' \in Seq(Row) /\ Len(wal') = n + 1 /\ wal'[n + 1] = NewRow(r)
        /\ \A i \in 1 .. n : wal'[i] = wal[i]
    BY <2>2, NewRowType, LogType, AppendProperties DEF LogInv
  <2>4. Ids' = 1 .. n + 1 /\ Ids = 1 .. n /\ n \in Nat
    BY <2>3, LogType DEF Ids
  <2>5. \A i \in Ids : Apart(wal[i].request, r) /\ Apart(r, wal[i].request)
    BY <2>1, <1>2 DEF ReserveAdmission, Insertable, SharesDeposit, Apart
  <2>6. \A i \in Ids : wal[i].status # "RESERVED"
    BY <2>1 DEF Reserved
  <2>7. RowsAreSound'
    BY <2>3, <2>4, <2>6 DEF LogInv, RowsAreSound, NewRow
  <2>8. RowsAreApart'
    BY <2>3, <2>4, <2>5 DEF LogInv, RowsAreApart, NewRow
  <2>9. LiveComesFirst'
    BY <2>3, <2>4 DEF LogInv, LiveComesFirst, NewRow
  <2>10. OneBuilderAtATime'
    BY <2>3, <2>4 DEF LogInv, OneBuilderAtATime, NewRow
  <2>11. LogIsKept
    BY <2>3, <2>4 DEF LogIsKept
  <2>12. IsReserved(wal', id, r)
    BY <2>2, <2>3, <2>4 DEF IsReserved, NewRow
  <2> QED BY <2>3, <2>7, <2>8, <2>9, <2>10, <2>11, <2>12 DEF LogInv
<1> QED BY <1>1, <1>2

-----------------------------------------------------------------------------
(* commitAdmission *)

WithReceipt(row, r) == [row EXCEPT !.receipt = r, !.status = "COMMITTED"]

LEMMA CommittedRow ==
  ASSUME NEW row \in Row, NEW r \in Requests
  PROVE  LET q == WithReceipt(row, r)
         IN /\ q \in Row /\ q.request = row.request /\ q.receipt = r
            /\ q.status = "COMMITTED" /\ q.owner = row.owner /\ q.live = row.live
<1>1. ASSUME NEW x \in Requests \cup {NoRequest},
             NEW st \in {"RESERVED", "COMMITTED", "LEASED", "ACKED"}
      PROVE  [row EXCEPT !.receipt = x, !.status = st] \in Row
  BY DEF Row
<1>2. WithReceipt(row, r) \in Row
  BY <1>1 DEF WithReceipt
<1> QED BY <1>2 DEF Row, WithReceipt

LEMMA CommitKeeps ==
  ASSUME LogInv, NEW id, NEW r \in Requests, IsReserved(wal, id, r), CommitAdmission(id, r)
  PROVE  /\ LogInv' /\ LogIsKept
         /\ id \in Reserved => /\ id = Len(wal) /\ wal'[id].receipt = r
                               /\ wal'[id].status = "COMMITTED"
                               /\ \A i \in Ids \ {id} : wal'[i] = wal[i]
         /\ id \notin Reserved => wal' = wal
<1>1. CASE id \notin Reserved
  BY <1>1, KeptSame DEF CommitAdmission
<1>2. CASE id \in Reserved
  <2> DEFINE Q(i) == IF i = id THEN WithReceipt(wal[id], r) ELSE wal[i]
  <2>1. id \in Ids /\ wal[id].status = "RESERVED" /\ wal[id].request = r /\ id = Len(wal)
    BY <1>2 DEF Reserved, IsReserved, LogInv, RowsAreSound
  <2>2. \A i \in Ids : Q(i) \in Row /\ Q(i).request = wal[i].request
    BY <2>1, CommittedRow, LogType
  <2>3. wal' = [i \in Ids |-> Q(i)]
    BY <1>2, <2>1 DEF CommitAdmission, Ids, WithReceipt
  <2>4. wal' \in Seq(Row) /\ LogIsKept /\ Len(wal') = Len(wal) /\ Ids' = Ids
    <3> HIDE DEF Q
    <3>1. wal' = [i \in Ids |-> wal'[i]] /\ \A i \in Ids : wal'[i] = Q(i)
      BY <2>3
    <3> QED BY <2>2, <3>1, KeptRows
  <2>5. /\ wal'[id].receipt = r /\ wal'[id].status = "COMMITTED" /\ wal'[id].request = r
        /\ wal'[id].owner = wal[id].owner /\ wal'[id].live = wal[id].live
        /\ \A i \in Ids \ {id} : wal'[i] = wal[i]
    BY <2>1, <2>3, CommittedRow, LogType
  <2>6. ~wal[id].live /\ wal[id].owner = Nobody
    BY <2>1, LogType DEF LogInv, RowsAreSound, Row
  <2> HIDE DEF Q
  <2>7. RowsAreSound'
    BY <2>1, <2>4, <2>5, <2>6 DEF LogInv, RowsAreSound
  <2>8. RowsAreApart'
    BY <2>4, LogType DEF LogInv, RowsAreApart, LogIsKept
  <2>9. LiveComesFirst'
    BY <2>1, <2>4, <2>5, <2>6 DEF LogInv, LiveComesFirst
  <2>10. OneBuilderAtATime'
    BY <2>4, <2>5, <2>6 DEF LogInv, OneBuilderAtATime
  <2> QED BY <1>2, <2>1, <2>4, <2>5, <2>7, <2>8, <2>9, <2>10 DEF LogInv
<1> QED BY <1>1, <1>2

-----------------------------------------------------------------------------
(* leaseAdmissions, ackAdmissions, and the leases that expire *)

LEMMA LeaseKeeps ==
  ASSUME LogInv, NEW b \in Builders, LeaseAdmissions(b)
  PROVE  /\ LogInv' /\ LogIsKept /\ Ids' = Ids
         /\ \A i \in Ids : wal'[i].receipt = wal[i].receipt
         /\ \E last \in Ids :
              /\ wal[last].receipt # NoRequest
              /\ \A i \in Ids :
                   /\ wal'[i].status = "ACKED" <=> wal[i].status = "ACKED"
                   /\ wal'[i].status = "LEASED" <=>
                        wal[i].status = "LEASED" \/ (i <= last /\ wal[i].status # "ACKED")
<1>1. PICK last \in Ready :
        wal' = [i \in Ids |->
                  IF i \in Ready /\ i <= last
                  THEN [wal[i] EXCEPT !.status = "LEASED", !.owner = b, !.live = TRUE]
                  ELSE wal[i]]
  BY DEF LeaseAdmissions
<1> DEFINE Q(i) == IF i \in Ready /\ i <= last
                   THEN [wal[i] EXCEPT !.status = "LEASED", !.owner = b, !.live = TRUE]
                   ELSE wal[i]
<1>2. last \in Ids /\ \A i \in Ids : i <= last /\ wal[i].status # "ACKED" => i \in Ready
  BY LogType DEF Ready, Unacked
<1>3. \A i \in Ready : /\ i \in Ids /\ wal[i].status \in {"COMMITTED", "LEASED"}
                       /\ wal[i].receipt # NoRequest /\ ~wal[i].live
  BY LogType DEF Ready, Unacked, Free, LogInv, RowsAreSound
<1>4. \A i \in Ids : wal[i] \in Row
  BY LogType
<1>5. ASSUME NEW row \in Row
      PROVE  LET q == [row EXCEPT !.status = "LEASED", !.owner = b, !.live = TRUE]
             IN /\ q \in Row /\ q.request = row.request /\ q.receipt = row.receipt
                /\ q.status = "LEASED" /\ q.owner = b /\ q.live
  BY DEF Row
<1>6. \A i \in Ids : Q(i) \in Row /\ Q(i).request = wal[i].request
  BY <1>4, <1>5
<1>7. wal' \in Seq(Row) /\ LogIsKept /\ Len(wal') = Len(wal) /\ Ids' = Ids
  <2>1. wal' = [i \in Ids |-> Q(i)]
    BY <1>1
  <2> HIDE DEF Q
  <2>2. wal' = [i \in Ids |-> wal'[i]] /\ \A i \in Ids : wal'[i] = Q(i)
    BY <2>1
  <2> QED BY <1>6, <2>2, KeptRows
<1>8. \A i \in Ids : i \in Ready /\ i <= last =>
        /\ wal'[i].receipt = wal[i].receipt /\ wal'[i].request = wal[i].request
        /\ wal'[i].status = "LEASED" /\ wal'[i].owner = b /\ wal'[i].live
  BY <1>1, <1>4, <1>5
<1>9. \A i \in Ids : ~(i \in Ready /\ i <= last) => wal'[i] = wal[i]
  BY <1>1
<1> HIDE DEF Q
<1>10. \A i \in Ids : ~wal[i].live
  <2> SUFFICES ASSUME NEW i \in Ids, wal[i].live PROVE FALSE
    OBVIOUS
  <2>1. wal[i].status = "LEASED" /\ i \in Unacked
    BY DEF LogInv, RowsAreSound, Unacked
  <2>2. CASE i <= last
    BY <2>1, <2>2, <1>2, <1>3
  <2>3. CASE last <= i
    BY <2>3, <1>2, <1>3 DEF LogInv, LiveComesFirst
  <2> QED BY <2>2, <2>3, <1>2, LogType
<1>11. RowsAreSound'
  BY <1>3, <1>7, <1>8, <1>9 DEF LogInv, RowsAreSound
<1>12. RowsAreApart'
  BY <1>7 DEF LogInv, RowsAreApart, LogIsKept
<1>13. LiveComesFirst'
  <2> SUFFICES ASSUME NEW i \in Ids, NEW j \in Ids, i <= j, wal'[j].live
               PROVE  wal'[i].status = "ACKED" \/ wal'[i].live
    BY <1>7 DEF LiveComesFirst
  <2>1. j <= last
    BY <1>9, <1>10
  <2>2. i <= last
    BY <2>1, <1>2, LogType
  <2> QED BY <2>2, <1>2, <1>8, <1>9
<1>14. OneBuilderAtATime'
  BY <1>7, <1>8, <1>9, <1>10 DEF OneBuilderAtATime
<1>15. \A i \in Ids : /\ wal'[i].status = "ACKED" <=> wal[i].status = "ACKED"
                      /\ wal'[i].status = "LEASED" <=>
                           wal[i].status = "LEASED" \/ (i <= last /\ wal[i].status # "ACKED")
  BY <1>2, <1>3, <1>8, <1>9
<1> QED BY <1>2, <1>3, <1>7, <1>8, <1>9, <1>11, <1>12, <1>13, <1>14, <1>15 DEF LogInv

LEMMA AckKeeps ==
  ASSUME LogInv, NEW b \in Builders, AckAdmissions(b)
  PROVE  /\ LogInv' /\ LogIsKept /\ Ids' = Ids
         /\ \A i \in Ids :
              /\ wal'[i].receipt = wal[i].receipt
              /\ wal'[i].status \in {"LEASED", "ACKED"} <=> wal[i].status \in {"LEASED", "ACKED"}
              /\ wal[i].status = "ACKED" => wal'[i].status = "ACKED"
<1>1. PICK S \in SUBSET {i \in Ids : wal[i].status = "LEASED" /\ wal[i].owner = b} :
        wal' = [i \in Ids |-> IF i \in S THEN AckedBy(wal[i]) ELSE wal[i]]
  BY DEF AckAdmissions
<1> DEFINE Q(i) == IF i \in S THEN AckedBy(wal[i]) ELSE wal[i]
<1>2. ASSUME NEW row \in Row
      PROVE  LET q == AckedBy(row)
             IN /\ q \in Row /\ q.request = row.request /\ q.receipt = row.receipt
                /\ q.status = "ACKED" /\ q.owner = Nobody /\ ~q.live
  BY DEF Row, AckedBy
<1>3. \A i \in Ids : Q(i) \in Row /\ Q(i).request = wal[i].request
  BY <1>2, LogType
<1>4. wal' \in Seq(Row) /\ LogIsKept /\ Len(wal') = Len(wal) /\ Ids' = Ids
  <2>1. wal' = [i \in Ids |-> Q(i)]
    BY <1>1
  <2> HIDE DEF Q
  <2>2. wal' = [i \in Ids |-> wal'[i]] /\ \A i \in Ids : wal'[i] = Q(i)
    BY <2>1
  <2> QED BY <1>3, <2>2, KeptRows
<1>5. \A i \in S :
        /\ i \in Ids /\ wal[i].status = "LEASED"
        /\ wal'[i].receipt = wal[i].receipt /\ wal'[i].request = wal[i].request
        /\ wal'[i].status = "ACKED" /\ wal'[i].owner = Nobody /\ ~wal'[i].live
  BY <1>1, <1>2, LogType
<1>6. \A i \in Ids \ S : wal'[i] = wal[i]
  BY <1>1
<1> HIDE DEF Q
<1>7. RowsAreSound'
  BY <1>4, <1>5, <1>6 DEF LogInv, RowsAreSound
<1>8. RowsAreApart'
  BY <1>4 DEF LogInv, RowsAreApart, LogIsKept
<1>9. LiveComesFirst'
  BY <1>4, <1>5, <1>6 DEF LogInv, LiveComesFirst
<1>10. OneBuilderAtATime'
  BY <1>4, <1>5, <1>6 DEF LogInv, OneBuilderAtATime
<1> QED BY <1>4, <1>5, <1>6, <1>7, <1>8, <1>9, <1>10 DEF LogInv

LEMMA ExpireKeeps ==
  ASSUME LogInv, NEW b \in Builders, Expire(b)
  PROVE  /\ LogInv' /\ LogIsKept /\ Ids' = Ids
         /\ \A i \in Ids : wal'[i].receipt = wal[i].receipt /\ wal'[i].status = wal[i].status
<1> DEFINE Q(i) == IF wal[i].owner = b THEN [wal[i] EXCEPT !.live = FALSE] ELSE wal[i]
<1>1. wal' = [i \in Ids |-> Q(i)]
  BY DEF Expire
<1>2. ASSUME NEW row \in Row
      PROVE  LET q == [row EXCEPT !.live = FALSE]
             IN /\ q \in Row /\ q.request = row.request /\ q.receipt = row.receipt
                /\ q.status = row.status /\ q.owner = row.owner /\ ~q.live
  BY DEF Row
<1>3. \A i \in Ids : Q(i) \in Row /\ Q(i).request = wal[i].request
  BY <1>2, LogType
<1>4. wal' \in Seq(Row) /\ LogIsKept /\ Len(wal') = Len(wal) /\ Ids' = Ids
  <2> HIDE DEF Q
  <2>1. wal' = [i \in Ids |-> wal'[i]] /\ \A i \in Ids : wal'[i] = Q(i)
    BY <1>1
  <2> QED BY <1>3, <2>1, KeptRows
<1>5. \A i \in Ids :
        /\ wal'[i].receipt = wal[i].receipt /\ wal'[i].request = wal[i].request
        /\ wal'[i].status = wal[i].status /\ wal'[i].owner = wal[i].owner
        /\ wal[i].owner = b => ~wal'[i].live
        /\ wal[i].owner # b => wal'[i].live = wal[i].live
  BY <1>1, <1>2, LogType
<1> HIDE DEF Q
<1>6. \A i \in Ids : ~wal'[i].live
  BY <1>5 DEF Expire, LogInv, OneBuilderAtATime
<1> QED BY <1>4, <1>5, <1>6 DEF LogInv, RowsAreSound, RowsAreApart, LiveComesFirst,
  OneBuilderAtATime, LogIsKept

-----------------------------------------------------------------------------
(* The processes: whatever a step leaves of a task stays bound, since the log
   keeps its rows. *)

LEMMA TaskStep ==
  ASSUME LogInv, TaskInv, LogIsKept,
         writer' \in Coordinators \cup {NoOne},
         listening' \in [Coordinators -> BOOLEAN],
         submit' \in [Coordinators -> SubmitState],
         \A c \in Coordinators : submit'[c] = submit[c] \/ SubmitIsBound(wal', submit'[c]),
         recover' \in [Coordinators -> Recovery],
         \A c \in Coordinators : recover'[c] = recover[c] \/ RecoveryIsBound(wal', recover'[c]),
         signed' \subseteq [id : Nat, request : Requests],
         \A s \in signed' : s \in signed \/ IsReserved(wal', s.id, s.request)
  PROVE  TaskInv'
<1> USE LogType DEF Ids
<1>1. \A id, r : IsReserved(wal, id, r) => IsReserved(wal', id, r)
  BY DEF LogIsKept, IsReserved
<1>2. \A s : s.id \in Nat /\ SubmitIsBound(wal, s) => SubmitIsBound(wal', s)
  BY <1>1 DEF LogIsKept, SubmitIsBound
<1>3. \A r : RecoveryIsBound(wal, r) => RecoveryIsBound(wal', r)
  BY DEF LogIsKept, RecoveryIsBound
<1>4. \A c \in Coordinators : SubmitIsBound(wal', submit'[c]) /\ RecoveryIsBound(wal', recover'[c])
  <2> SUFFICES ASSUME NEW c \in Coordinators
               PROVE  SubmitIsBound(wal', submit'[c]) /\ RecoveryIsBound(wal', recover'[c])
    OBVIOUS
  <2>1. submit[c].id \in Nat /\ SubmitIsBound(wal, submit[c]) /\ RecoveryIsBound(wal, recover[c])
    BY DEF TaskInv, SubmitState
  <2> QED BY <2>1, <1>2, <1>3
<1>5. SignedIsReserved'
  BY <1>1 DEF TaskInv, SignedIsReserved, IsReserved
<1> QED BY <1>4, <1>5 DEF TaskInv

LEMMA NoSubmitType ==
  /\ NoSubmit \in SubmitState
  /\ \A log : SubmitIsBound(log, NoSubmit)
BY DEF NoSubmit, SubmitState, Steps, SubmitIsBound

LEMMA NoRecoveryType ==
  /\ NoRecovery \in Recovery
  /\ \A log : RecoveryIsBound(log, NoRecovery)
BY DEF NoRecovery, Recovery, RecoveryIsBound

(* A submission that goes to its next step. *)
LEMMA SubmitMoves ==
  ASSUME LogInv, TaskInv, LogIsKept, NEW c \in Coordinators,
         UNCHANGED <<writer, recover, listening, signed>>,
         NEW s \in SubmitState, SubmitIsBound(wal', s),
         submit' = [submit EXCEPT ![c] = s]
  PROVE  TaskInv'
<1>1. submit' \in [Coordinators -> SubmitState]
  BY DEF TaskInv
<1>2. \A k \in Coordinators : submit'[k] = submit[k] \/ SubmitIsBound(wal', submit'[k])
  BY DEF TaskInv
<1> QED BY <1>1, <1>2, TaskStep DEF TaskInv

LEMMA SubmitGoes ==
  ASSUME TaskInv, NEW c \in Coordinators, NEW step \in Steps, Goes(c, step)
  PROVE  LET s == [submit[c] EXCEPT !.at = step]
         IN /\ s \in SubmitState /\ submit' = [submit EXCEPT ![c] = s]
            /\ s.at = step /\ s.id = submit[c].id /\ s.request = submit[c].request
BY DEF TaskInv, Goes, SubmitState

LEMMA SubmitEnds ==
  ASSUME LogInv, TaskInv, LogIsKept, NEW c \in Coordinators,
         UNCHANGED <<writer, recover, listening, signed>>, EndSubmit(c)
  PROVE  TaskInv'
BY SubmitMoves, NoSubmitType DEF EndSubmit

LEMMA SubmitKeeps ==
  ASSUME WalInv, NEW c \in Coordinators, SubmitStep(c)
  PROVE  WalInv'
<1> USE DEF WalInv
<1> DEFINE s == submit[c]
<1>1. s \in SubmitState /\ SubmitIsBound(wal, s)
  BY DEF TaskInv
<1>2. wal' = wal => LogInv' /\ LogIsKept
  BY KeptSame
<1>3. {"find", "deposit", "number", "reserve", "sign", "commit"} \subseteq Steps
  BY DEF Steps
<1>4. ASSUME NEW r \in Requests, Submit(c, r) PROVE WalInv'
  <2>1. [NoSubmit EXCEPT !.at = "find", !.request = r] \in SubmitState
    BY DEF NoSubmit, SubmitState, Steps
  <2>2. SubmitIsBound(wal', [NoSubmit EXCEPT !.at = "find", !.request = r])
    BY DEF NoSubmit, SubmitIsBound
  <2> QED BY <1>2, <1>4, <2>1, <2>2, SubmitMoves DEF Submit
<1>5. ASSUME FindExisting(c) PROVE WalInv'
  <2>1. PICK id \in {0} \cup Ids : submit' = [submit EXCEPT ![c].at = "deposit", ![c].id = id]
    BY <1>5 DEF FindExisting, WithTransaction
  <2> DEFINE t == [s EXCEPT !.at = "deposit", !.id = id]
  <2>2. id \in Nat
    BY LogType
  <2>3. t \in SubmitState /\ t.at = "deposit" /\ t.id = id /\ t.request = s.request
    BY <1>1, <1>3, <2>2 DEF SubmitState
  <2>4. SubmitIsBound(wal', t)
    BY <1>1, <1>5, <2>3 DEF SubmitIsBound, FindExisting, At, Ids
  <2>5. submit' = [submit EXCEPT ![c] = t]
    BY <2>1
  <2> QED BY <1>2, <1>5, <2>3, <2>4, <2>5, SubmitMoves DEF FindExisting
<1>6. ASSUME CheckDeposit(c) PROVE WalInv'
  <2>1. CASE EndSubmit(c)
    BY <1>2, <1>6, <2>1, SubmitEnds DEF CheckDeposit
  <2>2. CASE Goes(c, "number")
    <3>1. SubmitIsBound(wal', [s EXCEPT !.at = "number"])
      BY <1>1, <1>3, <1>6, <2>2, SubmitGoes DEF SubmitIsBound, CheckDeposit, At
    <3> QED BY <1>2, <1>3, <1>6, <2>2, <3>1, SubmitGoes, SubmitMoves DEF CheckDeposit
  <2> QED BY <1>6, <2>1, <2>2 DEF CheckDeposit
<1>7. ASSUME Number(c) PROVE WalInv'
  <2> DEFINE n == IF s.id = 0 THEN Len(wal) + 1 ELSE s.id
             t == [s EXCEPT !.at = "reserve", !.id = n]
  <2>1. n \in 1 .. Len(wal) + 1 /\ n \in Nat
    BY <1>1, <1>7, LogType DEF Number, At, SubmitIsBound, Ids
  <2> HIDE DEF n
  <2>2. t \in SubmitState /\ t.at = "reserve" /\ t.id = n /\ t.request = s.request
    BY <1>1, <1>3, <2>1 DEF SubmitState
  <2>3. SubmitIsBound(wal', t)
    BY <1>1, <1>7, <2>1, <2>2 DEF SubmitIsBound, Number, At
  <2>4. submit' = [submit EXCEPT ![c] = t]
    BY <1>1, <1>7 DEF Number, TaskInv, SubmitState, n
  <2> QED BY <1>2, <1>7, <2>2, <2>3, <2>4, SubmitMoves DEF Number
<1>8. ASSUME Reserve(c) PROVE WalInv'
  <2>1. s.id \in 1 .. Len(wal) + 1 /\ s.request \in Requests /\ ReserveAdmission(s.id, s.request)
    BY <1>1, <1>8 DEF Reserve, At, SubmitIsBound
  <2>2. LogInv' /\ LogIsKept /\ IsReserved(wal', s.id, s.request)
    BY <2>1, ReserveKeeps
  <2>3. CASE EndSubmit(c)
    BY <1>8, <2>2, <2>3, SubmitEnds DEF Reserve
  <2>4. CASE Goes(c, "sign")
    <3>1. SubmitIsBound(wal', [s EXCEPT !.at = "sign"])
      BY <1>3, <2>1, <2>2, <2>4, SubmitGoes DEF SubmitIsBound
    <3> QED BY <1>3, <1>8, <2>2, <2>4, <3>1, SubmitGoes, SubmitMoves DEF Reserve
  <2> QED BY <1>8, <2>3, <2>4 DEF Reserve
<1>9. ASSUME Sign(c) PROVE WalInv'
  <2>1. s.request \in Requests /\ s.id \in Nat /\ IsReserved(wal, s.id, s.request)
    BY <1>1, <1>9 DEF Sign, At, SubmitIsBound, SubmitState
  <2>2. wal' = wal /\ signed' = signed \cup {[id |-> s.id, request |-> s.request]}
    BY <1>9 DEF Sign
  <2>3. /\ submit' \in [Coordinators -> SubmitState]
        /\ \A k \in Coordinators : submit'[k] = submit[k] \/ SubmitIsBound(wal', submit'[k])
    <3>1. SubmitIsBound(wal', [s EXCEPT !.at = "commit"])
      BY <1>3, <1>9, <2>1, <2>2, SubmitGoes DEF SubmitIsBound, Sign
    <3> QED BY <1>3, <1>9, <3>1, SubmitGoes DEF Sign, TaskInv
  <2>4. signed' \subseteq [id : Nat, request : Requests]
    BY <2>1, <2>2 DEF TaskInv
  <2>5. \A p \in signed' : p \in signed \/ IsReserved(wal', p.id, p.request)
    BY <2>1, <2>2
  <2> QED BY <1>2, <1>9, <2>2, <2>3, <2>4, <2>5, TaskStep DEF Sign, TaskInv
<1>10. ASSUME Commit(c) PROVE WalInv'
  <2>1. s.request \in Requests /\ IsReserved(wal, s.id, s.request) /\ CommitAdmission(s.id, s.request)
    BY <1>1, <1>10 DEF Commit, At, SubmitIsBound
  <2>2. LogInv' /\ LogIsKept
    BY <2>1, CommitKeeps
  <2> QED BY <1>10, <2>2, SubmitEnds DEF Commit
<1>11. ASSUME SubmitFails(c) PROVE WalInv'
  BY <1>2, <1>11, SubmitEnds DEF SubmitFails
<1> QED BY <1>4, <1>5, <1>6, <1>7, <1>8, <1>9, <1>10, <1>11 DEF SubmitStep

(* A step of a recovery that signs nothing. *)
LEMMA RecoveryMoves ==
  ASSUME LogInv, TaskInv, LogIsKept, NEW c \in Coordinators,
         UNCHANGED <<writer, submit, signed>>, listening' \in [Coordinators -> BOOLEAN],
         NEW r \in Recovery, RecoveryIsBound(wal', r),
         recover' = [recover EXCEPT ![c] = r]
  PROVE  TaskInv'
<1>1. recover' \in [Coordinators -> Recovery]
  BY DEF TaskInv
<1>2. \A k \in Coordinators : recover'[k] = recover[k] \/ RecoveryIsBound(wal', recover'[k])
  BY DEF TaskInv
<1> QED BY <1>1, <1>2, TaskStep DEF TaskInv

LEMMA RecoveryEnd ==
  ASSUME LogInv, TaskInv, LogIsKept, NEW c \in Coordinators,
         UNCHANGED <<writer, submit, signed>>, RecoveryEnds(c)
  PROVE  TaskInv'
<1>1. listening' \in [Coordinators -> BOOLEAN]
  BY DEF RecoveryEnds, TaskInv
<1> QED BY <1>1, RecoveryMoves, NoRecoveryType DEF RecoveryEnds

(* The row that a recovery under way is for. *)
LEMMA RecoveredRow ==
  ASSUME WalInv, NEW c \in Coordinators, recover[c].at # "idle"
  PROVE  LET id == Lowest(recover[c].ids)
         IN /\ id \in recover[c].ids /\ id \in Ids /\ id \in Nat
            /\ wal[id].request \in Requests /\ recover[c].ids \ {id} = {}
<1>1. recover[c] \in Recovery /\ RecoveryIsBound(wal, recover[c])
  BY DEF WalInv, TaskInv
<1>2. Lowest(recover[c].ids) \in recover[c].ids
  BY <1>1, LowestIn DEF Recovery, RecoveryIsBound
<1> QED BY <1>1, <1>2, LogType DEF RecoveryIsBound, WalInv, Ids, Row

LEMMA RecoverKeeps ==
  ASSUME WalInv, NEW c \in Coordinators, RecoverStep(c)
  PROVE  WalInv'
<1> USE DEF WalInv
<1> DEFINE k == recover[c]
           id == Lowest(k.ids)
<1>1. k \in Recovery /\ RecoveryIsBound(wal, k)
  BY DEF TaskInv
<1>2. wal' = wal => LogInv' /\ LogIsKept
  BY KeptSame
<1>3. ASSUME Recover(c) PROVE WalInv'
  <2>1. CASE Reserved = {}
    BY <1>2, <1>3, <2>1, RecoveryEnd DEF Recover
  <2>2. CASE Reserved # {}
    <3> DEFINE r == [k EXCEPT !.at = "sign", !.ids = Reserved]
    <3>1. Reserved \subseteq Ids /\ \A i, j \in Reserved : i = j
      BY <2>2, HeadIsLast DEF Reserved
    <3>2. r \in Recovery /\ r.ids = Reserved
      BY <1>1, <3>1, LogType DEF Recovery
    <3>3. RecoveryIsBound(wal', r)
      BY <1>3, <2>2, <3>1, <3>2 DEF RecoveryIsBound, Recover, Ids
    <3>4. recover' = [recover EXCEPT ![c] = r]
      BY <1>3, <2>2 DEF Recover
    <3> QED BY <1>2, <1>3, <2>2, <3>2, <3>3, <3>4, RecoveryMoves DEF Recover, TaskInv
  <2> QED BY <2>1, <2>2
<1>4. ASSUME RecoverSign(c) PROVE WalInv'
  <2>1. id \in Ids /\ id \in Nat /\ wal[id].request \in Requests
    BY <1>4, RecoveredRow DEF RecoverSign
  <2>2. wal' = wal /\ signed' = signed \cup {[id |-> id, request |-> wal[id].request]}
    BY <1>4 DEF RecoverSign
  <2> DEFINE r == [k EXCEPT !.at = "commit"]
  <2>3. r \in Recovery /\ r.ids = k.ids
    BY <1>1 DEF Recovery
  <2>4. RecoveryIsBound(wal', r)
    BY <1>1, <1>4, <2>2, <2>3 DEF RecoveryIsBound, RecoverSign
  <2>5. recover' = [recover EXCEPT ![c] = r]
    BY <1>4 DEF RecoverSign
  <2>6. signed' \subseteq [id : Nat, request : Requests]
    BY <2>1, <2>2 DEF TaskInv
  <2>7. \A p \in signed' : p \in signed \/ IsReserved(wal', p.id, p.request)
    BY <2>1, <2>2 DEF IsReserved, Ids
  <2>8. /\ recover' \in [Coordinators -> Recovery]
        /\ \A i \in Coordinators : recover'[i] = recover[i] \/ RecoveryIsBound(wal', recover'[i])
    BY <2>3, <2>4, <2>5 DEF TaskInv
  <2> QED BY <1>2, <1>4, <2>2, <2>6, <2>7, <2>8, TaskStep DEF RecoverSign, TaskInv
<1>5. ASSUME RecoverCommit(c) PROVE WalInv'
  <2>1. id \in Ids /\ wal[id].request \in Requests /\ k.ids \ {id} = {}
    BY <1>5, RecoveredRow DEF RecoverCommit
  <2>2. LogInv' /\ LogIsKept
    BY <1>5, <2>1, CommitKeeps DEF RecoverCommit, IsReserved, Ids
  <2>3. RecoveryEnds(c)
    BY <1>5, <2>1 DEF RecoverCommit
  <2> QED BY <1>5, <2>2, <2>3, RecoveryEnd DEF RecoverCommit
<1>6. ASSUME RecoverFails(c) PROVE WalInv'
  BY <1>2, <1>6, RecoveryMoves, NoRecoveryType DEF RecoverFails, TaskInv
<1>7. ASSUME Crash(c) PROVE WalInv'
  <2>1. /\ listening' \in [Coordinators -> BOOLEAN]
        /\ submit' \in [Coordinators -> SubmitState]
        /\ recover' \in [Coordinators -> Recovery]
        /\ \A i \in Coordinators :
             /\ submit'[i] = submit[i] \/ SubmitIsBound(wal', submit'[i])
             /\ recover'[i] = recover[i] \/ RecoveryIsBound(wal', recover'[i])
    BY <1>7, NoSubmitType, NoRecoveryType DEF Crash, TaskInv
  <2> QED BY <1>2, <1>7, <2>1, TaskStep DEF Crash, TaskInv
<1> QED BY <1>3, <1>4, <1>5, <1>6, <1>7 DEF RecoverStep

-----------------------------------------------------------------------------
(* Every step *)

LEMMA WalStep ==
  ASSUME WalInv, [WalNext]_vars
  PROVE  WalInv'
<1> USE DEF WalInv
<1>1. UNCHANGED <<writer, submit, recover, listening, signed>> /\ LogIsKept => TaskInv'
  BY TaskStep DEF TaskInv
<1>2. ASSUME NEW c \in Coordinators, Drain(c) PROVE WalInv'
  BY <1>1, <1>2, LeaseKeeps, AckKeeps DEF Drain
<1>3. ASSUME NEW b \in Builders, Expire(b) PROVE WalInv'
  BY <1>1, <1>3, ExpireKeeps DEF Expire
<1>4. ASSUME PassWriter PROVE WalInv'
  <2>1. writer' \in Coordinators \cup {NoOne} /\ wal' = wal
    BY <1>4 DEF PassWriter, admissionVars
  <2> QED BY <1>4, <2>1, KeptSame, TaskStep DEF PassWriter, admissionVars, TaskInv
<1>5. ASSUME UNCHANGED vars PROVE WalInv'
  BY <1>1, <1>5, KeptSame DEF vars, admissionVars
<1> QED BY <1>2, <1>3, <1>4, <1>5, SubmitKeeps, RecoverKeeps DEF WalNext

LEMMA WalStart == WalInit => WalInv
<1> SUFFICES ASSUME WalInit PROVE WalInv
  OBVIOUS
<1>1. wal \in Seq(Row) /\ Ids = {}
  BY DEF WalInit, Ids
<1>2. LogInv
  BY <1>1 DEF LogInv, RowsAreSound, RowsAreApart, LiveComesFirst, OneBuilderAtATime
<1>3. TaskInv
  BY NoSubmitType, NoRecoveryType DEF WalInit, TaskInv, SignedIsReserved
<1> QED BY <1>2, <1>3 DEF WalInv

LEMMA WalSafe == WalSpec => []WalInv
BY WalStart, WalStep, PTL DEF WalSpec

(* The variables have their types, a row has its receipt once it is committed
   and an owner while it is leased. *)
THEOREM WalTypeCorrect == WalSpec => []WalTypeOK
<1>1. WalInv => WalTypeOK
  <2> SUFFICES ASSUME WalInv PROVE WalTypeOK
    OBVIOUS
  <2>1. recover \in [Coordinators -> [at : {"idle", "sign", "commit"}, ids : SUBSET Ids]]
    BY DEF WalInv, TaskInv, RecoveryIsBound, Recovery, Ids
  <2>2. signed \subseteq [id : Ids, request : Requests]
    BY DEF WalInv, TaskInv, SignedIsReserved
  <2> QED BY <2>1, <2>2 DEF WalInv, LogInv, RowsAreSound, TaskInv, SubmitState, WalTypeOK
<1> QED BY <1>1, WalSafe, PTL

(* No id of the log is ever signed for two requests, whoever signs and whatever
   crashed between the reservation and the signature; and at no time do two
   builders hold rows of the log under live leases. *)
THEOREM PromisesAreKeptAlways == WalSpec => []PromisesAreKept
<1>1. WalInv => PromisesAreKept
  BY DEF WalInv, LogInv, TaskInv, PromisesAreKept
<1> QED BY <1>1, WalSafe, PTL

-----------------------------------------------------------------------------
(* The log implements the ledger. *)

LEMMA ReceiptsType ==
  ASSUME LogInv
  PROVE  \E n \in Nat :
           /\ n <= Len(wal) /\ Committed = 1 .. n
           /\ [i \in Committed |-> wal[i].receipt] \in Seq(Requests)
           /\ \A i \in Ids : wal[i].status = "RESERVED" => n = Len(wal) - 1 /\ i = Len(wal)
<1> DEFINE m == Len(wal)
<1>1. m \in Nat /\ Ids = 1 .. m /\ \A i \in Ids : wal[i] \in Row
  BY LogType
<1>2. \A i \in Ids : i # m => i \in Committed
  BY <1>1 DEF LogInv, RowsAreSound, Committed
<1>3. \A i \in Committed : i \in Ids /\ wal[i].receipt \in Requests
  BY <1>1 DEF Committed, Row
<1>4. CASE m \in Committed \/ m = 0
  <2>1. Committed = 1 .. m
    <3>1. \A i : i \in Committed <=> i \in 1 .. m
      BY <1>1, <1>2, <1>3, <1>4
    <3> QED BY <3>1
  <2>2. \A i \in Ids : wal[i].status # "RESERVED"
    BY <1>1, <1>4 DEF LogInv, RowsAreSound, Committed
  <2> QED BY <1>1, <1>3, <2>1, <2>2
<1>5. CASE m \notin Committed /\ m # 0
  <2>1. Committed = 1 .. m - 1
    <3>1. \A i : i \in Committed <=> i \in 1 .. m - 1
      BY <1>1, <1>2, <1>3, <1>5
    <3> QED BY <3>1
  <2>2. \A i \in Ids : wal[i].status = "RESERVED" => i = m
    BY DEF LogInv, RowsAreSound
  <2> QED BY <1>1, <1>3, <1>5, <2>1, <2>2
<1> QED BY <1>4, <1>5

ledger == [i \in Committed |-> wal[i].receipt]
delivered == {i \in Ids : wal[i].status \in {"LEASED", "ACKED"}}
settled == {i \in Ids : wal[i].status = "ACKED"}

(* What leaves the receipts as they are leaves the ledger as it is. *)
LEMMA SameLedger ==
  ASSUME Ids' = Ids, \A i \in Ids : wal'[i].receipt = wal[i].receipt
  PROVE  Committed' = Committed /\ ledger' = ledger
BY DEF Committed, ledger, Ids

LEMMA NothingNew ==
  ASSUME wal' = wal
  PROVE  UNCHANGED Ledger!ledgerVars
BY DEF Ledger!ledgerVars, Committed, Ids

(* A reservation promises nothing yet. *)
LEMMA ReserveImplements ==
  ASSUME LogInv, NEW id \in 1 .. Len(wal) + 1, NEW r \in Requests, ReserveAdmission(id, r)
  PROVE  UNCHANGED Ledger!ledgerVars
<1>1. CASE id \in Ids
  BY <1>1, NothingNew DEF ReserveAdmission
<1>2. CASE id \notin Ids
  <2> DEFINE n == Len(wal)
  <2>1. wal' \in Seq(Row) /\ Len(wal') = n + 1 /\ wal'[n + 1] = NewRow(r)
        /\ \A i \in 1 .. n : wal'[i] = wal[i]
    BY <1>2, NewRowType, LogType, AppendProperties DEF LogInv, ReserveAdmission
  <2>2. Ids' = Ids \cup {n + 1} /\ Ids = 1 .. n /\ n \in Nat
    BY <2>1, LogType DEF Ids
  <2>3. Committed' = Committed /\ \A i \in Committed : i \in Ids /\ wal'[i] = wal[i]
    BY <2>1, <2>2 DEF Committed, NewRow
  <2>4. ledger' = ledger
    BY <2>3 DEF ledger
  <2>5. delivered' = delivered /\ settled' = settled
    BY <2>1, <2>2 DEF delivered, settled, NewRow
  <2> QED BY <2>4, <2>5 DEF ledger, delivered, settled, Ledger!ledgerVars
<1> QED BY <1>1, <1>2

(* A commit promises the request that was reserved, which no promise shares a
   transaction or a deposit with. *)
LEMMA CommitImplements ==
  ASSUME LogInv, NEW id, NEW r \in Requests, IsReserved(wal, id, r), CommitAdmission(id, r)
  PROVE  Ledger!Promise(r) \/ UNCHANGED Ledger!ledgerVars
<1>1. CASE id \notin Reserved
  BY <1>1, CommitKeeps, NothingNew
<1>2. CASE id \in Reserved
  <2>1. /\ id \in Ids /\ wal[id].status = "RESERVED" /\ wal[id].request = r
        /\ id = Len(wal) /\ wal'[id].receipt = r /\ wal'[id].status = "COMMITTED"
        /\ \A i \in Ids \ {id} : wal'[i] = wal[i]
    BY <1>2, CommitKeeps DEF Reserved, IsReserved
  <2>2. Ids' = Ids
    BY <1>2, LogType DEF CommitAdmission, Ids
  <2>3. PICK n \in Nat : Committed = 1 .. n /\ ledger \in Seq(Requests)
                         /\ n = Len(wal) - 1
    BY <2>1, ReceiptsType DEF ledger
  <2>4. Committed' = 1 .. n + 1
    <3>1. \A i : i \in Committed' <=> i \in Committed \/ i = id
      BY <2>1, <2>2 DEF Committed
    <3>2. id = n + 1
      BY <2>1, <2>3, LogType
    <3>3. \A i : i \in Committed' <=> i \in 1 .. n + 1
      BY <2>3, <3>1, <3>2
    <3> QED BY <3>3
  <2>5. Len(ledger) = n
    BY <2>3 DEF ledger
  <2>6. ledger' = Append(ledger, r)
    <3>1. ledger' = [i \in 1 .. n + 1 |-> IF i = n + 1 THEN r ELSE ledger[i]]
      BY <2>1, <2>3, <2>4, LogType DEF ledger, Committed
    <3>2. ledger' \in Seq(Requests) /\ Len(ledger') = n + 1
      BY <2>3, <2>5, <3>1
    <3>3. /\ Append(ledger, r) \in Seq(Requests) /\ Len(Append(ledger, r)) = n + 1
          /\ \A i \in 1 .. n + 1 : Append(ledger, r)[i] = IF i = n + 1 THEN r ELSE ledger[i]
      BY <2>3, <2>5, AppendProperties
    <3>4. \A i \in 1 .. n + 1 : ledger'[i] = Append(ledger, r)[i]
      BY <3>1, <3>3
    <3> QED BY <3>2, <3>3, <3>4, SeqEqual
  <2>7. delivered' = delivered /\ settled' = settled
    BY <2>1, <2>2 DEF delivered, settled
  <2>8. \A i \in DOMAIN ledger : Apart(ledger[i], r)
    <3>1. \A i \in DOMAIN ledger : i \in Ids /\ i # id /\ ledger[i] = wal[i].request
      BY <2>1 DEF ledger, Committed, LogInv, RowsAreSound
    <3> QED BY <2>1, <3>1 DEF LogInv, RowsAreApart
  <2>9. ~Ledger!Promised(r)
    BY <2>8 DEF Ledger!Promised, Apart, ledger
  <2> QED BY <2>6, <2>7, <2>9 DEF Ledger!Promise, ledger, delivered, settled
<1> QED BY <1>1, <1>2

LEMMA LeaseImplements ==
  ASSUME LogInv, NEW b \in Builders, LeaseAdmissions(b)
  PROVE  Ledger!Deliver
<1>1. PICK last \in Ids :
        /\ wal[last].receipt # NoRequest
        /\ \A i \in Ids :
             /\ wal'[i].status = "ACKED" <=> wal[i].status = "ACKED"
             /\ wal'[i].status = "LEASED" <=>
                  wal[i].status = "LEASED" \/ (i <= last /\ wal[i].status # "ACKED")
  BY LeaseKeeps
<1>2. Ids' = Ids /\ Ids = 1 .. Len(wal) /\ Len(wal) \in Nat
  BY LeaseKeeps, LogType
<1>3. ledger' = ledger
  BY LeaseKeeps, SameLedger
<1>4. settled' = settled
  BY <1>1, <1>2 DEF settled
<1>5. delivered' = delivered \cup 1 .. last
  <2>1. \A i : i \in delivered' <=> i \in delivered \/ i \in 1 .. last
    BY <1>1, <1>2 DEF delivered
  <2> QED BY <2>1
<1>6. last \in DOMAIN ledger
  BY <1>1 DEF ledger, Committed
<1> QED BY <1>3, <1>4, <1>5, <1>6 DEF Ledger!Deliver, ledger, delivered, settled

LEMMA AckImplements ==
  ASSUME LogInv, NEW b \in Builders, AckAdmissions(b)
  PROVE  Ledger!Settle
<1>1. ledger' = ledger
  BY AckKeeps, SameLedger
<1>2. delivered' = delivered
  BY AckKeeps DEF delivered
<1>3. settled' \in SUBSET delivered /\ settled \subseteq settled'
  BY AckKeeps DEF delivered, settled
<1> QED BY <1>1, <1>2, <1>3 DEF Ledger!Settle, ledger, delivered, settled

LEMMA ExpireImplements ==
  ASSUME LogInv, NEW b \in Builders, Expire(b)
  PROVE  UNCHANGED Ledger!ledgerVars
<1>1. ledger' = ledger
  BY ExpireKeeps, SameLedger
<1>2. delivered' = delivered /\ settled' = settled
  BY ExpireKeeps DEF delivered, settled
<1> QED BY <1>1, <1>2 DEF Ledger!ledgerVars, ledger, delivered, settled

LEMMA StepImplements ==
  ASSUME WalInv, [WalNext]_vars
  PROVE  [Ledger!LedgerNext]_(Ledger!ledgerVars)
<1> USE DEF WalInv
<1>1. wal' = wal => UNCHANGED Ledger!ledgerVars
  BY NothingNew
<1>2. ASSUME NEW c \in Coordinators, SubmitStep(c)
      PROVE  [Ledger!LedgerNext]_(Ledger!ledgerVars)
  <2> DEFINE s == submit[c]
  <2>1. SubmitIsBound(wal, s)
    BY DEF TaskInv
  <2>2. CASE Reserve(c)
    <3>1. s.id \in 1 .. Len(wal) + 1 /\ s.request \in Requests /\ ReserveAdmission(s.id, s.request)
      BY <2>1, <2>2 DEF Reserve, At, SubmitIsBound
    <3> QED BY <3>1, ReserveImplements
  <2>3. CASE Commit(c)
    <3>1. s.request \in Requests /\ IsReserved(wal, s.id, s.request) /\ CommitAdmission(s.id, s.request)
      BY <2>1, <2>3 DEF Commit, At, SubmitIsBound
    <3> QED BY <3>1, CommitImplements DEF Ledger!LedgerNext
  <2>4. CASE ~Reserve(c) /\ ~Commit(c)
    BY <1>1, <1>2, <2>4 DEF SubmitStep, Submit, FindExisting, CheckDeposit, Number, Sign, SubmitFails
  <2> QED BY <2>2, <2>3, <2>4
<1>3. ASSUME NEW c \in Coordinators, RecoverStep(c)
      PROVE  [Ledger!LedgerNext]_(Ledger!ledgerVars)
  <2> DEFINE id == Lowest(recover[c].ids)
  <2>1. CASE RecoverCommit(c)
    <3>1. id \in Ids /\ wal[id].request \in Requests
      BY <2>1, RecoveredRow DEF RecoverCommit
    <3> QED BY <2>1, <3>1, CommitImplements DEF RecoverCommit, IsReserved, Ids, Ledger!LedgerNext
  <2>2. CASE ~RecoverCommit(c)
    BY <1>1, <1>3, <2>2 DEF RecoverStep, Recover, RecoverSign, RecoverFails, Crash
  <2> QED BY <2>1, <2>2
<1>4. ASSUME NEW c \in Coordinators, Drain(c)
      PROVE  [Ledger!LedgerNext]_(Ledger!ledgerVars)
  BY <1>4, LeaseImplements, AckImplements DEF Drain, Ledger!LedgerNext
<1>5. ASSUME NEW b \in Builders, Expire(b)
      PROVE  [Ledger!LedgerNext]_(Ledger!ledgerVars)
  BY <1>5, ExpireImplements
<1>6. ASSUME PassWriter \/ UNCHANGED vars
      PROVE  [Ledger!LedgerNext]_(Ledger!ledgerVars)
  BY <1>1, <1>6 DEF PassWriter, vars, admissionVars
<1> QED BY <1>2, <1>3, <1>4, <1>5, <1>6 DEF WalNext

(* The committed rows of the log are an append-only ledger of promises, one per
   transaction and per deposit, delivered in order and settled once: every step of
   the coordinators, builders and leases is a step of it or changes nothing of it. *)
THEOREM LedgerIsImplemented == WalSpec => ImplementsLedger
<1>1. WalInit => Ledger!LedgerInit
  BY DEF WalInit, Ledger!LedgerInit, Committed, Ids
<1> QED BY <1>1, WalSafe, StepImplements, PTL DEF WalSpec, ImplementsLedger, Ledger!LedgerSpec

-----------------------------------------------------------------------------
(* The archive *)

USE ArchiveAssumption

(* The archive of a coordinator without the database.  Every copy of the document
   that a writer holds across its awaits - a request's body, the room a submission
   has read - is compared with the document: a copy of the same revision keeps the
   document's receipts, and every block of it that L1 still has. *)

Blocks == [branch : Nat, cursor : Nat]
Receipt == [id : Nat, transaction : Transactions \cup {NoTransaction}]
ArchiveRow == [id : Nat, transaction : Transactions \cup {NoTransaction}, settled : BOOLEAN]
Documents == [revision : Nat, batches : Seq(Blocks), admissions : SUBSET ArchiveRow, fresh : Nat]

ReceiptsOf(x) == {[id |-> r.id, transaction |-> r.transaction] : r \in x.admissions}

BoundedIds(x) == \E b \in Nat : \A r \in x.admissions : r.id <= b

(* a block of the branch that L1 is on has not left it *)
Grounded(x, chain, b) ==
  \A i \in DOMAIN x.batches :
    /\ x.batches[i].branch <= b
    /\ x.batches[i].branch = b => i \in DOMAIN chain /\ chain[i] = x.batches[i]

KeepsCanonical(x, d, chain) ==
  \A i \in DOMAIN d.batches :
    i \in DOMAIN chain /\ d.batches[i] = chain[i]
      => i \in DOMAIN x.batches /\ x.batches[i] = d.batches[i]

FreshCopy(x, d, chain) ==
  /\ x.revision <= d.revision
  /\ x.revision = d.revision => ReceiptsOf(d) \subseteq ReceiptsOf(x) /\ KeepsCanonical(x, d, chain)

SoundDoc(x) == x \in Documents /\ BoundedIds(x)

ChainInv ==
  /\ l1 \in Seq(Blocks) /\ final \in 0 .. Len(l1) /\ branch \in Nat
  /\ \A i \in DOMAIN l1 : l1[i].branch <= branch
  /\ drained \subseteq Nat

Submissions ==
  [pc : {"idle", "read", "numbered"}, transaction : Transactions \cup {NoTransaction},
   room : Documents, queue : Seq(Nat), id : Nat]
PutPhases == {"idle", "sent", "declared", "checked"}

CopyOf(x, d, chain, b, lost) ==
  /\ SoundDoc(x) /\ Grounded(x, chain, b)
  /\ ~lost => FreshCopy(x, d, chain)

CopyInv(x) == CopyOf(x, doc, l1, branch, rebuilt)

DocInv ==
  /\ SoundDoc(doc) /\ Grounded(doc, l1, branch)
  /\ doc.revision = 0 => doc = NoDoc

CopiesInv ==
  /\ sub \in Submissions /\ CopyInv(sub.room)
  /\ DOMAIN put = Puts
  /\ \A p \in Puts : /\ put[p] = [pc |-> put[p].pc, body |-> put[p].body, fork |-> put[p].fork]
                    /\ put[p].pc \in PutPhases /\ CopyInv(put[p].body)

ReceiptInv ==
  /\ issued \in Nat /\ queue \in Seq(Nat) /\ rebuilt \in BOOLEAN /\ restarts \in Nat
  /\ returned \subseteq Receipt /\ \A p \in returned : p.id <= issued
  /\ \A p, q \in returned : p.id = q.id => p = q
  /\ ~rebuilt => returned \subseteq ReceiptsOf(doc)
  /\ sub.pc = "numbered" => sub.id > issued /\ ToSet(queue) \subseteq ToSet(sub.queue)
  /\ restarts = 0 => \A p \in returned : p.id \in ToSet(queue) \cup drained

ArchiveInv == ChainInv /\ DocInv /\ CopiesInv /\ ReceiptInv

(* The larger of two, and of any set that has a bound. *)
LEMMA LargerOfTwo ==
  ASSUME NEW a \in Nat, NEW b \in Nat
  PROVE  Max({a, b}) \in {a, b} /\ Max({a, b}) >= a /\ Max({a, b}) >= b
<1>1. \E x \in {a, b} : \A y \in {a, b} : x >= y
  <2>1. CASE a >= b
    BY <2>1
  <2>2. CASE b >= a
    BY <2>2
  <2> QED
    BY <2>1, <2>2
<1>2. Max({a, b}) \in {a, b} /\ \A y \in {a, b} : Max({a, b}) >= y
  BY <1>1 DEF Max
<1> QED
  BY <1>2

LEMMA LeastNatural ==
  ASSUME NEW S \in SUBSET Nat, S # {}
  PROVE  \E m \in S : \A x \in S : m <= x
<1> DEFINE R == {p \in Nat \X Nat : p[1] < p[2]}
<1>1. IsWellFoundedOn(R, Nat)
  BY NatLessThanWellFounded DEF OpToRel
<1> HIDE DEF R
<1>2. PICK m \in S : \A y \in S : ~(<<y, m>> \in R)
  BY <1>1, WFMin
<1>3. ASSUME NEW y \in S PROVE m <= y
  <2>1. ~(<<y, m>> \in R) /\ <<y, m>> \in Nat \X Nat
    BY <1>2
  <2>2. ~(y < m)
    BY <2>1 DEF R
  <2> QED
    BY <2>2
<1> QED
  BY <1>3

LEMMA LargestOfBounded ==
  ASSUME NEW S \in SUBSET Nat, S # {}, NEW b \in Nat, \A x \in S : x <= b
  PROVE  Max(S) \in S /\ \A x \in S : Max(S) >= x
<1> DEFINE U == {n \in Nat : \A x \in S : x <= n}
<1>1. PICK m \in U : \A n \in U : m <= n
  <2>1. b \in U /\ U \subseteq Nat
    OBVIOUS
  <2> HIDE DEF U
  <2> QED
    BY <2>1, LeastNatural
<1>2. m \in Nat /\ \A x \in S : x <= m
  BY <1>1
<1>3. m \in S
  <2> SUFFICES ASSUME m \notin S PROVE FALSE
    OBVIOUS
  <2>1. PICK x \in S : TRUE
    OBVIOUS
  <2>2. x < m /\ m - 1 \in Nat
    BY <1>2, <2>1
  <2>3. m - 1 \in U
    BY <1>2, <2>2
  <2> QED
    BY <1>1, <1>2, <2>3
<1>4. m \in S /\ \A y \in S : m >= y
  BY <1>2, <1>3
<1> HIDE DEF U
<1>5. \E x \in S : \A y \in S : x >= y
  BY <1>4
<1> QED
  BY <1>5 DEF Max


LEMMA LargerIsNatural ==
  ASSUME NEW a \in Nat, NEW b \in Nat
  PROVE  Max({a, b}) \in Nat
BY LargerOfTwo

LEMMA CursorType ==
  ASSUME NEW chain \in Seq(Blocks)
  PROVE  CursorOf(chain) \in Nat
<1>1. CASE chain = <<>>
  BY <1>1 DEF CursorOf
<1>2. CASE chain # <<>>
  <2>1. chain[Len(chain)] \in Blocks
    BY <1>2
  <2> QED
    BY <1>2, <2>1 DEF CursorOf, Last, Blocks
<1> QED
  BY <1>1, <1>2

-----------------------------------------------------------------------------
(* No document, and the copies that start a request or a submission. *)

LEMMA NothingIsSound ==
  NoDoc \in Documents /\ BoundedIds(NoDoc) /\ \A chain, b : Grounded(NoDoc, chain, b)
<1>1. NoDoc \in Documents
  BY DEF NoDoc, Documents
<1>2. NoDoc.admissions = {} /\ NoDoc.batches = <<>>
  BY DEF NoDoc
<1>3. BoundedIds(NoDoc)
  <2>1. \A r \in NoDoc.admissions : r.id <= 0
    BY <1>2
  <2> QED
    BY <2>1 DEF BoundedIds
<1> QED
  BY <1>1, <1>2, <1>3 DEF Grounded

LEMMA NothingIsFresh ==
  ASSUME NEW d \in Documents, d.revision = 0 => d = NoDoc, NEW chain
  PROVE  FreshCopy(NoDoc, d, chain)
<1>1. NoDoc.revision = 0 /\ d.revision \in Nat
  BY DEF NoDoc, Documents
<1>2. CASE d = NoDoc
  <2>1. ReceiptsOf(d) \subseteq ReceiptsOf(NoDoc) /\ KeepsCanonical(NoDoc, d, chain)
    BY <1>2 DEF KeepsCanonical
  <2> QED
    BY <1>1, <1>2, <2>1 DEF FreshCopy
<1>3. CASE d.revision # 0
  BY <1>1, <1>3 DEF FreshCopy
<1> QED
  BY <1>2, <1>3

LEMMA NothingIsCopied ==
  ASSUME DocInv
  PROVE  CopyInv(NoDoc)
<1>1. doc \in Documents /\ (doc.revision = 0 => doc = NoDoc)
  BY DEF DocInv, SoundDoc
<1> QED
  BY <1>1, NothingIsSound, NothingIsFresh DEF CopyInv, CopyOf, SoundDoc

(* A copy of a document of this moment. *)
LEMMA CopyOfNow ==
  ASSUME DocInv
  PROVE  CopyInv(doc)
<1>1. doc.revision \in Nat
  BY DEF DocInv, SoundDoc, Documents
<1>2. FreshCopy(doc, doc, l1)
  BY <1>1 DEF FreshCopy, KeepsCanonical
<1> QED
  BY <1>2 DEF CopyInv, CopyOf, DocInv

LEMMA DraftIsCopy ==
  ASSUME ChainInv, DocInv
  PROVE  CopyInv(Draft)
<1>1. doc \in Documents /\ l1 \in Seq(Blocks) /\ Len(l1) \in Nat /\ CursorOf(l1) \in Nat
  BY CursorType DEF DocInv, SoundDoc, ChainInv
<1> DEFINE rows == {[r EXCEPT !.settled = r.id <= CursorOf(l1)] : r \in doc.admissions}
<1>2. \A r \in doc.admissions :
         /\ r \in ArchiveRow
         /\ [r EXCEPT !.settled = r.id <= CursorOf(l1)] \in ArchiveRow
         /\ [r EXCEPT !.settled = r.id <= CursorOf(l1)].id = r.id
         /\ [r EXCEPT !.settled = r.id <= CursorOf(l1)].transaction = r.transaction
  <2> SUFFICES ASSUME NEW r \in doc.admissions PROVE
         /\ r \in ArchiveRow
         /\ [r EXCEPT !.settled = r.id <= CursorOf(l1)] \in ArchiveRow
         /\ [r EXCEPT !.settled = r.id <= CursorOf(l1)].id = r.id
         /\ [r EXCEPT !.settled = r.id <= CursorOf(l1)].transaction = r.transaction
    OBVIOUS
  <2>1. r \in ArchiveRow
    BY <1>1 DEF Documents
  <2>2. (r.id <= CursorOf(l1)) \in BOOLEAN
    BY <1>1, <2>1 DEF ArchiveRow
  <2> QED
    BY <2>1, <2>2 DEF ArchiveRow
<1>3. rows \subseteq ArchiveRow
  BY <1>2
<1>4. Draft = [revision |-> doc.revision, batches |-> l1, admissions |-> rows, fresh |-> Len(l1)]
  <2>1. doc = [revision |-> doc.revision, batches |-> doc.batches,
               admissions |-> doc.admissions, fresh |-> doc.fresh]
    BY <1>1 DEF Documents
  <2>2. Draft = [doc EXCEPT !.batches = l1, !.fresh = Len(l1), !.admissions = rows]
    BY DEF Draft
  <2> HIDE DEF rows
  <2> QED
    BY <2>1, <2>2
<1>5. Draft \in Documents
  BY <1>1, <1>3, <1>4 DEF Documents
<1>6. BoundedIds(Draft)
  <2>1. PICK b \in Nat : \A r \in doc.admissions : r.id <= b
    BY DEF DocInv, SoundDoc, BoundedIds
  <2>2. \A r \in rows : r.id <= b
    BY <1>2, <2>1
  <2> QED
    BY <1>4, <2>2 DEF BoundedIds
<1>7. ReceiptsOf(doc) \subseteq ReceiptsOf(Draft)
  BY <1>2, <1>4 DEF ReceiptsOf
<1>8. Grounded(Draft, l1, branch) /\ KeepsCanonical(Draft, doc, l1)
  BY <1>4 DEF Grounded, KeepsCanonical, ChainInv
<1>9. FreshCopy(Draft, doc, l1)
  <2>1. Draft.revision = doc.revision /\ doc.revision \in Nat
    BY <1>1, <1>4 DEF Documents
  <2> QED
    BY <1>7, <1>8, <2>1 DEF FreshCopy
<1> QED
  BY <1>5, <1>6, <1>8, <1>9 DEF CopyInv, CopyOf, SoundDoc

-----------------------------------------------------------------------------
(* The chain moves: whatever was a copy is one still. *)

LEMMA ChainStep ==
  ASSUME ChainInv, Grow \/ Finalize \/ Reorg
  PROVE  /\ ChainInv'
         /\ \A i \in 1 .. final : l1'[i] = l1[i]
         /\ \A x \in Documents : Grounded(x, l1, branch) => Grounded(x, l1', branch')
         /\ \A x, d \in Documents : Grounded(d, l1, branch) /\ KeepsCanonical(x, d, l1)
                                       => KeepsCanonical(x, d, l1')
<1>1. /\ l1 \in Seq(Blocks) /\ final \in 0 .. Len(l1) /\ branch \in Nat /\ Len(l1) \in Nat
      /\ \A i \in DOMAIN l1 : l1[i].branch <= branch /\ l1[i] \in Blocks
      /\ DOMAIN l1 = 1 .. Len(l1)
  BY DEF ChainInv
<1>2. CASE Grow
  <2>1. PICK c \in Nat : l1' = Append(l1, [branch |-> branch, cursor |-> c])
    <3>1. CursorOf(l1) \in Nat
      BY <1>1, CursorType
    <3> QED
      BY <1>2, <3>1 DEF Grow
  <2>2. final' = final /\ branch' = branch /\ drained' = drained
    BY <1>2 DEF Grow
  <2> DEFINE new == [branch |-> branch, cursor |-> c]
  <2>3. /\ l1' \in Seq(Blocks) /\ Len(l1') = Len(l1) + 1 /\ DOMAIN l1' = 1 .. (Len(l1) + 1)
        /\ \A i \in 1 .. Len(l1) : l1'[i] = l1[i]
        /\ l1'[Len(l1) + 1] = new
    <3>1. new \in Blocks
      BY <1>1 DEF Blocks
    <3> QED
      BY <1>1, <2>1, <3>1, AppendProperties
  <2>4. ChainInv'
    <3>1. \A i \in DOMAIN l1' : l1'[i].branch <= branch
      <4>1. new.branch <= branch
        BY <1>1
      <4> QED
        BY <1>1, <2>3, <4>1
    <3> QED
      BY <1>1, <2>2, <2>3, <3>1 DEF ChainInv
  <2>5. ASSUME NEW x \in Documents, Grounded(x, l1, branch)
        PROVE  Grounded(x, l1', branch')
    BY <1>1, <2>2, <2>3, <2>5 DEF Grounded
  <2>6. ASSUME NEW x \in Documents, NEW d \in Documents, Grounded(d, l1, branch), KeepsCanonical(x, d, l1)
        PROVE  KeepsCanonical(x, d, l1')
    <3> SUFFICES ASSUME NEW i \in DOMAIN d.batches, i \in DOMAIN l1', d.batches[i] = l1'[i]
                 PROVE  i \in DOMAIN x.batches /\ x.batches[i] = d.batches[i]
      BY DEF KeepsCanonical
    <3>1. i # Len(l1) + 1
      <4>1. i = Len(l1) + 1 => d.batches[i].branch = branch
        BY <2>3
      <4> QED
        BY <1>1, <2>6, <4>1 DEF Grounded
    <3>2. i \in DOMAIN l1 /\ d.batches[i] = l1[i]
      BY <1>1, <2>3, <3>1
    <3> QED
      BY <2>6, <3>2 DEF KeepsCanonical
  <2> QED
    BY <1>1, <2>3, <2>4, <2>5, <2>6
<1>3. CASE Finalize
  <2>1. l1' = l1 /\ branch' = branch /\ final' = final + 1 /\ final < Len(l1) /\ drained' = drained
    BY <1>3 DEF Finalize
  <2>2. ChainInv'
    BY <1>1, <2>1 DEF ChainInv
  <2> QED
    BY <2>1, <2>2
<1>4. CASE Reorg
  <2>1. PICK n \in final .. Len(l1) - 1 : l1' = SubSeq(l1, 1, n)
    BY <1>4 DEF Reorg
  <2>2. final' = final /\ branch' = branch + 1 /\ drained' = drained
    BY <1>4 DEF Reorg
  <2>3. n \in Nat /\ final <= n /\ n <= Len(l1)
    BY <1>1, <2>1
  <2>4. /\ l1' \in Seq(Blocks) /\ Len(l1') = n /\ DOMAIN l1' = 1 .. n
        /\ \A i \in 1 .. n : l1'[i] = l1[i]
    BY <1>1, <2>1, <2>3, SubSeqProperties
  <2>5. ChainInv'
    <3>1. \A i \in DOMAIN l1' : l1'[i].branch <= branch + 1
      <4> SUFFICES ASSUME NEW i \in 1 .. n PROVE l1[i].branch <= branch + 1
        BY <2>4
      <4>1. i \in DOMAIN l1
        BY <1>1, <2>3
      <4>2. l1[i].branch <= branch /\ l1[i].branch \in Nat
        BY <1>1, <4>1 DEF Blocks
      <4> QED
        BY <1>1, <4>2
    <3> QED
      BY <1>1, <2>2, <2>3, <2>4, <3>1 DEF ChainInv
  <2>6. ASSUME NEW x \in Documents, Grounded(x, l1, branch)
        PROVE  Grounded(x, l1', branch')
    <3> SUFFICES ASSUME NEW i \in DOMAIN x.batches
                 PROVE  x.batches[i].branch <= branch + 1 /\ x.batches[i].branch # branch + 1
      BY <2>2 DEF Grounded
    <3>1. x.batches[i].branch <= branch
      BY <2>6 DEF Grounded
    <3>2. x.batches \in Seq(Blocks)
      BY <2>6 DEF Documents
    <3>3. x.batches[i] \in Blocks
      BY <3>2
    <3>4. x.batches[i].branch \in Nat
      BY <3>3 DEF Blocks
    <3> QED
      BY <1>1, <3>1, <3>4
  <2>7. ASSUME NEW x \in Documents, NEW d \in Documents, KeepsCanonical(x, d, l1)
        PROVE  KeepsCanonical(x, d, l1')
    BY <1>1, <2>3, <2>4, <2>7 DEF KeepsCanonical
  <2> QED
    BY <1>1, <2>3, <2>4, <2>5, <2>6, <2>7
<1> QED
  BY <1>2, <1>3, <1>4

-----------------------------------------------------------------------------
(* The document moves: a copy of an earlier revision is a copy still, one of this
   revision becomes one of an earlier. *)

LEMMA CopyInNewChain ==
  ASSUME ChainInv, DocInv, Grow \/ Finalize \/ Reorg, NEW x, CopyInv(x)
  PROVE  CopyOf(x, doc, l1', branch', rebuilt)
<1>1. x \in Documents /\ doc \in Documents /\ Grounded(x, l1, branch) /\ Grounded(doc, l1, branch)
  BY DEF CopyInv, CopyOf, SoundDoc, DocInv
<1>2. Grounded(x, l1', branch')
  BY <1>1, ChainStep
<1>3. ASSUME ~rebuilt PROVE FreshCopy(x, doc, l1')
  <2>1. FreshCopy(x, doc, l1)
    BY <1>3 DEF CopyInv, CopyOf
  <2>2. KeepsCanonical(x, doc, l1) => KeepsCanonical(x, doc, l1')
    BY <1>1, ChainStep
  <2> QED
    BY <2>1, <2>2 DEF FreshCopy
<1> QED
  BY <1>2, <1>3 DEF CopyInv, CopyOf

LEMMA CopyOfOlder ==
  ASSUME DocInv, NEW x, CopyInv(x), NEW d \in Documents, d.revision = doc.revision + 1
  PROVE  CopyOf(x, d, l1, branch, rebuilt)
<1>1. x.revision \in Nat /\ doc.revision \in Nat
  BY DEF CopyInv, CopyOf, SoundDoc, DocInv, Documents
<1>2. ASSUME ~rebuilt PROVE FreshCopy(x, d, l1)
  <2>1. x.revision <= doc.revision
    BY <1>2 DEF CopyInv, CopyOf, FreshCopy
  <2>2. x.revision <= d.revision /\ x.revision # d.revision
    BY <1>1, <2>1
  <2> QED
    BY <2>2 DEF FreshCopy
<1> QED
  BY <1>2 DEF CopyInv, CopyOf

LEMMA CopyUnderHeartbeat ==
  ASSUME DocInv, NEW x, CopyInv(x), NEW n, NEW d, d = [doc EXCEPT !.fresh = n]
  PROVE  CopyOf(x, d, l1, branch, rebuilt)
<1>1. d.revision = doc.revision /\ d.batches = doc.batches /\ d.admissions = doc.admissions
  BY DEF DocInv, SoundDoc, Documents
<1>2. ASSUME ~rebuilt PROVE FreshCopy(x, d, l1)
  <2>1. FreshCopy(x, doc, l1)
    BY <1>2 DEF CopyInv, CopyOf
  <2> QED
    BY <1>1, <2>1 DEF FreshCopy, ReceiptsOf, KeepsCanonical
<1> QED
  BY <1>2 DEF CopyInv, CopyOf

LEMMA CopyOfLost ==
  ASSUME NEW x, CopyInv(x)
  PROVE  CopyOf(x, NoDoc, l1, branch, TRUE)
BY DEF CopyInv, CopyOf

(* What a write makes of a copy of this revision. *)
LEMMA WrittenDoc ==
  ASSUME DocInv, NEW room, CopyInv(room), Fits(room.revision), NEW regression \in BOOLEAN,
         NEW d, d = Written(room, regression)
  PROVE  /\ d \in Documents /\ BoundedIds(d) /\ Grounded(d, l1, branch)
         /\ d.revision = doc.revision + 1 /\ d.revision # 0
         /\ d.batches = room.batches /\ d.admissions = room.admissions
         /\ ~regression => d.fresh >= doc.fresh
         /\ ~rebuilt => ReceiptsOf(doc) \subseteq ReceiptsOf(d) /\ KeepsCanonical(d, doc, l1)
<1>1. room \in Documents /\ BoundedIds(room) /\ Grounded(room, l1, branch) /\ doc \in Documents
  BY DEF CopyInv, CopyOf, SoundDoc, DocInv
<1>2. /\ room.revision \in Nat /\ room.fresh \in Nat /\ doc.fresh \in Nat /\ doc.revision \in Nat
      /\ room = [revision |-> room.revision, batches |-> room.batches,
                 admissions |-> room.admissions, fresh |-> room.fresh]
  BY <1>1 DEF Documents
<1> DEFINE f == IF regression THEN room.fresh ELSE Max({room.fresh, doc.fresh})
<1>3. f \in Nat /\ (~regression => f >= doc.fresh)
  BY <1>2, LargerIsNatural, LargerOfTwo
<1>4. d = [revision |-> doc.revision + 1, batches |-> room.batches,
           admissions |-> room.admissions, fresh |-> f]
  <2>1. d = [room EXCEPT !.revision = doc.revision + 1, !.fresh = f]
    BY DEF Written
  <2> HIDE DEF f
  <2> QED
    BY <1>2, <2>1
<1> HIDE DEF f
<1>5. d \in Documents
  BY <1>1, <1>2, <1>3, <1>4 DEF Documents
<1>6. BoundedIds(d) /\ Grounded(d, l1, branch)
  BY <1>1, <1>4 DEF BoundedIds, Grounded
<1>7. ASSUME ~rebuilt PROVE ReceiptsOf(doc) \subseteq ReceiptsOf(d) /\ KeepsCanonical(d, doc, l1)
  <2>1. FreshCopy(room, doc, l1) /\ room.revision = doc.revision
    BY <1>7 DEF CopyInv, CopyOf, Fits
  <2> QED
    BY <1>4, <2>1 DEF FreshCopy, ReceiptsOf, KeepsCanonical
<1> QED
  BY <1>2, <1>3, <1>4, <1>5, <1>6, <1>7

(* The room that a submission writes back is a copy, with one more row. *)
LEMMA RowAdded ==
  ASSUME DocInv, sub \in Submissions, CopyInv(sub.room)
  PROVE  /\ CopyInv(WithRow) /\ WithRow.revision = sub.room.revision
         /\ ReceiptsOf(WithRow)
              = ReceiptsOf(sub.room) \cup {[id |-> sub.id, transaction |-> sub.transaction]}
<1>1. /\ sub.room \in Documents /\ BoundedIds(sub.room) /\ Grounded(sub.room, l1, branch)
      /\ sub.id \in Nat /\ sub.transaction \in Transactions \cup {NoTransaction}
  BY DEF CopyInv, CopyOf, SoundDoc, Submissions
<1> DEFINE room == sub.room
           row == [id |-> sub.id, transaction |-> sub.transaction, settled |-> FALSE]
<1>2. room = [revision |-> room.revision, batches |-> room.batches,
              admissions |-> room.admissions, fresh |-> room.fresh]
  BY <1>1 DEF Documents
<1>3. WithRow = [revision |-> room.revision, batches |-> room.batches,
                 admissions |-> room.admissions \cup {row}, fresh |-> room.fresh]
  BY <1>2 DEF WithRow
<1>4. row \in ArchiveRow
  BY <1>1 DEF ArchiveRow
<1>5. WithRow \in Documents
  BY <1>1, <1>3, <1>4 DEF Documents
<1>6. BoundedIds(WithRow)
  <2>1. PICK b \in Nat : \A r \in room.admissions : r.id <= b /\ r.id \in Nat
    BY <1>1 DEF BoundedIds, Documents, ArchiveRow
  <2>2. \A r \in WithRow.admissions : r.id <= b + sub.id
    <3> SUFFICES ASSUME NEW r \in WithRow.admissions PROVE r.id <= b + sub.id
      OBVIOUS
    <3>1. CASE r \in room.admissions
      BY <1>1, <2>1, <3>1
    <3>2. CASE r = row
      BY <1>1, <2>1, <3>2
    <3> QED
      BY <1>3, <3>1, <3>2
  <2>3. b + sub.id \in Nat
    BY <1>1, <2>1
  <2> QED
    BY <2>2, <2>3 DEF BoundedIds
<1>7. Grounded(WithRow, l1, branch)
  BY <1>1, <1>3 DEF Grounded
<1>8. ReceiptsOf(WithRow) = ReceiptsOf(room) \cup {[id |-> sub.id, transaction |-> sub.transaction]}
  <2>1. WithRow.admissions = room.admissions \cup {row}
    BY <1>3
  <2>2. [id |-> row.id, transaction |-> row.transaction] = [id |-> sub.id, transaction |-> sub.transaction]
    OBVIOUS
  <2> HIDE DEF row
  <2> QED
    BY <2>1, <2>2 DEF ReceiptsOf
<1>9. ASSUME ~rebuilt PROVE FreshCopy(WithRow, doc, l1)
  <2>1. FreshCopy(room, doc, l1)
    BY <1>9 DEF CopyInv, CopyOf
  <2>2. WithRow.revision = room.revision /\ WithRow.batches = room.batches
    BY <1>3
  <2> QED
    BY <1>8, <2>1, <2>2 DEF FreshCopy, KeepsCanonical
<1> QED
  BY <1>3, <1>5, <1>6, <1>7, <1>8, <1>9 DEF CopyInv, CopyOf, SoundDoc

-----------------------------------------------------------------------------
(* The invariant, one lemma for each group of actions. *)

LEMMA ArchiveStarts == ArchiveInit => ArchiveInv
<1> SUFFICES ASSUME ArchiveInit PROVE ArchiveInv
  OBVIOUS
<1>1. /\ l1 = <<>> /\ final = 0 /\ branch = 0 /\ doc = NoDoc /\ issued = 0 /\ queue = <<>>
      /\ sub = NoSubmission /\ put = [p \in Puts |-> NoPut] /\ returned = {} /\ drained = {}
      /\ rebuilt = FALSE
  BY DEF ArchiveInit
<1>2. ChainInv
  BY <1>1 DEF ChainInv
<1>3. DocInv
  BY <1>1, NothingIsSound DEF DocInv, SoundDoc
<1>4. CopyInv(NoDoc)
  BY <1>3, NothingIsCopied
<1>5. CopiesInv
  <2>1. sub \in Submissions
    BY <1>1, NothingIsSound DEF NoSubmission, Submissions
  <2>2. sub.room = NoDoc
    BY <1>1 DEF NoSubmission
  <2> QED
    BY <1>1, <1>4, <2>1, <2>2 DEF CopiesInv, NoPut, PutPhases
<1>6. ReceiptInv
  <2>1. sub.pc # "numbered"
    BY <1>1 DEF NoSubmission
  <2>2. returned = {}
    BY <1>1
  <2>3. issued \in Nat /\ rebuilt \in BOOLEAN /\ restarts \in Nat
    <3>1. issued = 0 /\ rebuilt = FALSE /\ restarts = 0
      BY DEF ArchiveInit
    <3> QED
      BY <3>1
  <2>4. queue \in Seq(Nat)
    BY <1>1
  <2> QED
    BY <2>1, <2>2, <2>3, <2>4 DEF ReceiptInv
<1> QED
  BY <1>2, <1>3, <1>5, <1>6 DEF ArchiveInv

(* Whatever else a step does, copies that it leaves alone are copies still. *)
CopiesKeep ==
  /\ \A x : CopyInv(x) => CopyOf(x, doc', l1', branch', rebuilt')
  /\ UNCHANGED <<put, sub>>

LEMMA CopiesStay ==
  ASSUME CopiesInv, CopiesKeep
  PROVE  CopiesInv'
<1>1. sub' = sub /\ put' = put
  BY DEF CopiesKeep
<1>2. CopyOf(sub.room, doc', l1', branch', rebuilt')
  BY DEF CopiesInv, CopiesKeep
<1>3. \A p \in Puts : CopyOf(put[p].body, doc', l1', branch', rebuilt')
  BY DEF CopiesInv, CopiesKeep
<1> QED
  BY <1>1, <1>2, <1>3 DEF CopiesInv, CopyInv

LEMMA ChainKeepsArchive ==
  ASSUME ArchiveInv, Grow \/ Finalize \/ Reorg
  PROVE  ArchiveInv'
<1>1. ChainInv /\ DocInv /\ CopiesInv /\ ReceiptInv
  BY DEF ArchiveInv
<1>2. /\ doc' = doc /\ rebuilt' = rebuilt /\ put' = put /\ sub' = sub /\ issued' = issued
      /\ queue' = queue /\ returned' = returned /\ drained' = drained /\ restarts' = restarts
  BY DEF Grow, Finalize, Reorg
<1>3. ChainInv'
  BY <1>1, ChainStep
<1>4. DocInv'
  <2>1. Grounded(doc, l1', branch')
    BY <1>1, ChainStep DEF DocInv, SoundDoc
  <2> QED
    BY <1>1, <1>2, <2>1 DEF DocInv
<1>5. CopiesInv'
  <2>1. CopiesKeep
    BY <1>1, <1>2, CopyInNewChain DEF CopiesKeep
  <2> QED
    BY <1>1, <2>1, CopiesStay
<1>6. ReceiptInv'
  BY <1>1, <1>2 DEF ReceiptInv
<1> QED
  BY <1>3, <1>4, <1>5, <1>6 DEF ArchiveInv

LEMMA HeartbeatKeepsArchive ==
  ASSUME ArchiveInv, Heartbeat
  PROVE  ArchiveInv'
<1>1. ChainInv /\ DocInv /\ CopiesInv /\ ReceiptInv /\ doc \in Documents
  BY DEF ArchiveInv, DocInv, SoundDoc
<1>2. /\ l1' = l1 /\ final' = final /\ branch' = branch /\ rebuilt' = rebuilt /\ put' = put
      /\ sub' = sub /\ issued' = issued /\ queue' = queue /\ returned' = returned
      /\ drained' = drained /\ restarts' = restarts
  BY DEF Heartbeat, chainVars
<1>3. PICK n \in Nat : doc' = [doc EXCEPT !.fresh = n]
  <2>1. Len(l1) \in Nat
    BY <1>1 DEF ChainInv
  <2> QED
    BY <2>1 DEF Heartbeat
<1>4. /\ doc'.revision = doc.revision /\ doc'.batches = doc.batches
      /\ doc'.admissions = doc.admissions /\ doc' \in Documents /\ doc.revision # 0
  BY <1>1, <1>3 DEF Documents, Heartbeat
<1>5. ChainInv'
  BY <1>1, <1>2 DEF ChainInv
<1>6. DocInv'
  BY <1>1, <1>2, <1>4 DEF DocInv, SoundDoc, BoundedIds, Grounded
<1>7. CopiesInv'
  <2>1. CopiesKeep
    BY <1>1, <1>2, <1>3, CopyUnderHeartbeat DEF CopiesKeep
  <2> QED
    BY <1>1, <2>1, CopiesStay
<1>8. ReceiptInv'
  <2>1. ReceiptsOf(doc') = ReceiptsOf(doc)
    BY <1>4 DEF ReceiptsOf
  <2> QED
    BY <1>1, <1>2, <2>1 DEF ReceiptInv
<1> QED
  BY <1>5, <1>6, <1>7, <1>8 DEF ArchiveInv

(* The steps of a request that leave the document alone: its body is a copy of now,
   the one it had, or none. *)
LEMMA PutSteps ==
  ASSUME ArchiveInv, NEW p \in Puts, NEW s,
         Change(p, s), s = [pc |-> s.pc, body |-> s.body, fork |-> s.fork],
         s.pc \in PutPhases, CopyInv(s.body),
         UNCHANGED <<chainVars, doc, issued, queue, sub, returned, drained, restarts, rebuilt>>
  PROVE  ArchiveInv'
<1>1. ChainInv /\ DocInv /\ CopiesInv /\ ReceiptInv
  BY DEF ArchiveInv
<1>2. /\ l1' = l1 /\ final' = final /\ branch' = branch /\ rebuilt' = rebuilt /\ doc' = doc
      /\ sub' = sub /\ issued' = issued /\ queue' = queue /\ returned' = returned
      /\ drained' = drained /\ restarts' = restarts
  BY DEF chainVars
<1>3. /\ DOMAIN put' = Puts
      /\ \A q \in Puts : put'[q] = IF q = p THEN s ELSE put[q]
  BY <1>1 DEF Change, CopiesInv
<1>4. CopiesInv'
  <2>1. sub' \in Submissions /\ CopyInv(sub.room)
    BY <1>1, <1>2 DEF CopiesInv
  <2>2. \A q \in Puts :
          /\ put'[q] = [pc |-> put'[q].pc, body |-> put'[q].body, fork |-> put'[q].fork]
          /\ put'[q].pc \in PutPhases /\ CopyInv(put'[q].body)
    BY <1>1, <1>3 DEF CopiesInv
  <2> QED
    BY <1>2, <1>3, <2>1, <2>2 DEF CopiesInv, CopyInv
<1>5. ChainInv' /\ DocInv' /\ ReceiptInv'
  BY <1>1, <1>2 DEF ChainInv, DocInv, ReceiptInv
<1> QED
  BY <1>4, <1>5 DEF ArchiveInv

LEMMA NoPutIsCopy ==
  ASSUME DocInv
  PROVE  /\ NoPut = [pc |-> NoPut.pc, body |-> NoPut.body, fork |-> NoPut.fork]
         /\ NoPut.pc \in PutPhases /\ CopyInv(NoPut.body) /\ NoPut.body = NoDoc
<1>1. NoPut.body = NoDoc /\ NoPut.pc = "idle"
  BY DEF NoPut
<1>2. CopyInv(NoDoc)
  BY NothingIsCopied
<1> QED
  BY <1>1, <1>2 DEF NoPut, PutPhases

LEMMA RequestsKeepArchive ==
  ASSUME ArchiveInv, NEW p \in Puts, Send(p) \/ Arrive(p) \/ Corroborate(p)
  PROVE  ArchiveInv'
<1>1. /\ ChainInv /\ DocInv /\ put[p] = [pc |-> put[p].pc, body |-> put[p].body, fork |-> put[p].fork]
      /\ CopyInv(put[p].body)
  BY DEF ArchiveInv, CopiesInv
<1>2. UNCHANGED <<chainVars, doc, issued, queue, sub, returned, drained, restarts, rebuilt>>
  BY DEF Send, Arrive, Corroborate, chainVars
<1>3. ASSUME Change(p, NoPut) PROVE ArchiveInv'
  BY <1>1, <1>2, <1>3, NoPutIsCopy, PutSteps
<1>4. ASSUME NEW c \in PutPhases, Change(p, [put[p] EXCEPT !.pc = c]) PROVE ArchiveInv'
  <2> DEFINE s == [put[p] EXCEPT !.pc = c]
  <2>1. s = [pc |-> c, body |-> put[p].body, fork |-> put[p].fork]
    BY <1>1
  <2>2. s = [pc |-> s.pc, body |-> s.body, fork |-> s.fork] /\ s.pc \in PutPhases /\ CopyInv(s.body)
    BY <1>1, <2>1
  <2>3. Change(p, s)
    BY <1>4
  <2> HIDE DEF s
  <2> QED
    BY <1>2, <2>2, <2>3, PutSteps
<1>5. CASE Send(p)
  <2> DEFINE s == [pc |-> "sent", body |-> Draft, fork |-> ForkPoint]
  <2>1. CopyInv(Draft)
    BY <1>1, DraftIsCopy
  <2>2. s = [pc |-> s.pc, body |-> s.body, fork |-> s.fork] /\ s.pc \in PutPhases /\ CopyInv(s.body)
    BY <2>1 DEF PutPhases
  <2>3. Change(p, s)
    BY <1>5 DEF Send
  <2> HIDE DEF s
  <2> QED
    BY <1>2, <2>2, <2>3, PutSteps
<1>6. CASE Arrive(p)
  <2>1. \/ Change(p, NoPut)
        \/ \E c \in PutPhases : Change(p, [put[p] EXCEPT !.pc = c])
    <3>1. "checked" \in PutPhases /\ "declared" \in PutPhases
      BY DEF PutPhases
    <3> QED
      BY <1>6, <3>1 DEF Arrive
  <2> QED
    BY <1>3, <1>4, <2>1
<1>7. CASE Corroborate(p)
  <2>1. \/ Change(p, NoPut)
        \/ \E c \in PutPhases : Change(p, [put[p] EXCEPT !.pc = c])
    <3>1. "checked" \in PutPhases
      BY DEF PutPhases
    <3>2. \/ Change(p, NoPut)
          \/ Change(p, [put[p] EXCEPT !.pc = "checked"])
      BY <1>7 DEF Corroborate, Change
    <3> QED
      BY <3>1, <3>2
  <2> QED
    BY <1>3, <1>4, <2>1
<1> QED
  BY <1>5, <1>6, <1>7

(* The steps of a submission that leave the document alone. *)
LEMMA SubmissionSteps ==
  ASSUME ArchiveInv, sub' \in Submissions, CopyInv(sub'.room),
         sub'.pc = "numbered" => sub'.id > issued /\ ToSet(queue) \subseteq ToSet(sub'.queue),
         UNCHANGED <<chainVars, doc, issued, queue, put, returned, drained, restarts, rebuilt>>
  PROVE  ArchiveInv'
<1>1. ChainInv /\ DocInv /\ CopiesInv /\ ReceiptInv
  BY DEF ArchiveInv
<1>2. /\ l1' = l1 /\ final' = final /\ branch' = branch /\ rebuilt' = rebuilt /\ doc' = doc
      /\ put' = put /\ issued' = issued /\ queue' = queue /\ returned' = returned
      /\ drained' = drained /\ restarts' = restarts
  BY DEF chainVars
<1>3. CopiesInv'
  BY <1>1, <1>2 DEF CopiesInv, CopyInv
<1>4. ChainInv' /\ DocInv' /\ ReceiptInv'
  BY <1>1, <1>2 DEF ChainInv, DocInv, ReceiptInv
<1> QED
  BY <1>3, <1>4 DEF ArchiveInv

LEMMA NoSubmissionIsCopy ==
  ASSUME DocInv
  PROVE  /\ NoSubmission \in Submissions /\ NoSubmission.pc = "idle"
         /\ NoSubmission.room = NoDoc /\ CopyInv(NoSubmission.room)
<1>1. NoSubmission.room = NoDoc /\ NoSubmission.pc = "idle"
  BY DEF NoSubmission
<1>2. CopyInv(NoDoc) /\ NoDoc \in Documents
  BY NothingIsCopied, NothingIsSound
<1> QED
  BY <1>1, <1>2 DEF NoSubmission, Submissions

(* The id is a natural number: one more than the largest of a bounded set. *)
LEMMA NextId ==
  ASSUME sub \in Submissions, CopyInv(sub.room)
  PROVE  Max({CursorOf(sub.room.batches)} \cup {r.id : r \in sub.room.admissions}) + 1 \in Nat
<1> DEFINE ids == {CursorOf(sub.room.batches)} \cup {r.id : r \in sub.room.admissions}
<1>1. /\ sub.room.batches \in Seq(Blocks) /\ sub.room.admissions \subseteq ArchiveRow
      /\ BoundedIds(sub.room)
  BY DEF CopyInv, CopyOf, SoundDoc, Documents
<1>2. CursorOf(sub.room.batches) \in Nat
  BY <1>1, CursorType
<1>3. \A r \in sub.room.admissions : r.id \in Nat
  BY <1>1 DEF ArchiveRow
<1>4. ids \in SUBSET Nat /\ ids # {}
  BY <1>2, <1>3
<1>5. PICK b \in Nat : \A r \in sub.room.admissions : r.id <= b
  BY <1>1 DEF BoundedIds
<1>6. b + CursorOf(sub.room.batches) \in Nat
  BY <1>2, <1>5
<1>7. \A x \in ids : x <= b + CursorOf(sub.room.batches)
  BY <1>2, <1>3, <1>5
<1> HIDE DEF ids
<1>8. Max(ids) \in ids
  BY <1>4, <1>6, <1>7, LargestOfBounded
<1>9. Max(ids) \in Nat
  BY <1>4, <1>8
<1> QED
  BY <1>9 DEF ids

LEMMA SubmissionsKeepArchive ==
  ASSUME ArchiveInv, (\E t \in Transactions : Submission(t)) \/ NumberReceipt \/ Refuse
  PROVE  ArchiveInv'
<1>1. ChainInv /\ DocInv /\ CopiesInv /\ sub \in Submissions /\ CopyInv(sub.room)
  BY DEF ArchiveInv, CopiesInv
<1>2. UNCHANGED <<chainVars, doc, issued, queue, put, returned, drained, restarts, rebuilt>>
  BY DEF Submission, NumberReceipt, Refuse, chainVars
<1>3. ASSUME sub' = NoSubmission PROVE ArchiveInv'
  BY <1>1, <1>2, <1>3, NoSubmissionIsCopy, SubmissionSteps
<1>4. ASSUME NEW t \in Transactions, Submission(t) PROVE ArchiveInv'
  <2>1. sub' = [pc |-> "read", transaction |-> t, room |-> doc, queue |-> <<>>, id |-> 0]
    BY <1>4 DEF Submission, NoSubmission
  <2>2. CopyInv(doc) /\ doc \in Documents
    BY <1>1, CopyOfNow DEF DocInv, SoundDoc
  <2>3. sub' \in Submissions /\ sub'.room = doc /\ sub'.pc = "read"
    BY <2>1, <2>2 DEF Submissions
  <2> QED
    BY <1>2, <2>2, <2>3, SubmissionSteps
<1>5. CASE NumberReceipt
  <2> DEFINE id == Max({CursorOf(sub.room.batches)} \cup {r.id : r \in sub.room.admissions}) + 1
  <2>1. id \in Nat
    BY <1>1, NextId
  <2>2. sub' = (IF AboveIssued(id)
                THEN [sub EXCEPT !.pc = "numbered", !.queue = queue, !.id = id] ELSE NoSubmission)
    BY <1>5 DEF NumberReceipt
  <2> HIDE DEF id
  <2>3. CASE AboveIssued(id)
    <3>1. sub' = [pc |-> "numbered", transaction |-> sub.transaction, room |-> sub.room,
                  queue |-> queue, id |-> id]
      BY <1>1, <2>2, <2>3 DEF Submissions
    <3>2. queue \in Seq(Nat)
      BY DEF ArchiveInv, ReceiptInv
    <3>3. /\ sub' \in Submissions /\ sub'.room = sub.room /\ sub'.id > issued
          /\ sub'.queue = queue
      BY <1>1, <2>1, <2>3, <3>1, <3>2 DEF Submissions, AboveIssued
    <3> QED
      BY <1>1, <1>2, <3>3, SubmissionSteps
  <2>4. CASE ~AboveIssued(id)
    BY <1>3, <2>2, <2>4
  <2> QED
    BY <2>3, <2>4
<1>6. CASE Refuse
  BY <1>3, <1>6 DEF Refuse
<1> QED
  BY <1>4, <1>5, <1>6

LEMMA DrainKeepsArchive ==
  ASSUME ArchiveInv, TakePending
  PROVE  ArchiveInv'
<1>1. ChainInv /\ DocInv /\ CopiesInv /\ ReceiptInv /\ queue \in Seq(Nat)
  BY DEF ArchiveInv, ReceiptInv
<1>2. /\ l1' = l1 /\ final' = final /\ branch' = branch /\ rebuilt' = rebuilt /\ doc' = doc
      /\ put' = put /\ sub' = sub /\ issued' = issued /\ queue' = <<>> /\ returned' = returned
      /\ drained' = drained \cup ToSet(queue) /\ restarts' = restarts
  BY DEF TakePending, chainVars
<1>3. ToSet(queue) \subseteq Nat /\ ToSet(queue') = {}
  BY <1>1, <1>2 DEF ToSet
<1>4. ChainInv' /\ DocInv' /\ CopiesInv'
  BY <1>1, <1>2, <1>3 DEF ChainInv, DocInv, CopiesInv, CopyInv
<1>5. ReceiptInv'
  BY <1>1, <1>2, <1>3 DEF ReceiptInv
<1> QED
  BY <1>4, <1>5 DEF ArchiveInv

(* The steps that write the document: what the document, the copies and the
   receipts become. *)
LEMMA StoredKeepsCopies ==
  ASSUME ChainInv, DocInv, NEW room, CopyInv(room), Fits(room.revision),
         NEW regression \in BOOLEAN, Store(room, regression),
         UNCHANGED <<chainVars, rebuilt>>
  PROVE  /\ DocInv' /\ \A x : CopyInv(x) => CopyOf(x, doc', l1', branch', rebuilt')
         /\ doc'.admissions = room.admissions
         /\ ~rebuilt => ReceiptsOf(doc) \subseteq ReceiptsOf(doc')
<1>1. doc' = Written(room, regression) /\ l1' = l1 /\ branch' = branch /\ rebuilt' = rebuilt
  BY DEF Store, chainVars
<1>2. /\ doc' \in Documents /\ BoundedIds(doc') /\ Grounded(doc', l1, branch)
      /\ doc'.revision = doc.revision + 1 /\ doc'.revision # 0
      /\ doc'.admissions = room.admissions
      /\ ~rebuilt => ReceiptsOf(doc) \subseteq ReceiptsOf(doc')
  BY <1>1, WrittenDoc
<1>3. DocInv'
  BY <1>1, <1>2 DEF DocInv, SoundDoc
<1> QED
  BY <1>1, <1>2, <1>3, CopyOfOlder

LEMMA ReplaceKeepsArchive ==
  ASSUME ArchiveInv, NEW p \in Puts, Replace(p)
  PROVE  ArchiveInv'
<1>1. ChainInv /\ DocInv /\ CopiesInv /\ ReceiptInv /\ CopyInv(put[p].body)
  BY DEF ArchiveInv, CopiesInv
<1>2. /\ l1' = l1 /\ final' = final /\ branch' = branch /\ rebuilt' = rebuilt /\ sub' = sub
      /\ issued' = issued /\ queue' = queue /\ returned' = returned /\ drained' = drained
      /\ restarts' = restarts /\ Change(p, NoPut)
  BY DEF Replace, chainVars
<1>3. CASE ~Fits(put[p].body.revision)
  <2>1. doc' = doc
    BY <1>3 DEF Replace
  <2> QED
    BY <1>1, <1>2, <2>1, NoPutIsCopy, PutSteps DEF chainVars
<1>4. CASE Fits(put[p].body.revision)
  <2>1. /\ DocInv' /\ \A x : CopyInv(x) => CopyOf(x, doc', l1', branch', rebuilt')
        /\ ~rebuilt => ReceiptsOf(doc) \subseteq ReceiptsOf(doc')
    <3>1. Store(put[p].body, put[p].fork # NoFork) /\ (put[p].fork # NoFork) \in BOOLEAN
      BY <1>4 DEF Replace
    <3>2. UNCHANGED <<chainVars, rebuilt>>
      BY <1>2 DEF chainVars
    <3> QED
      BY <1>1, <1>4, <3>1, <3>2, StoredKeepsCopies
  <2>2. /\ DOMAIN put' = Puts
        /\ \A q \in Puts : put'[q] = IF q = p THEN NoPut ELSE put[q]
    BY <1>1, <1>2 DEF Change, CopiesInv
  <2>3. CopiesInv'
    <3>1. sub' \in Submissions /\ CopyOf(sub.room, doc', l1', branch', rebuilt')
      BY <1>1, <1>2, <2>1 DEF CopiesInv
    <3>2. \A q \in Puts :
            /\ put'[q] = [pc |-> put'[q].pc, body |-> put'[q].body, fork |-> put'[q].fork]
            /\ put'[q].pc \in PutPhases /\ CopyInv(put'[q].body)
      BY <1>1, <2>2, NoPutIsCopy DEF CopiesInv
    <3>3. \A q \in Puts : CopyOf(put'[q].body, doc', l1', branch', rebuilt')
      BY <2>1, <3>2
    <3> QED
      BY <1>2, <2>2, <3>1, <3>2, <3>3 DEF CopiesInv, CopyInv
  <2>4. ChainInv' /\ ReceiptInv'
    BY <1>1, <1>2, <2>1 DEF ChainInv, ReceiptInv
  <2> QED
    BY <2>1, <2>3, <2>4 DEF ArchiveInv
<1> QED
  BY <1>3, <1>4

LEMMA ArchiveReceiptKeepsArchive ==
  ASSUME ArchiveInv, ArchiveReceipt
  PROVE  ArchiveInv'
<1>1. /\ ChainInv /\ DocInv /\ CopiesInv /\ ReceiptInv
      /\ sub \in Submissions /\ CopyInv(sub.room) /\ sub.pc = "numbered"
  BY DEF ArchiveInv, CopiesInv, ArchiveReceipt
<1>2. /\ l1' = l1 /\ final' = final /\ branch' = branch /\ rebuilt' = rebuilt /\ put' = put
      /\ drained' = drained /\ restarts' = restarts /\ sub' = NoSubmission
  BY DEF ArchiveReceipt, chainVars
<1>3. CASE ~Fits(sub.room.revision)
  <2>1. UNCHANGED <<chainVars, doc, issued, queue, put, returned, drained, restarts, rebuilt>>
    BY <1>2, <1>3 DEF ArchiveReceipt, chainVars
  <2> QED
    BY <1>1, <1>2, <2>1, NoSubmissionIsCopy, SubmissionSteps
<1>4. CASE Fits(sub.room.revision)
  <2> DEFINE new == [id |-> sub.id, transaction |-> sub.transaction]
  <2>1. /\ Store(WithRow, FALSE) /\ issued' = Max({issued, sub.id})
        /\ queue' = Append(sub.queue, sub.id) /\ returned' = returned \cup {new}
    BY <1>4 DEF ArchiveReceipt
  <2>2. CopyInv(WithRow) /\ WithRow.revision = sub.room.revision
        /\ ReceiptsOf(WithRow) = ReceiptsOf(sub.room) \cup {new}
    BY <1>1, RowAdded
  <2>3. /\ DocInv' /\ \A x : CopyInv(x) => CopyOf(x, doc', l1', branch', rebuilt')
        /\ doc'.admissions = WithRow.admissions
        /\ ~rebuilt => ReceiptsOf(doc) \subseteq ReceiptsOf(doc')
    <3>1. UNCHANGED <<chainVars, rebuilt>> /\ Fits(WithRow.revision) /\ FALSE \in BOOLEAN
      BY <1>2, <1>4, <2>2 DEF chainVars
    <3> QED
      BY <1>1, <2>1, <2>2, <3>1, StoredKeepsCopies
  <2>4. CopiesInv'
    <3>1. sub' \in Submissions /\ sub'.room = NoDoc
      BY <1>1, <1>2, NoSubmissionIsCopy
    <3>2. CopyOf(NoDoc, doc', l1', branch', rebuilt')
      BY <1>1, <2>3, NothingIsCopied
    <3>3. \A p \in Puts : CopyOf(put[p].body, doc', l1', branch', rebuilt')
      BY <1>1, <2>3 DEF CopiesInv
    <3> QED
      BY <1>1, <1>2, <3>1, <3>2, <3>3 DEF CopiesInv, CopyInv
  <2>5. ReceiptInv'
    <3>1. /\ issued \in Nat /\ sub.id \in Nat /\ sub.queue \in Seq(Nat) /\ sub.id > issued
          /\ sub.transaction \in Transactions \cup {NoTransaction}
          /\ ToSet(queue) \subseteq ToSet(sub.queue)
          /\ returned \subseteq Receipt /\ \A p \in returned : p.id <= issued
      BY <1>1 DEF ReceiptInv, Submissions
    <3>2. issued' \in Nat /\ issued' >= issued /\ issued' >= sub.id
      BY <2>1, <3>1, LargerIsNatural, LargerOfTwo
    <3>3. queue' \in Seq(Nat) /\ ToSet(queue) \subseteq ToSet(queue') /\ sub.id \in ToSet(queue')
      <4>1. /\ queue' \in Seq(Nat) /\ Len(queue') = Len(sub.queue) + 1
            /\ \A i \in 1 .. Len(sub.queue) : queue'[i] = sub.queue[i]
            /\ queue'[Len(sub.queue) + 1] = sub.id
        BY <2>1, <3>1, AppendProperties
      <4>2. ToSet(sub.queue) \subseteq ToSet(queue')
        <5> SUFFICES ASSUME NEW i \in DOMAIN sub.queue PROVE sub.queue[i] \in ToSet(queue')
          BY DEF ToSet
        <5>1. /\ Len(sub.queue) \in Nat /\ DOMAIN sub.queue = 1 .. Len(sub.queue)
              /\ DOMAIN queue' = 1 .. Len(queue')
          BY <3>1, <4>1, LenProperties
        <5>2. i \in DOMAIN queue' /\ queue'[i] = sub.queue[i]
          BY <4>1, <5>1
        <5> QED
          BY <5>2 DEF ToSet
      <4>3. sub.id \in ToSet(queue')
        BY <3>1, <4>1 DEF ToSet
      <4> QED
        BY <3>1, <4>1, <4>2, <4>3
    <3>4. new \in Receipt /\ new.id = sub.id
      BY <3>1 DEF Receipt
    <3>5. \A p \in returned : p.id # sub.id /\ p.id \in Nat
      BY <3>1 DEF Receipt
    <3>6. \A p \in returned' : p.id <= issued'
      <4> SUFFICES ASSUME NEW p \in returned' PROVE p.id <= issued'
        OBVIOUS
      <4>1. CASE p \in returned
        BY <3>1, <3>2, <3>5, <4>1
      <4>2. CASE p = new
        BY <3>1, <3>2, <4>2
      <4> QED
        BY <2>1, <4>1, <4>2
    <3>7. \A p, q \in returned' : p.id = q.id => p = q
      <4>1. \A p, q \in returned : p.id = q.id => p = q
        BY <1>1 DEF ReceiptInv
      <4> HIDE DEF new
      <4> QED
        BY <2>1, <3>4, <3>5, <4>1
    <3>8. ASSUME ~rebuilt' PROVE returned' \subseteq ReceiptsOf(doc')
      <4>1. FreshCopy(sub.room, doc, l1) /\ returned \subseteq ReceiptsOf(doc)
        BY <1>1, <1>2, <3>8 DEF CopyInv, CopyOf, ReceiptInv
      <4>2. ReceiptsOf(doc') = ReceiptsOf(WithRow)
        BY <2>3 DEF ReceiptsOf
      <4>3. ReceiptsOf(doc) \subseteq ReceiptsOf(sub.room)
        BY <1>4, <4>1 DEF FreshCopy, Fits
      <4> HIDE DEF new
      <4> QED
        BY <2>1, <2>2, <4>1, <4>2, <4>3
    <3>9. ASSUME restarts' = 0, NEW p \in returned' PROVE p.id \in ToSet(queue') \cup drained'
      <4>1. CASE p \in returned
        <5>1. p.id \in ToSet(queue) \cup drained
          BY <1>1, <1>2, <3>9, <4>1 DEF ReceiptInv
        <5> QED
          BY <1>2, <3>3, <5>1
      <4>2. CASE p = new
        BY <3>3, <4>2
      <4> QED
        BY <2>1, <3>9, <4>1, <4>2
    <3>10. sub'.pc # "numbered" /\ rebuilt' \in BOOLEAN /\ restarts' \in Nat /\ returned' \subseteq Receipt
      <4>1. sub'.pc # "numbered"
        BY <1>1, <1>2, NoSubmissionIsCopy
      <4>2. rebuilt' \in BOOLEAN /\ restarts' \in Nat
        BY <1>1, <1>2 DEF ReceiptInv
      <4> QED
        BY <2>1, <3>1, <3>4, <4>1, <4>2
    <3> QED
      BY <3>2, <3>3, <3>6, <3>7, <3>8, <3>9, <3>10 DEF ReceiptInv
  <2>6. ChainInv'
    BY <1>1, <1>2 DEF ChainInv
  <2> QED
    BY <2>3, <2>4, <2>5, <2>6 DEF ArchiveInv
<1> QED
  BY <1>3, <1>4

LEMMA RestartKeepsArchive ==
  ASSUME ArchiveInv, Restart
  PROVE  ArchiveInv'
<1>1. /\ ChainInv /\ DocInv /\ CopiesInv /\ ReceiptInv
      /\ sub \in Submissions /\ CopyInv(sub.room) /\ CopyInv(NoDoc)
      /\ restarts' # 0 /\ restarts' \in Nat
  <2>1. restarts \in Nat /\ restarts' = restarts + 1
    BY DEF ArchiveInv, ReceiptInv, Restart
  <2> QED
    BY <2>1, NothingIsCopied DEF ArchiveInv, CopiesInv
<1>2. /\ l1' = l1 /\ final' = final /\ branch' = branch /\ returned' = returned
      /\ drained' = drained /\ sub' = NoSubmission /\ queue' = <<>>
      /\ put' = [p \in Puts |-> IF put[p].pc \in {"declared", "checked"} THEN NoPut ELSE put[p]]
  BY DEF Restart, chainVars
<1>3. /\ DocInv' /\ \A x : CopyInv(x) => CopyOf(x, doc', l1', branch', rebuilt')
      /\ ~rebuilt' => ~rebuilt /\ ReceiptsOf(doc) \subseteq ReceiptsOf(doc')
      /\ issued' \in Nat /\ issued' >= issued /\ rebuilt' \in BOOLEAN
  <2>1. issued \in Nat /\ rebuilt \in BOOLEAN /\ sub.id \in Nat
    BY <1>1 DEF ReceiptInv, Submissions
  <2>2. CASE UNCHANGED <<doc, issued, rebuilt>>
    BY <1>1, <1>2, <2>1, <2>2 DEF DocInv, CopyInv
  <2>3. CASE /\ sub.pc = "numbered" /\ Fits(sub.room.revision) /\ Store(WithRow, FALSE)
             /\ issued' \in {issued, Max({issued, sub.id})}
             /\ UNCHANGED rebuilt
    <3>1. UNCHANGED <<chainVars, rebuilt>> /\ FALSE \in BOOLEAN
      BY <1>2, <2>3 DEF chainVars
    <3>2. CopyInv(WithRow) /\ Fits(WithRow.revision)
      BY <1>1, <2>3, RowAdded
    <3>3. /\ DocInv' /\ \A x : CopyInv(x) => CopyOf(x, doc', l1', branch', rebuilt')
          /\ ~rebuilt => ReceiptsOf(doc) \subseteq ReceiptsOf(doc')
      BY <1>1, <2>3, <3>1, <3>2, StoredKeepsCopies
    <3>4. issued' \in Nat /\ issued' >= issued
      BY <2>1, <2>3, LargerIsNatural, LargerOfTwo
    <3> QED
      BY <2>1, <2>3, <3>3, <3>4
  <2>4. CASE doc.revision # 0 /\ doc' = NoDoc /\ rebuilt' = TRUE /\ UNCHANGED issued
    <3>1. DocInv'
      BY <2>4, NothingIsSound DEF DocInv, SoundDoc
    <3>2. \A x : CopyInv(x) => CopyOf(x, doc', l1', branch', rebuilt')
      BY <1>2, <2>4, CopyOfLost
    <3>3. issued' \in Nat /\ issued' >= issued
      BY <2>1, <2>4
    <3>4. rebuilt' /\ rebuilt' \in BOOLEAN
      BY <2>4
    <3> QED
      BY <3>1, <3>2, <3>3, <3>4
  <2> QED
    BY <2>2, <2>3, <2>4 DEF Restart
<1>4. CopiesInv'
  <2>1. sub' \in Submissions /\ sub'.room = NoDoc
    BY <1>1, <1>2, NoSubmissionIsCopy
  <2>2. DOMAIN put' = Puts /\ \A p \in Puts : put'[p] = put[p] \/ put'[p] = NoPut
    BY <1>2
  <2>3. \A p \in Puts :
          /\ put'[p] = [pc |-> put'[p].pc, body |-> put'[p].body, fork |-> put'[p].fork]
          /\ put'[p].pc \in PutPhases /\ CopyInv(put'[p].body)
    BY <1>1, <2>2, NoPutIsCopy DEF CopiesInv
  <2>4. \A p \in Puts : CopyOf(put'[p].body, doc', l1', branch', rebuilt')
    BY <1>3, <2>3
  <2>5. CopyOf(sub'.room, doc', l1', branch', rebuilt')
    BY <1>1, <1>3, <2>1
  <2> QED
    BY <2>1, <2>2, <2>3, <2>4, <2>5 DEF CopiesInv, CopyInv
<1>5. ReceiptInv'
  <2>1. sub'.pc # "numbered"
    BY <1>1, <1>2, NoSubmissionIsCopy
  <2>2. queue' \in Seq(Nat)
    BY <1>2
  <2>3. /\ returned \subseteq Receipt /\ issued \in Nat /\ \A p \in returned : p.id <= issued
        /\ \A p, q \in returned : p.id = q.id => p = q
        /\ ~rebuilt => returned \subseteq ReceiptsOf(doc)
    BY <1>1 DEF ReceiptInv
  <2>4. \A p \in returned : p.id <= issued'
    BY <1>3, <2>3 DEF Receipt
  <2> QED
    BY <1>1, <1>2, <1>3, <2>1, <2>2, <2>3, <2>4 DEF ReceiptInv
<1>6. ChainInv'
  BY <1>1, <1>2 DEF ChainInv
<1> QED
  BY <1>3, <1>4, <1>5, <1>6 DEF ArchiveInv

LEMMA ArchiveSteps == ArchiveInv /\ [ArchiveNext]_archiveVars => ArchiveInv'
<1> SUFFICES ASSUME ArchiveInv, [ArchiveNext]_archiveVars PROVE ArchiveInv'
  OBVIOUS
<1>1. CASE Grow \/ Finalize \/ Reorg
  BY <1>1, ChainKeepsArchive
<1>2. CASE Heartbeat
  BY <1>2, HeartbeatKeepsArchive
<1>3. ASSUME NEW p \in Puts, Send(p) \/ Arrive(p) \/ Corroborate(p) PROVE ArchiveInv'
  BY <1>3, RequestsKeepArchive
<1>4. ASSUME NEW p \in Puts, Replace(p) PROVE ArchiveInv'
  BY <1>4, ReplaceKeepsArchive
<1>5. CASE (\E t \in Transactions : Submission(t)) \/ NumberReceipt \/ Refuse
  BY <1>5, SubmissionsKeepArchive
<1>6. CASE ArchiveReceipt
  BY <1>6, ArchiveReceiptKeepsArchive
<1>7. CASE TakePending
  BY <1>7, DrainKeepsArchive
<1>8. CASE Restart
  BY <1>8, RestartKeepsArchive
<1>9. CASE UNCHANGED archiveVars
  BY <1>9 DEF archiveVars, chainVars, ArchiveInv, ChainInv, DocInv, CopiesInv, CopyInv, ReceiptInv
<1> QED
  BY <1>1, <1>2, <1>3, <1>4, <1>5, <1>6, <1>7, <1>8, <1>9 DEF ArchiveNext

LEMMA ArchiveInvAlways == ArchiveSpec => []ArchiveInv
BY ArchiveStarts, ArchiveSteps, PTL DEF ArchiveSpec

(* Receipts: no id is given twice, a receipt's row stays in the document until the
   archive is rebuilt, its id in the queue or with the builder until a restart.
   (submitSerial, takePending, ObserverStore.put) *)
THEOREM ReceiptsAreKeptAlways == ArchiveSpec => []ReceiptsAreKept
<1>1. ArchiveInv => ReceiptsAreKept
  <2> SUFFICES ASSUME ArchiveInv PROVE ReceiptsAreKept
    OBVIOUS
  <2>1. ReceiptInv
    BY DEF ArchiveInv
  <2>2. ASSUME ~rebuilt, NEW p \in returned
        PROVE  \E r \in doc.admissions : r.id = p.id /\ r.transaction = p.transaction
    <3>1. p \in ReceiptsOf(doc)
      BY <2>1, <2>2 DEF ReceiptInv
    <3> QED
      BY <3>1 DEF ReceiptsOf
  <2> QED
    BY <2>1, <2>2 DEF ReceiptInv, ReceiptsAreKept
<1> QED
  BY <1>1, ArchiveInvAlways, PTL

-----------------------------------------------------------------------------
(* What no step takes back. *)

LEMMA StoreKeepsFinal ==
  ASSUME ArchiveInv, NEW room, CopyInv(room), Fits(room.revision),
         NEW regression \in BOOLEAN, Store(room, regression), l1' = l1
  PROVE  /\ ~rebuilt => \A i \in 1 .. final : Archived(i) => Archived(i)'
         /\ ~regression => doc'.fresh >= doc.fresh
<1>1. DocInv /\ ChainInv /\ doc \in Documents /\ doc' = Written(room, regression)
  BY DEF ArchiveInv, DocInv, SoundDoc, Store
<1>2. /\ doc' \in Documents /\ (~regression => doc'.fresh >= doc.fresh)
      /\ ~rebuilt => KeepsCanonical(doc', doc, l1)
  BY <1>1, WrittenDoc
<1>3. ASSUME ~rebuilt, NEW i \in 1 .. final, Archived(i) PROVE Archived(i)'
  <2>1. i \in DOMAIN l1 /\ i \in Nat /\ i >= 1
    BY <1>1 DEF ChainInv
  <2>2. doc.batches \in Seq(Blocks) /\ doc'.batches \in Seq(Blocks)
    BY <1>1, <1>2 DEF Documents
  <2>3. i \in DOMAIN doc.batches /\ doc.batches[i] = l1[i]
    BY <1>3, <2>1, <2>2 DEF Archived
  <2>4. i \in DOMAIN doc'.batches /\ doc'.batches[i] = doc.batches[i]
    BY <1>2, <1>3, <2>1, <2>3 DEF KeepsCanonical
  <2> QED
    BY <2>2, <2>3, <2>4 DEF Archived
<1> QED
  BY <1>2, <1>3

LEMMA FreshAndFinalStay == ArchiveInv /\ [ArchiveNext]_archiveVars => FinalStays /\ FreshStays
<1> SUFFICES ASSUME ArchiveInv, [ArchiveNext]_archiveVars PROVE FinalStays /\ FreshStays
  OBVIOUS
<1>1. /\ ChainInv /\ DocInv /\ CopiesInv /\ sub \in Submissions /\ CopyInv(sub.room)
      /\ doc.fresh \in Nat
  BY DEF ArchiveInv, CopiesInv, DocInv, SoundDoc, Documents
<1>2. ASSUME doc'.fresh >= doc.fresh PROVE FreshStays
  <2>1. CASE doc'.fresh < doc.fresh
    <3>1. doc'.fresh \in Nat
      BY ArchiveSteps DEF ArchiveInv, DocInv, SoundDoc, Documents
    <3> QED
      BY <1>1, <1>2, <2>1, <3>1
  <2> QED
    BY <2>1 DEF FreshStays
<1>3. ASSUME doc' = doc, \A i \in 1 .. final : l1'[i] = l1[i] PROVE FinalStays /\ FreshStays
  <2>1. FreshStays
    BY <1>1, <1>2, <1>3
  <2>2. \A i \in 1 .. final : Archived(i) => Archived(i)'
    BY <1>3 DEF Archived
  <2> QED
    BY <2>1, <2>2 DEF FinalStays
<1>4. CASE Grow \/ Finalize \/ Reorg
  <2>1. doc' = doc
    BY <1>4 DEF Grow, Finalize, Reorg
  <2> QED
    BY <1>1, <1>3, <1>4, <2>1, ChainStep
<1>5. CASE Heartbeat
  <2>1. PICK n \in 1 .. Len(l1) : n > doc.fresh /\ doc' = [doc EXCEPT !.fresh = n]
    BY <1>5 DEF Heartbeat
  <2>2. doc'.fresh = n /\ doc'.batches = doc.batches /\ l1' = l1
    BY <1>5, <2>1 DEF Heartbeat, chainVars, ArchiveInv, DocInv, SoundDoc, Documents
  <2>3. FreshStays
    BY <1>1, <1>2, <2>1, <2>2
  <2>4. FinalStays
    BY <2>2 DEF FinalStays, Archived
  <2> QED
    BY <2>3, <2>4
<1>6. ASSUME NEW p \in Puts, Send(p) \/ Arrive(p) \/ Corroborate(p) PROVE FinalStays /\ FreshStays
  <2>1. doc' = doc /\ l1' = l1
    BY <1>6 DEF Send, Arrive, Corroborate, chainVars
  <2> QED
    BY <1>3, <2>1
<1>7. ASSUME NEW p \in Puts, Replace(p) PROVE FinalStays /\ FreshStays
  <2>1. /\ l1' = l1 /\ rebuilt' = rebuilt /\ CopyInv(put[p].body) /\ put[p].pc = "checked"
        /\ put'[p] = NoPut
    BY <1>1, <1>7 DEF Replace, chainVars, CopiesInv, Change
  <2>2. CASE ~Fits(put[p].body.revision)
    <3>1. doc' = doc
      BY <1>7, <2>2 DEF Replace
    <3> QED
      BY <1>3, <2>1, <3>1
  <2>3. CASE Fits(put[p].body.revision)
    <3>1. Store(put[p].body, put[p].fork # NoFork) /\ (put[p].fork # NoFork) \in BOOLEAN
      BY <1>7, <2>3 DEF Replace
    <3>2. /\ ~rebuilt => \A i \in 1 .. final : Archived(i) => Archived(i)'
          /\ ~(put[p].fork # NoFork) => doc'.fresh >= doc.fresh
      BY <2>1, <2>3, <3>1, StoreKeepsFinal
    <3>3. FreshStays
      <4>1. CASE put[p].fork # NoFork
        BY <2>1, <4>1 DEF FreshStays
      <4>2. CASE ~(put[p].fork # NoFork)
        BY <1>2, <3>2, <4>2
      <4> QED
        BY <4>1, <4>2
    <3> QED
      BY <2>1, <3>2, <3>3 DEF FinalStays
  <2> QED
    BY <2>2, <2>3
<1>8. CASE (\E t \in Transactions : Submission(t)) \/ NumberReceipt \/ Refuse \/ TakePending
  <2>1. doc' = doc /\ l1' = l1
    BY <1>8 DEF Submission, NumberReceipt, Refuse, TakePending, chainVars
  <2> QED
    BY <1>3, <2>1
<1>9. ASSUME l1' = l1, rebuilt' = rebuilt, Fits(sub.room.revision), Store(WithRow, FALSE)
      PROVE  FinalStays /\ FreshStays
  <2>1. CopyInv(WithRow) /\ Fits(WithRow.revision) /\ FALSE \in BOOLEAN
    BY <1>1, <1>9, RowAdded
  <2>2. /\ ~rebuilt => \A i \in 1 .. final : Archived(i) => Archived(i)'
        /\ ~FALSE => doc'.fresh >= doc.fresh
    BY <1>9, <2>1, StoreKeepsFinal
  <2> QED
    BY <1>2, <1>9, <2>2 DEF FinalStays
<1>10. CASE ArchiveReceipt
  <2>1. l1' = l1 /\ rebuilt' = rebuilt
    BY <1>10 DEF ArchiveReceipt, chainVars
  <2>2. CASE Fits(sub.room.revision)
    BY <1>9, <1>10, <2>1, <2>2 DEF ArchiveReceipt
  <2>3. CASE ~Fits(sub.room.revision)
    BY <1>3, <1>10, <2>1, <2>3 DEF ArchiveReceipt
  <2> QED
    BY <2>2, <2>3
<1>11. CASE Restart
  <2>1. l1' = l1
    BY <1>11 DEF Restart, chainVars
  <2>2. CASE doc' = doc
    BY <1>3, <2>1, <2>2
  <2>3. CASE doc' = NoDoc /\ rebuilt' = TRUE
    BY <2>3 DEF FinalStays, FreshStays
  <2>4. CASE Fits(sub.room.revision) /\ Store(WithRow, FALSE) /\ rebuilt' = rebuilt
    BY <1>9, <2>1, <2>4
  <2> QED
    BY <1>11, <2>2, <2>3, <2>4 DEF Restart
<1>12. CASE UNCHANGED archiveVars
  BY <1>3, <1>12 DEF archiveVars, chainVars
<1> QED
  BY <1>4, <1>5, <1>6, <1>7, <1>8, <1>10, <1>11, <1>12 DEF ArchiveNext

(* What L1 has finalized stays in the archive, and its freshness goes back only by a
   declared reorganisation. (finalizedFactViolation, ObserverStore.put, mergeFreshness) *)
THEOREM ArchiveAdvancesAlways == ArchiveSpec => ArchiveAdvances
BY ArchiveInvAlways, FreshAndFinalStay, PTL DEF ArchiveSpec, ArchiveAdvances
=============================================================================
