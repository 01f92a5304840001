------------------------------ MODULE AdmissionWal ------------------------------
(***************************************************************************)
(* The admission log of one room: a request is reserved, signed and        *)
(* committed in separate transactions around an external signer            *)
(* (admission.ts, postgres-hosted-store.ts), while the writer epoch may    *)
(* pass to another coordinator at any time and processes crash.  Batch     *)
(* builders lease and acknowledge what is committed.                       *)
(*                                                                         *)
(* A transaction is one step; every other read of the database is a step   *)
(* of its own.  The fence check is the writer variable: the holder of the  *)
(* lease while it is live, as WriterEpoch grants it.  A fence captured     *)
(* before the transaction is either of the current epoch, and might as     *)
(* well have been captured at the transaction, or makes it fail.           *)
(*                                                                         *)
(* Data.  A request is its signed bytes with its terms: two requests may   *)
(* carry the same transaction.  Signatures are deterministic.  The checks  *)
(* of the room policy, of L1 and of the caps may refuse at any step        *)
(* (SubmitFails); the chain's cursor is not ahead of the log and rows are  *)
(* not reaped.  The rows one builder holds expire together.                *)
(***************************************************************************)
EXTENDS Naturals, Sequences, SequencesExt

CONSTANTS
  Coordinators,
  NoOne,
  Requests, TransactionOf(_), DepositOf(_), NoDeposit,
  NoRequest,
  Builders,     \* principals that drain the room
  Nobody

ASSUME AdmissionAssumption ==
  /\ NoOne \notin Coordinators
  /\ NoRequest \notin Requests
  /\ Nobody \notin Builders

VARIABLES
  writer,      \* the coordinator whose fence the database accepts, or NoOne
  wal,         \* admission_wal: a row per id
  submit,      \* coordinator -> the submission its queue for the room is serving
  recover,     \* coordinator -> the recovery in progress: ids left
  listening,   \* coordinator -> started up
  signed       \* history: the promises the signer made, [id, request]

admissionVars == <<wal, submit, recover, listening, signed>>
vars == <<writer, admissionVars>>

Ids == DOMAIN wal
Reserved == {i \in Ids : wal[i].status = "RESERVED"}
Lowest(S) == CHOOSE i \in S : \A j \in S : i <= j

-------------------------------------------------------------------------------
(* The transactions over the log *)

NewRow(r) ==
  [request |-> r, receipt |-> NoRequest, status |-> "RESERVED",
   owner |-> Nobody, live |-> FALSE]

(* Mutants (here and below): slips in the definition that follows, each of
   which some property must notice. *)
AnyBytes(id, r) == TRUE

(* the same immutable bytes *)
SameBytes(id, r) == wal[id].request = r

SharesDeposit(id, r) == DepositOf(r) # NoDeposit /\ DepositOf(wal[id].request) = DepositOf(r)

HeadIgnored(id, r) == id \in Reserved => SameBytes(id, r)

(* reserveAdmission: an unresolved head must be this very reservation *)
HeadIsMine(id, r) ==
  Reserved # {} => id = Lowest(Reserved) /\ SameBytes(id, r)

Insertable(id, r) ==
  /\ \A i \in Ids \ {id} : ~SharesDeposit(i, r)
  /\ id \in Ids => SameBytes(id, r)
  /\ id \notin Ids => \A i \in Ids : TransactionOf(wal[i].request) # TransactionOf(r)

ReserveAdmission(id, r) ==
  /\ HeadIsMine(id, r)
  /\ Reserved = {} => Insertable(id, r)
  /\ wal' = IF id \in Ids THEN wal ELSE Append(wal, NewRow(r))

(* commitAdmission: again with the same receipt changes nothing *)
CommitAdmission(id, r) ==
  /\ id \in Reserved \/ wal[id].receipt = r
  /\ wal' = IF id \in Reserved
            THEN [wal EXCEPT ![id] = [@ EXCEPT !.receipt = r, !.status = "COMMITTED"]]
            ELSE wal

(* leaseAdmissions: the first unacknowledged rows, as far as all are free *)
Free(id) ==
  /\ wal[id].receipt # NoRequest
  /\ wal[id].status = "COMMITTED" \/ (wal[id].status = "LEASED" /\ ~wal[id].live)

Unacked == {i \in Ids : wal[i].status # "ACKED"}
Ready == {i \in Unacked : \A j \in Unacked : j <= i => Free(j)}

LeaseAdmissions(b) ==
  \E last \in Ready :
    wal' = [i \in Ids |->
              IF i \in Ready /\ i <= last
              THEN [wal[i] EXCEPT !.status = "LEASED", !.owner = b, !.live = TRUE]
              ELSE wal[i]]

AckedKeeping(row) == [row EXCEPT !.status = "ACKED", !.live = FALSE]

AckedBy(row) == [row EXCEPT !.status = "ACKED", !.owner = Nobody, !.live = FALSE]

AckAdmissions(b) ==
  \E S \in SUBSET {i \in Ids : wal[i].status = "LEASED" /\ wal[i].owner = b} :
    /\ S # {}
    /\ wal' = [i \in Ids |-> IF i \in S THEN AckedBy(wal[i]) ELSE wal[i]]

-------------------------------------------------------------------------------
(* submitSerial *)

NoSubmit == [at |-> "idle", request |-> NoRequest, id |-> 0]

At(c, step) == submit[c].at = step
Goes(c, step) == submit' = [submit EXCEPT ![c].at = step]
EndSubmit(c) == submit' = [submit EXCEPT ![c] = NoSubmit]

Submit(c, r) ==
  /\ listening[c]
  /\ At(c, "idle")
  /\ submit' = [submit EXCEPT ![c] = [NoSubmit EXCEPT !.at = "find", !.request = r]]
  /\ UNCHANGED <<writer, wal, recover, listening, signed>>

WithTransaction(r) == {i \in Ids : TransactionOf(wal[i].request) = TransactionOf(r)}

FindExisting(c) ==
  /\ At(c, "find")
  /\ \E id \in IF WithTransaction(submit[c].request) = {} THEN {0}
              ELSE WithTransaction(submit[c].request) :
       submit' = [submit EXCEPT ![c].at = "deposit", ![c].id = id]
  /\ UNCHANGED <<writer, wal, recover, listening, signed>>

(* pendingDeposit finds the row of the request itself, too *)
CheckDeposit(c) ==
  /\ At(c, "deposit")
  /\ IF \E i \in Ids : SharesDeposit(i, submit[c].request)
     THEN EndSubmit(c) ELSE Goes(c, "number")
  /\ UNCHANGED <<writer, wal, recover, listening, signed>>

Number(c) ==
  /\ At(c, "number")
  /\ submit' = [submit EXCEPT ![c].at = "reserve",
                  ![c].id = IF @ = 0 THEN Len(wal) + 1 ELSE @]
  /\ UNCHANGED <<writer, wal, recover, listening, signed>>

Reserve(c) ==
  LET s == submit[c] IN
  /\ At(c, "reserve")
  /\ writer = c
  /\ ReserveAdmission(s.id, s.request)
  /\ IF s.id \in Ids /\ wal[s.id].receipt # NoRequest
     THEN EndSubmit(c) ELSE Goes(c, "sign")
  /\ UNCHANGED <<writer, recover, listening, signed>>

Sign(c) ==
  LET s == submit[c] IN
  /\ At(c, "sign")
  /\ signed' = signed \cup {[id |-> s.id, request |-> s.request]}
  /\ Goes(c, "commit")
  /\ UNCHANGED <<writer, wal, recover, listening>>

Commit(c) ==
  LET s == submit[c] IN
  /\ At(c, "commit")
  /\ writer = c
  /\ CommitAdmission(s.id, s.request)
  /\ EndSubmit(c)
  /\ UNCHANGED <<writer, recover, listening, signed>>

SubmitFails(c) ==
  /\ ~At(c, "idle")
  /\ EndSubmit(c)
  /\ UNCHANGED <<writer, wal, recover, listening, signed>>

-------------------------------------------------------------------------------
(* recoverHostedReservations: before the process listens, and on request *)

NoRecovery == [at |-> "idle", ids |-> {}]

RecoveryEnds(c) ==
  /\ recover' = [recover EXCEPT ![c] = NoRecovery]
  /\ listening' = [listening EXCEPT ![c] = TRUE]

Recover(c) ==
  /\ recover[c].at = "idle"
  /\ IF Reserved = {} THEN RecoveryEnds(c)
     ELSE /\ recover' = [recover EXCEPT ![c].at = "sign", ![c].ids = Reserved]
          /\ UNCHANGED listening
  /\ UNCHANGED <<writer, wal, submit, signed>>

RecoverSign(c) ==
  LET id == Lowest(recover[c].ids) IN
  /\ recover[c].at = "sign"
  /\ signed' = signed \cup {[id |-> id, request |-> wal[id].request]}
  /\ recover' = [recover EXCEPT ![c].at = "commit"]
  /\ UNCHANGED <<writer, wal, submit, listening>>

RecoverCommit(c) ==
  LET id == Lowest(recover[c].ids)
      left == recover[c].ids \ {id}
  IN
  /\ recover[c].at = "commit"
  /\ writer = c
  /\ CommitAdmission(id, wal[id].request)
  /\ IF left = {} THEN RecoveryEnds(c)
     ELSE /\ recover' = [recover EXCEPT ![c] = [at |-> "sign", ids |-> left]]
          /\ UNCHANGED listening
  /\ UNCHANGED <<writer, submit, signed>>

(* at startup it ends the process *)
RecoverFails(c) ==
  /\ recover[c].at # "idle"
  /\ recover' = [recover EXCEPT ![c] = NoRecovery]
  /\ UNCHANGED <<writer, wal, submit, listening, signed>>

Crash(c) ==
  /\ listening[c] \/ recover[c].at # "idle"
  /\ submit' = [submit EXCEPT ![c] = NoSubmit]
  /\ recover' = [recover EXCEPT ![c] = NoRecovery]
  /\ listening' = [listening EXCEPT ![c] = FALSE]
  /\ UNCHANGED <<writer, wal, signed>>

-------------------------------------------------------------------------------
(* The batch builders *)

Drain(c) ==
  /\ listening[c]
  /\ writer = c
  /\ \E b \in Builders : LeaseAdmissions(b) \/ AckAdmissions(b)
  /\ UNCHANGED <<writer, submit, recover, listening, signed>>

Expire(b) ==
  /\ \E i \in Ids : wal[i].owner = b /\ wal[i].live
  /\ wal' = [i \in Ids |-> IF wal[i].owner = b THEN [wal[i] EXCEPT !.live = FALSE] ELSE wal[i]]
  /\ UNCHANGED <<writer, submit, recover, listening, signed>>

(* a lease that expires or is released, and the next one granted *)
PassWriter ==
  /\ writer' \in IF writer = NoOne THEN Coordinators ELSE {NoOne}
  /\ UNCHANGED admissionVars

-------------------------------------------------------------------------------
WalInit ==
  /\ writer = NoOne
  /\ wal = <<>>
  /\ submit = [c \in Coordinators |-> NoSubmit]
  /\ recover = [c \in Coordinators |-> NoRecovery]
  /\ listening = [c \in Coordinators |-> FALSE]
  /\ signed = {}

SubmitStep(c) ==
  \/ \E r \in Requests : Submit(c, r)
  \/ FindExisting(c) \/ CheckDeposit(c) \/ Number(c)
  \/ Reserve(c) \/ Sign(c) \/ Commit(c) \/ SubmitFails(c)

RecoverStep(c) ==
  Recover(c) \/ RecoverSign(c) \/ RecoverCommit(c) \/ RecoverFails(c) \/ Crash(c)

WalNext ==
  \/ \E c \in Coordinators : SubmitStep(c) \/ RecoverStep(c) \/ Drain(c)
  \/ \E b \in Builders : Expire(b)
  \/ PassWriter

WalSpec == WalInit /\ [][WalNext]_vars
-------------------------------------------------------------------------------
(* Properties *)

Row == [request : Requests, receipt : Requests \cup {NoRequest},
        status : {"RESERVED", "COMMITTED", "LEASED", "ACKED"},
        owner : Builders \cup {Nobody}, live : BOOLEAN]

Steps == {"idle", "find", "deposit", "number", "reserve", "sign", "commit"}

(* Every variable has its type; a row has its receipt once it is committed and
   an owner while it is leased. *)
WalTypeOK ==
  /\ writer \in Coordinators \cup {NoOne}
  /\ wal \in Seq(Row)
  /\ \A i \in Ids : /\ wal[i].status = "RESERVED" <=> wal[i].receipt = NoRequest
                    /\ wal[i].status = "LEASED" <=> wal[i].owner # Nobody
  /\ submit \in [Coordinators -> [at : Steps, request : Requests \cup {NoRequest},
                                  id : Nat]]
  /\ recover \in [Coordinators -> [at : {"idle", "sign", "commit"}, ids : SUBSET Ids]]
  /\ listening \in [Coordinators -> BOOLEAN]
  /\ signed \subseteq [id : Ids, request : Requests]

(* Whatever the signer promised is what the log holds under that id, before and
   after a crash or a change of the writer: no id is ever signed for two
   requests ("one cursor advance satisfy two different transaction hashes").
   (reserveAdmission, recoverHostedReservations) *)
SignedIsReserved ==
  \A s \in signed : s.id \in Ids /\ wal[s.id].request = s.request

(* At any time one builder has the rows that are leased: a batch is built by
   one.  (leaseAdmissions) *)
OneBuilderAtATime ==
  \A i, j \in Ids : wal[i].live /\ wal[j].live => wal[i].owner = wal[j].owner

(* Both of the log at once: one promise per id, and one builder per batch.
   (reserveAdmission, leaseAdmissions) *)
PromisesAreKept == SignedIsReserved /\ OneBuilderAtATime

(* The committed rows, which come before any other, are the ledger of promises:
   append-only, one per transaction and deposit, delivered in order, settled
   once, whoever writes.  (postgres-hosted-store.ts) *)
Committed == {i \in Ids : wal[i].receipt # NoRequest}
Ledger == INSTANCE AdmissionLedger WITH
  ledger <- [i \in Committed |-> wal[i].receipt],
  delivered <- {i \in Ids : wal[i].status \in {"LEASED", "ACKED"}},
  settled <- {i \in Ids : wal[i].status = "ACKED"}
ImplementsLedger == Ledger!LedgerSpec
=============================================================================
