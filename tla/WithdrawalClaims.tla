---------------------------- MODULE WithdrawalClaims ----------------------------
(***************************************************************************)
(* Withdrawals from finalized rooms: the proof rows the indexer's facts    *)
(* allow, a tenant's claim of one, the worker that leases the claim and    *)
(* pays it out with an L1 operation (withdrawal-claimer.ts), and L1, where *)
(* anyone may claim first. Three rows speak of one payout - withdrawal,    *)
(* claim and operation - and are written in different transactions, by     *)
(* workers that crash, lose a claim's lease or lose the fence.             *)
(* The claimer drives its operations as the publishers do (L1Journal takes *)
(* its reads of L1 and its writes apart); here both are one step.          *)
(***************************************************************************)
EXTENDS FiniteSets, Naturals

CONSTANTS
  Withdrawals, Workers, Nobody,
  MaxTakeovers, MaxReorgs, MaxSurprises, MaxErrors

ASSUME NobodyAssumption == Nobody \notin Workers \cup Withdrawals

VARIABLES
  withdrawal,   \* hosted_withdrawals.status
  epochOk,      \* hosted_withdrawal_epochs.status is FINALIZED
  claim,        \* hosted_withdrawal_claims: status, lease, linked to the operation
  op,           \* status of the operation withdrawal-claim:<claimId>
  fact,         \* a canonical WithdrawalClaimed fact below the floor
  root, pay, our, settled,  \* L1: the root, who was paid, our transaction, what of both is final
  canonical,    \* the operations whose recorded block is on L1's chain
  task,         \* worker -> where it is, with which claim, and the operation status it read
  owner,        \* the worker that holds the fence
  takeovers, reorgs, surprises, errors

vars == <<withdrawal, epochOk, claim, op, fact, root, pay, our, settled, canonical, task, owner,
          takeovers, reorgs, surprises, errors>>
rows == <<withdrawal, epochOk, claim, op>>
l1 == <<root, pay, our, settled, canonical>>
bounds == <<takeovers, reorgs, surprises, errors>>

Pending == {"PREPARED", "SIGNED", "BROADCAST", "INCLUDED"}
Idle == [pc |-> "idle", of |-> Nobody, seen |-> "none"]
At(p, pc, w, s) == task' = [task EXCEPT ![p] = [pc |-> pc, of |-> w, seen |-> s]]
Goto(p, pc) == task' = [task EXCEPT ![p].pc = pc]
Done(p) == task' = [task EXCEPT ![p] = Idle]
SetOp(w, s) == op' = [op EXCEPT ![w] = s]

-----------------------------------------------------------------------------
(* L1 and the indexer *)

Mine(w) ==
  /\ our[w] = "sent"
  /\ LET ok == root[w] /\ pay[w] = "open"
     IN /\ our' = [our EXCEPT ![w] = IF ok THEN "ok" ELSE "reverted"]
        /\ pay' = [pay EXCEPT ![w] = IF ok THEN "ours" ELSE @]
  /\ UNCHANGED <<rows, fact, root, settled, canonical, task, owner, bounds>>

(* claims are permissionless *)
Relayer(w) ==
  /\ root[w] /\ pay[w] = "open"
  /\ pay' = [pay EXCEPT ![w] = "relayer"]
  /\ UNCHANGED <<rows, fact, root, our, settled, canonical, task, owner, bounds>>

Unmined(w) == IF our[w] \in {"ok", "reverted"} THEN "sent" ELSE our[w]

Finalize(w) ==
  /\ settled' = [settled EXCEPT ![w] =
       @ \cup (IF pay[w] # "open" THEN {"pay"} ELSE {}) \cup
         (IF our[w] \in {"ok", "reverted"} THEN {"our"} ELSE {})]
  /\ settled'[w] # settled[w]
  /\ UNCHANGED <<rows, fact, root, pay, our, canonical, task, owner, bounds>>

Reorg(w) ==
  /\ reorgs < MaxReorgs /\ reorgs' = reorgs + 1
  /\ pay' = [pay EXCEPT ![w] = IF "pay" \in settled[w] THEN @ ELSE "open"]
  /\ our' = [our EXCEPT ![w] = IF "our" \in settled[w] THEN @ ELSE Unmined(w)]
  /\ canonical' = IF "our" \in settled[w] THEN canonical ELSE canonical \ {w}
  /\ UNCHANGED <<rows, fact, root, settled, task, owner, takeovers, surprises, errors>>

(* finalized blocks are rewritten: the payout's, or the root's and all after it *)
Surprise(w) ==
  /\ surprises < MaxSurprises /\ surprises' = surprises + 1
  /\ \/ settled[w] # {} /\ UNCHANGED root
     \/ root' = [root EXCEPT ![w] = FALSE]
  /\ pay' = [pay EXCEPT ![w] = "open"] /\ our' = [our EXCEPT ![w] = Unmined(w)]
  /\ settled' = [settled EXCEPT ![w] = {}] /\ canonical' = canonical \ {w}
  /\ UNCHANGED <<rows, fact, task, owner, takeovers, reorgs, errors>>

(* recordCanonicalBlocks: the WithdrawalClaimed event of a finalized block *)
IndexClaimed(w) ==
  /\ "pay" \in settled[w] /\ ~fact[w]
  /\ fact' = [fact EXCEPT ![w] = TRUE]
  /\ UNCHANGED <<rows, l1, task, owner, bounds>>

(* indexFinalizedWithdrawalEpoch: the proof rows are inserted once, never rewritten *)
IndexEpoch(w) ==
  /\ root[w] /\ withdrawal[w] = "absent"
  /\ withdrawal' = [withdrawal EXCEPT ![w] = "FINALIZED"]
  /\ epochOk' = [epochOk EXCEPT ![w] = TRUE]
  /\ UNCHANGED <<claim, op, fact, l1, task, owner, bounds>>

(* the canonical journal is rolled back to below the root: by the index, or by the
   audit of any finalized operation, which takes the later ones and the epoch along *)
RetractRoot(w) ==
  /\ ~root[w] /\ withdrawal[w] \notin {"absent", "RETRACTED"}
  /\ withdrawal' = [withdrawal EXCEPT ![w] = "RETRACTED"]
  /\ \/ UNCHANGED <<epochOk, op>>
     \/ /\ epochOk' = [epochOk EXCEPT ![w] = FALSE]
        /\ SetOp(w, IF op[w] = "FINALIZED" THEN "RECOVERY_REQUIRED" ELSE op[w])
  /\ fact' = [fact EXCEPT ![w] = FALSE]
  /\ UNCHANGED <<claim, l1, task, owner, bounds>>

-----------------------------------------------------------------------------
(* requestWithdrawalClaim; one claim per withdrawal and tenant *)
Request(w) ==
  /\ withdrawal[w] \in {"FINALIZED", "CLAIM_PENDING"} /\ claim[w].status = "none"
  /\ claim' = [claim EXCEPT ![w].status = "PENDING"]
  /\ withdrawal' = [withdrawal EXCEPT ![w] = "CLAIM_PENDING"]
  /\ UNCHANGED <<epochOk, op, fact, l1, task, owner, bounds>>

(* a mutation of a worker whose delegation was taken over throws, and its pass ends *)
Fenced(p) == p # owner

-----------------------------------------------------------------------------
(* the claims that have no operation yet: lease, prepare, reserve, sign, link, send *)

Lease(p, w) ==
  /\ task[p].pc = "idle" /\ ~Fenced(p)
  /\ claim[w].status = "PENDING" /\ ~claim[w].linked /\ claim[w].lease = Nobody
  /\ claim' = [claim EXCEPT ![w].lease = p]
  /\ At(p, "prepare", w, "none")
  /\ UNCHANGED <<withdrawal, epochOk, op, fact, l1, owner, bounds>>

(* sixty seconds passed, seldom under a worker that is still at it *)
LeaseExpires(w) ==
  LET p == claim[w].lease
  IN /\ p # Nobody
     /\ claim' = [claim EXCEPT ![w].lease = Nobody]
     /\ IF task[p].of = w THEN errors < MaxErrors /\ errors' = errors + 1 ELSE UNCHANGED errors
     /\ UNCHANGED <<withdrawal, epochOk, op, fact, l1, task, owner, takeovers, reorgs, surprises>>

ProvableUnclaimed(w) == withdrawal[w] = "FINALIZED" /\ epochOk[w] /\ root[w]

(* withdrawalClaimProof, and the room contract's own check of the proof *)
Provable(w) ==
  withdrawal[w] \in {"FINALIZED", "CLAIM_PENDING", "CLAIMED"} /\ epochOk[w] /\ root[w]

(* a key that has its operation resumes it; else the proof, then who was paid already *)
Prepare(p) ==
  LET w == task[p].of
      pc == CASE op[w] \in {"FAILED", "RECOVERY_REQUIRED"} -> "release"
              [] op[w] = "PREPARED" -> "sign"
              [] op[w] = "none" -> IF ~Provable(w) THEN "release"
                                   ELSE IF pay[w] # "open" THEN "external" ELSE "reserve"
              [] OTHER -> "link"
  IN /\ task[p].pc = "prepare"
     /\ At(p, pc, w, op[w])
     /\ UNCHANGED <<rows, fact, l1, owner, bounds>>

(* confirmExternallyClaimedWithdrawal: only a finalized fact is evidence *)
Evidence(w) == fact[w]

ConfirmExternal(p) ==
  LET w == task[p].of
  IN /\ task[p].pc = "external"
     /\ IF Fenced(p) \/ claim[w].lease # p \/ claim[w].linked \/ ~Evidence(w)
        THEN Goto(p, "release") /\ UNCHANGED <<claim, withdrawal>>
        ELSE /\ claim' = [claim EXCEPT ![w].status = "CONFIRMED", ![w].lease = Nobody]
             /\ withdrawal' = [withdrawal EXCEPT ![w] =
                  IF @ \in {"FINALIZED", "CLAIM_PENDING"} THEN "CLAIMED" ELSE @]
             /\ Done(p)
     /\ UNCHANGED <<epochOk, op, fact, l1, owner, bounds>>

(* reserveL1Transaction under the claim's key: the other worker's row is replayed,
   or refused when it was asked for with other fees *)
Reserve(p) ==
  LET w == task[p].of
  IN /\ task[p].pc = "reserve"
     /\ \/ Fenced(p) /\ Goto(p, "release") /\ UNCHANGED op
        \/ ~Fenced(p) /\ op[w] = "none" /\ SetOp(w, "PREPARED") /\ Goto(p, "sign")
        \/ ~Fenced(p) /\ op[w] # "none" /\ UNCHANGED op
           /\ \/ Goto(p, "release")
              \/ At(p, IF op[w] = "PREPARED" THEN "sign" ELSE "link", w, op[w])
     /\ UNCHANGED <<withdrawal, epochOk, claim, fact, l1, owner, bounds>>

(* prepare() attaches the operation to the claim before it broadcasts *)
AfterSignSends == "send"

AfterSign == "link"

(* attachSignedL1Transaction; an existing signature is returned as it is *)
Sign(p) ==
  LET w == task[p].of
  IN /\ task[p].pc = "sign"
     /\ \/ (Fenced(p) \/ op[w] = "none") /\ Goto(p, "release") /\ UNCHANGED op
        \/ /\ ~Fenced(p) /\ op[w] # "none"
           /\ SetOp(w, IF op[w] = "PREPARED" THEN "SIGNED" ELSE op[w])
           /\ At(p, AfterSign, w, op'[w])
     /\ UNCHANGED <<withdrawal, epochOk, claim, fact, l1, owner, bounds>>

MayLink(p, w) == claim[w].status = "PENDING" /\ claim[w].lease = p

(* attachWithdrawalClaimOperation: the claim names the transaction before it is sent *)
Link(p) ==
  LET w == task[p].of
      after == IF task[p].seen = "SIGNED" THEN At(p, "send", w, "SIGNED") ELSE Done(p)
  IN /\ task[p].pc = "link"
     /\ IF Fenced(p) \/ (~claim[w].linked /\ ~MayLink(p, w))
        THEN Goto(p, "release") /\ UNCHANGED claim
        ELSE IF claim[w].linked THEN after /\ UNCHANGED claim
        ELSE /\ claim' = [claim EXCEPT ![w] =
                  [status |-> "SUBMITTED", lease |-> Nobody, linked |-> TRUE]]
             /\ after
     /\ UNCHANGED <<withdrawal, epochOk, op, fact, l1, owner, bounds>>

(* broadcastRawTransaction knows no fence; an error may leave the bytes with a node *)
Sent(w) == IF our[w] = "unsent" THEN "sent" ELSE our[w]

Send(p) ==
  LET w == task[p].of
      first == task[p].pc = "send"
  IN /\ task[p].pc \in {"send", "resend"}
     /\ \/ /\ our' = [our EXCEPT ![w] = Sent(w)]
           /\ Goto(p, IF first THEN "mark" ELSE "remark") /\ UNCHANGED errors
        \/ /\ errors < MaxErrors /\ errors' = errors + 1
           /\ our' \in {our, [our EXCEPT ![w] = Sent(w)]}
           /\ Goto(p, IF first THEN "release" ELSE "error")
     /\ UNCHANGED <<rows, fact, root, pay, settled, canonical, owner, takeovers, reorgs, surprises>>

MarkBroadcast(p) ==
  LET w == task[p].of
  IN /\ task[p].pc \in {"mark", "remark"}
     /\ IF ~Fenced(p) /\ op[w] \in {"SIGNED", "BROADCAST", "INCLUDED"}
        THEN SetOp(w, "BROADCAST") /\ Done(p)
        ELSE UNCHANGED op /\ Goto(p, IF task[p].pc = "mark" THEN "release" ELSE "error")
     /\ UNCHANGED <<withdrawal, epochOk, claim, fact, l1, owner, bounds>>

(* releaseWithdrawalClaimLease: of a claim that is still this worker's and unlinked *)
Release(p) ==
  LET w == task[p].of
  IN /\ task[p].pc = "release"
     /\ claim' = [claim EXCEPT ![w].lease =
          IF ~Fenced(p) /\ @ = p /\ claim[w].status = "PENDING" /\ ~claim[w].linked
          THEN Nobody ELSE @]
     /\ Done(p)
     /\ UNCHANGED <<withdrawal, epochOk, op, fact, l1, owner, bounds>>

-----------------------------------------------------------------------------
(* the claims that have one: processOnce reads the claim and its operation *)

(* setWithdrawalClaimStatus moves the withdrawal with the claim *)
OutcomeKeepsPending(s) == IF s = "CONFIRMED" THEN "CLAIMED" ELSE "CLAIM_PENDING"

Outcome(s) ==
  CASE s = "CONFIRMED" -> "CLAIMED" [] s = "RETRACTED" -> "RETRACTED" [] s = "FAILED" -> "FINALIZED"

SetStatus(p, w, s) ==
  /\ claim' = [claim EXCEPT ![w].status = s, ![w].lease = Nobody]
  /\ withdrawal' = [withdrawal EXCEPT ![w] = Outcome(s)]
  /\ UNCHANGED <<epochOk, op>>

Visit(p, w) ==
  /\ task[p].pc = "idle" /\ ~Fenced(p) /\ claim[w].linked
  /\ LET to(pc) == At(p, pc, w, op[w])
     IN \/ claim[w].status = "CONFIRMED" /\ op[w] = "RECOVERY_REQUIRED" /\ to("retracted")
        \/ claim[w].status = "SUBMITTED" /\ op[w] = "FAILED" /\ to("failed")
        \/ claim[w].status = "SUBMITTED" /\ op[w] = "SIGNED" /\ to("resend")
        \/ claim[w].status = "SUBMITTED" /\ op[w] \in {"BROADCAST", "INCLUDED"} /\ to("watch")
        \/ claim[w].status = "SUBMITTED" /\ op[w] = "FINALIZED" /\ to("confirmed")
  /\ UNCHANGED <<rows, fact, l1, owner, bounds>>

(* watch(): a missing receipt of a broadcast operation is left alone; one that
   disappeared is retracted and broadcast again *)
InBlock(w) == our[w] \in {"ok", "reverted"}
Moved(w) == w \notin canonical   \* unmined, or in another block than the recorded one
Record(w) == canonical' = canonical \cup {w}

Watch(p) ==
  LET w == task[p].of
  IN /\ task[p].pc = "watch"
     /\ \/ Fenced(p) /\ Done(p) /\ UNCHANGED <<op, canonical>>
        \/ ~Fenced(p) /\ op[w] \notin {"BROADCAST", "INCLUDED"} /\ Done(p)
           /\ UNCHANGED <<op, canonical>>
        \/ ~Fenced(p) /\ op[w] = "BROADCAST"
           /\ \/ ~InBlock(w) /\ Done(p) /\ UNCHANGED <<op, canonical>>
              \/ our[w] = "reverted" /\ SetOp(w, "FAILED") /\ Done(p) /\ UNCHANGED canonical
              \/ our[w] = "ok" /\ SetOp(w, "INCLUDED") /\ Record(w) /\ UNCHANGED task
        \/ ~Fenced(p) /\ op[w] = "INCLUDED" /\ UNCHANGED canonical
           /\ \/ Moved(w) /\ SetOp(w, "BROADCAST") /\ Goto(p, "resend")
              \/ ~Moved(w) /\ "our" \notin settled[w] /\ Done(p) /\ UNCHANGED op
              \/ ~Moved(w) /\ "our" \in settled[w] /\ SetOp(w, "FINALIZED")
                 /\ Goto(p, "confirmed")
     /\ UNCHANGED <<withdrawal, epochOk, claim, fact, root, pay, our, settled, owner, bounds>>

(* L1 does not answer, or the two providers do not agree *)
ReadFails(p) ==
  /\ task[p].pc = "watch" /\ errors < MaxErrors /\ errors' = errors + 1
  /\ Goto(p, "error")
  /\ UNCHANGED <<rows, fact, l1, owner, takeovers, reorgs, surprises>>

(* an error of the pass is counted, or ends an operation whose attempts are used up or
   whose deadline has passed *)
GiveUp(p) ==
  LET w == task[p].of
  IN /\ task[p].pc = "error"
     /\ \/ UNCHANGED op
        \/ ~Fenced(p) /\ op[w] \in Pending /\ SetOp(w, "RECOVERY_REQUIRED")
     /\ Done(p)
     /\ UNCHANGED <<withdrawal, epochOk, claim, fact, l1, owner, bounds>>

Transitions == {<<"SUBMITTED", "CONFIRMED">>, <<"SUBMITTED", "FAILED">>, <<"CONFIRMED", "RETRACTED">>}

Settle(p) ==
  LET w == task[p].of
      s == CASE task[p].pc = "confirmed" -> "CONFIRMED" [] task[p].pc = "failed" -> "FAILED"
             [] OTHER -> "RETRACTED"
  IN /\ task[p].pc \in {"confirmed", "failed", "retracted"}
     /\ IF ~Fenced(p) /\ <<claim[w].status, s>> \in Transitions
        THEN SetStatus(p, w, s) ELSE UNCHANGED rows
     /\ Done(p)
     /\ UNCHANGED <<fact, l1, owner, bounds>>

(* markL1TransactionRetracted on a finalized operation *)
RetractedAsUsual == "BROADCAST"

AuditVerdict == "RECOVERY_REQUIRED"

(* the audit of finalized operations: the block at the recorded height is another one,
   also when a later block pays again *)
Audit(p, w) ==
  /\ task[p].pc = "idle" /\ ~Fenced(p)
  /\ op[w] = "FINALIZED" /\ Moved(w)
  /\ SetOp(w, AuditVerdict) /\ fact' = [fact EXCEPT ![w] = FALSE]
  /\ UNCHANGED <<withdrawal, epochOk, claim, l1, task, owner, bounds>>

-----------------------------------------------------------------------------
(* another worker takes the delegation; the old one goes on until it meets the fence *)
TakeOver(p) ==
  /\ p # owner /\ takeovers < MaxTakeovers
  /\ owner' = p /\ takeovers' = takeovers + 1
  /\ UNCHANGED <<rows, fact, l1, task, reorgs, surprises, errors>>

Crash(p) ==
  /\ task[p].pc # "idle" /\ errors < MaxErrors /\ errors' = errors + 1
  /\ Done(p)
  /\ UNCHANGED <<rows, fact, l1, owner, takeovers, reorgs, surprises>>

Init ==
  /\ withdrawal = [w \in Withdrawals |-> "absent"] /\ epochOk = [w \in Withdrawals |-> FALSE]
  /\ claim = [w \in Withdrawals |-> [status |-> "none", lease |-> Nobody, linked |-> FALSE]]
  /\ op = [w \in Withdrawals |-> "none"] /\ fact = [w \in Withdrawals |-> FALSE]
  /\ root = [w \in Withdrawals |-> TRUE] /\ pay = [w \in Withdrawals |-> "open"]
  /\ our = [w \in Withdrawals |-> "unsent"] /\ settled = [w \in Withdrawals |-> {}]
  /\ canonical = {}
  /\ task = [p \in Workers |-> Idle] /\ owner \in Workers
  /\ takeovers = 0 /\ reorgs = 0 /\ surprises = 0 /\ errors = 0

Step(p) ==
  \/ Prepare(p) \/ ConfirmExternal(p) \/ Reserve(p) \/ Sign(p) \/ Link(p) \/ Send(p)
  \/ MarkBroadcast(p) \/ Release(p) \/ Watch(p) \/ GiveUp(p) \/ Settle(p)

Next ==
  \/ \E w \in Withdrawals :
       \/ Mine(w) \/ Relayer(w) \/ Finalize(w) \/ Reorg(w) \/ Surprise(w)
       \/ IndexClaimed(w) \/ IndexEpoch(w) \/ RetractRoot(w) \/ Request(w) \/ LeaseExpires(w)
       \/ \E p \in Workers : Lease(p, w) \/ Visit(p, w) \/ Audit(p, w)
  \/ \E p \in Workers : Step(p) \/ ReadFails(p) \/ TakeOver(p) \/ Crash(p)

Spec == Init /\ [][Next]_vars

(* timers tick on, leases run out, L1 finalizes and is indexed; nothing says that L1
   ever mines what it was sent *)
FairSpec ==
  /\ Spec
  /\ \A p \in Workers : WF_vars(Step(p))
  /\ \A w \in Withdrawals :
       /\ WF_vars(Finalize(w)) /\ WF_vars(IndexClaimed(w)) /\ WF_vars(RetractRoot(w))
       /\ WF_vars(LeaseExpires(w))
       /\ SF_vars(\E p \in Workers : Lease(p, w)) /\ SF_vars(\E p \in Workers : Visit(p, w))

-----------------------------------------------------------------------------
(* Rows, tasks and L1 are well formed. *)
TypeOK ==
  /\ withdrawal \in [Withdrawals -> {"absent", "FINALIZED", "CLAIM_PENDING", "CLAIMED", "RETRACTED"}]
  /\ claim \in [Withdrawals -> [status : {"none", "PENDING", "SUBMITTED", "CONFIRMED", "FAILED",
                                          "RETRACTED"},
                                lease : Workers \cup {Nobody}, linked : BOOLEAN]]
  /\ op \in [Withdrawals -> {"none", "FINALIZED", "FAILED", "RECOVERY_REQUIRED"} \cup Pending]
  /\ {epochOk, fact, root} \subseteq [Withdrawals -> BOOLEAN]
  /\ pay \in [Withdrawals -> {"open", "ours", "relayer"}]
  /\ our \in [Withdrawals -> {"unsent", "sent", "ok", "reverted"}]
  /\ settled \in [Withdrawals -> SUBSET {"pay", "our"}] /\ canonical \subseteq Withdrawals
  /\ owner \in Workers /\ \A p \in Workers : task[p].of \in Withdrawals \cup {Nobody}

(* No payout is on its way that its claim does not know: whoever crashes, loses the lease
   or the fence between signing and sending, a transaction L1 may have seen is linked to
   the claim (prepare attaches before it broadcasts). *)
SentIsLinked == \A w \in Withdrawals : our[w] # "unsent" => claim[w].linked

(* A claim is confirmed when a finalized block paid it, by us or by anyone, never by a
   receipt or an eth_call that a reorganisation can undo. *)
ConfirmedIsFinal ==
  surprises = 0 => \A w \in Withdrawals :
    claim[w].status = "CONFIRMED" => pay[w] # "open" /\ "pay" \in settled[w]

(* The two rows of one payout agree with each other and with L1 although different
   transactions of different workers write them; only a retraction of the root may
   separate the rows. *)
RowsAgree ==
  /\ ConfirmedIsFinal
  /\ \A w \in Withdrawals : withdrawal[w] # "RETRACTED" =>
       /\ claim[w].status \in {"PENDING", "SUBMITTED"} <=> withdrawal[w] = "CLAIM_PENDING"
       /\ claim[w].status = "CONFIRMED" <=> withdrawal[w] = "CLAIMED"

(* The claimer keeps the promise of the operation journal as the publishers do. *)
Verdict(w) ==
  CASE op[w] = "none" -> "none" [] op[w] \in Pending -> "open" [] op[w] = "FINALIZED" -> "final"
    [] op[w] = "FAILED" -> "failed" [] op[w] = "RECOVERY_REQUIRED" -> "recovery"

Ledger == INSTANCE OperationLedger WITH
  Ops <- Withdrawals, Bytes <- Withdrawals, NoBytes <- Nobody,
  verdict <- [w \in Withdrawals |-> Verdict(w)],
  bound <- [w \in Withdrawals |-> IF op[w] \in {"none", "PREPARED"} THEN Nobody ELSE w]
ImplementsOperationLedger == Ledger!Spec

(* A requested claim is submitted, or confirmed when somebody else was paid for it,
   unless its root is taken back: leases that run out, crashes, takeovers and races with
   relayers do not leave it waiting. *)
RequestIsAnswered ==
  \A w \in Withdrawals :
    claim[w].status = "PENDING" ~> (claim[w].status # "PENDING" \/ ~root[w])

(* "A corroborated hash change is a static safety surprise and must never be silently
   rewritten" (withdrawal-claimer.ts, processOnce): a proof whose root was retracted is
   not served as finalized again. *)
RetractedStaysRetracted ==
  [][\A w \in Withdrawals : withdrawal[w] = "RETRACTED" => withdrawal'[w] # "FINALIZED"]_vars
=============================================================================
