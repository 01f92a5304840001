------------------------ MODULE WithdrawalClaims_proofs ------------------------
(***************************************************************************)
(* The payouts of withdrawals, for any number of withdrawals, workers,     *)
(* takeovers, crashes, reorganisations and errors.                         *)
(***************************************************************************)
EXTENDS WithdrawalClaims, TLAPS

USE NobodyAssumption

-----------------------------------------------------------------------------
(* The inductive invariant. *)

Pcs == {"idle", "prepare", "external", "reserve", "sign", "link", "send", "resend", "mark",
        "remark", "release", "watch", "error", "confirmed", "failed", "retracted"}
OpStatus == {"none", "FINALIZED", "FAILED", "RECOVERY_REQUIRED"} \cup Pending
Tasks == [pc : Pcs, of : Withdrawals \cup {Nobody}, seen : OpStatus]
ClaimStatus == {"none", "PENDING", "SUBMITTED", "CONFIRMED", "FAILED", "RETRACTED"}
Claims == [status : ClaimStatus,
           lease : Workers \cup {Nobody}, linked : BOOLEAN]

Typed == TypeOK /\ task \in [Workers -> Tasks] /\ surprises \in Nat

Bound(s) == s \notin {"none", "PREPARED"}

(* L1: what is final of a payout is still there, and our transaction pays when it
   succeeds, in one block, final together with the payout; a recorded block that is on
   the chain holds it. *)
PaidOnce(w) ==
  /\ "pay" \in settled[w] => pay[w] # "open"
  /\ "our" \in settled[w] => our[w] \in {"ok", "reverted"}
  /\ our[w] = "ok" => pay[w] = "ours" /\ ("our" \in settled[w] <=> "pay" \in settled[w])
  /\ w \in canonical => our[w] = "ok"

(* The rows of a payout: a lease is of a pending claim; a claim is linked to an
   operation with signed bytes, and only then is anything sent. *)
RowsAreBound(w) ==
  /\ claim[w].lease # Nobody => claim[w].status = "PENDING"
  /\ claim[w].linked => Bound(op[w])
  /\ our[w] # "unsent" => claim[w].linked

Agreed(w) ==
  withdrawal[w] # "RETRACTED" =>
    /\ claim[w].status \in {"PENDING", "SUBMITTED"} <=> withdrawal[w] = "CLAIM_PENDING"
    /\ claim[w].status = "CONFIRMED" <=> withdrawal[w] = "CLAIMED"

(* What the rows and facts say of a final payout is so until L1 rewrites it. *)
Paid(w) == surprises = 0 => pay[w] # "open" /\ "pay" \in settled[w]
PaidByUs(w) == surprises = 0 => our[w] = "ok" /\ "our" \in settled[w]

SaysPaid(w) ==
  /\ fact[w] => Paid(w)
  /\ op[w] = "FINALIZED" => PaidByUs(w)
  /\ claim[w].status = "CONFIRMED" => Paid(w)

WithOperation == {"send", "resend", "mark", "remark", "watch", "error", "confirmed", "failed",
                  "retracted"}

TaskIsBound(t) ==
  /\ t.pc # "idle" => t.of \in Withdrawals
  /\ t.pc = "link" => Bound(op[t.of])
  /\ t.pc \in WithOperation => claim[t.of].linked
  /\ t.pc = "confirmed" => PaidByUs(t.of)

PayoutInv(w) == PaidOnce(w) /\ RowsAreBound(w) /\ Agreed(w) /\ SaysPaid(w)

ClaimInv ==
  /\ Typed
  /\ \A w \in Withdrawals : PayoutInv(w)
  /\ \A p \in Workers : TaskIsBound(task[p])

-----------------------------------------------------------------------------
(* A step changes the rows and L1's state of one payout at most, and the task of one
   worker. *)

Same(w) ==
  /\ withdrawal'[w] = withdrawal[w] /\ claim'[w] = claim[w] /\ op'[w] = op[w]
  /\ fact'[w] = fact[w] /\ pay'[w] = pay[w] /\ our'[w] = our[w] /\ settled'[w] = settled[w]
  /\ w \in canonical' <=> w \in canonical

Quiet == surprises' = surprises \/ surprises' # 0

Keeps(w) ==
  /\ claim[w].linked => claim'[w].linked
  /\ Bound(op[w]) => Bound(op'[w])
  /\ PaidByUs(w) => PaidByUs(w)'

LEMMA SameKeeps ==
  ASSUME NEW w, PayoutInv(w), Same(w), Quiet
  PROVE  PayoutInv(w)' /\ Keeps(w)
BY DEF PayoutInv, PaidOnce, RowsAreBound, Agreed, SaysPaid, Paid, PaidByUs, Same, Quiet, Keeps

LEMMA TaskKept ==
  ASSUME NEW p \in Workers, TaskIsBound(task[p]), task'[p] = task[p],
         \A w \in Withdrawals : Keeps(w)
  PROVE  TaskIsBound(task[p])'
BY DEF TaskIsBound, WithOperation, Keeps

LEMMA OnePayout ==
  ASSUME ClaimInv, Typed', Quiet,
         NEW w \in Withdrawals, \A q \in Withdrawals \ {w} : Same(q),
         PayoutInv(w)', Keeps(w),
         \A p \in Workers : task'[p] = task[p] \/ TaskIsBound(task[p])'
  PROVE  ClaimInv'
<1>1. \A q \in Withdrawals : PayoutInv(q)' /\ Keeps(q)
  BY SameKeeps DEF ClaimInv
<1>2. \A p \in Workers : TaskIsBound(task[p])'
  BY <1>1, TaskKept DEF ClaimInv
<1> QED BY <1>1, <1>2 DEF ClaimInv

(* no payout changes at all *)
LEMMA NoPayout ==
  ASSUME ClaimInv, Typed', Quiet, \A q \in Withdrawals : Same(q),
         \A p \in Workers : task'[p] = task[p] \/ TaskIsBound(task[p])'
  PROVE  ClaimInv'
<1>1. \A q \in Withdrawals : PayoutInv(q)' /\ Keeps(q)
  BY SameKeeps DEF ClaimInv
<1>2. \A p \in Workers : TaskIsBound(task[p])'
  BY <1>1, TaskKept DEF ClaimInv
<1> QED BY <1>1, <1>2 DEF ClaimInv

-----------------------------------------------------------------------------
(* Where a worker goes. *)

LEMMA DoneGoes ==
  ASSUME Typed, NEW p \in Workers, Done(p)
  PROVE  /\ task' \in [Workers -> Tasks]
         /\ \A q \in Workers : task'[q] = task[q] \/ TaskIsBound(task[q])'
<1>1. Idle \in Tasks /\ Idle.pc = "idle"
  BY DEF Idle, Tasks, Pcs, OpStatus
<1>2. task' \in [Workers -> Tasks] /\ task'[p] = Idle /\ \A q \in Workers \ {p} : task'[q] = task[q]
  BY <1>1 DEF Typed, Done
<1> QED BY <1>1, <1>2 DEF TaskIsBound, WithOperation

LEMMA GotoGoes ==
  ASSUME Typed, NEW p \in Workers, NEW pc \in Pcs, Goto(p, pc)
  PROVE  /\ task' \in [Workers -> Tasks]
         /\ task'[p].pc = pc /\ task'[p].of = task[p].of
         /\ \A q \in Workers \ {p} : task'[q] = task[q]
<1>1. task[p] \in Tasks
  BY DEF Typed
<1>2. [task[p] EXCEPT !.pc = pc] \in Tasks
  BY <1>1 DEF Tasks
<1> QED BY <1>1, <1>2 DEF Typed, Goto, Tasks

LEMMA AtGoes ==
  ASSUME Typed, NEW p \in Workers, NEW pc \in Pcs, NEW w \in Withdrawals, NEW s \in OpStatus,
         At(p, pc, w, s)
  PROVE  /\ task' \in [Workers -> Tasks]
         /\ task'[p].pc = pc /\ task'[p].of = w
         /\ \A q \in Workers \ {p} : task'[q] = task[q]
<1>1. [pc |-> pc, of |-> w, seen |-> s] \in Tasks
  BY DEF Tasks
<1> QED BY <1>1 DEF Typed, At

(* what its payout and its task are, for a worker at work *)
LEMMA AtWork ==
  ASSUME ClaimInv, NEW p \in Workers, task[p].pc # "idle"
  PROVE  /\ task[p] \in Tasks /\ task[p].of \in Withdrawals
         /\ TaskIsBound(task[p]) /\ PayoutInv(task[p].of)
         /\ op[task[p].of] \in OpStatus /\ claim[task[p].of] \in Claims
BY DEF ClaimInv, Typed, TypeOK, TaskIsBound, OpStatus, Claims, ClaimStatus

(* the task a step leaves is bound when its step says so *)
LEMMA Released ==
  ASSUME NEW p \in Workers, task'[p].of \in Withdrawals,
         task'[p].pc \notin WithOperation \cup {"link"}
  PROVE  TaskIsBound(task[p])'
BY DEF TaskIsBound, WithOperation

(* a claim that is written *)
LEMMA ClaimTypes ==
  ASSUME Typed, NEW w \in Withdrawals, NEW s \in ClaimStatus, NEW l \in Workers \cup {Nobody}
  PROVE  /\ [claim EXCEPT ![w].status = s] \in [Withdrawals -> Claims]
         /\ [claim EXCEPT ![w].lease = l] \in [Withdrawals -> Claims]
         /\ [claim EXCEPT ![w].status = s, ![w].lease = l] \in [Withdrawals -> Claims]
<1>1. claim \in [Withdrawals -> Claims] /\ claim[w] \in Claims
  BY DEF Typed, TypeOK, Claims, ClaimStatus
<1>2. \A c \in Claims : [c EXCEPT !.status = s] \in Claims /\ [c EXCEPT !.lease = l] \in Claims
  BY DEF Claims
<1>3. [claim EXCEPT ![w].status = s] \in [Withdrawals -> Claims]
  BY <1>1, <1>2
<1>4. [claim EXCEPT ![w].lease = l] \in [Withdrawals -> Claims]
  BY <1>1, <1>2
<1>5. [[claim EXCEPT ![w].status = s] EXCEPT ![w].lease = l] \in [Withdrawals -> Claims]
  <2> DEFINE c == [claim EXCEPT ![w].status = s]
  <2>1. c \in [Withdrawals -> Claims] /\ c[w] \in Claims
    BY <1>3
  <2> HIDE DEF c
  <2>2. [c EXCEPT ![w].lease = l] \in [Withdrawals -> Claims]
    BY <1>2, <2>1
  <2> QED BY <2>2 DEF c
<1> QED BY <1>3, <1>4, <1>5

-----------------------------------------------------------------------------
(* L1 and the indexer *)

LEMMA L1Step ==
  ASSUME ClaimInv, NEW w \in Withdrawals,
         Mine(w) \/ Relayer(w) \/ Finalize(w) \/ Reorg(w) \/ Surprise(w)
  PROVE  ClaimInv'
<1> USE DEF rows, l1, bounds
<1>1. UNCHANGED <<withdrawal, claim, op, fact, task>> /\ Quiet
  BY DEF Mine, Relayer, Finalize, Reorg, Surprise, Quiet, ClaimInv, Typed
<1>2. \A q \in Withdrawals \ {w} : Same(q)
  BY <1>1 DEF Mine, Relayer, Finalize, Reorg, Surprise, Same, ClaimInv, Typed, TypeOK
<1>3. Typed'
  <2>1. pay' \in [Withdrawals -> {"open", "ours", "relayer"}]
    BY DEF Mine, Relayer, Finalize, Reorg, Surprise, ClaimInv, Typed, TypeOK
  <2>2. our' \in [Withdrawals -> {"unsent", "sent", "ok", "reverted"}]
    BY DEF Mine, Relayer, Finalize, Reorg, Surprise, Unmined, ClaimInv, Typed, TypeOK
  <2>3. settled' \in [Withdrawals -> SUBSET {"pay", "our"}] /\ canonical' \subseteq Withdrawals
    BY DEF Mine, Relayer, Finalize, Reorg, Surprise, ClaimInv, Typed, TypeOK
  <2>4. root' \in [Withdrawals -> BOOLEAN] /\ epochOk' = epochOk /\ owner' = owner
    BY DEF Mine, Relayer, Finalize, Reorg, Surprise, ClaimInv, Typed, TypeOK
  <2>5. surprises' \in Nat
    BY DEF Mine, Relayer, Finalize, Reorg, Surprise, ClaimInv, Typed
  <2> QED BY <1>1, <2>1, <2>2, <2>3, <2>4, <2>5 DEF ClaimInv, Typed, TypeOK
<1>4. PayoutInv(w) /\ settled[w] \in SUBSET {"pay", "our"}
  BY DEF ClaimInv, Typed, TypeOK
<1>5. PaidOnce(w)' /\ (our'[w] # "unsent" => our[w] # "unsent")
  BY <1>4 DEF Mine, Relayer, Finalize, Reorg, Surprise, Unmined, ClaimInv, Typed, TypeOK,
    PayoutInv, PaidOnce
<1>6. (Paid(w) => Paid(w)') /\ (PaidByUs(w) => PaidByUs(w)')
  BY <1>4 DEF Mine, Relayer, Finalize, Reorg, Surprise, Unmined, ClaimInv, Typed, TypeOK,
    PayoutInv, PaidOnce, Paid, PaidByUs
<1>7. PayoutInv(w)' /\ Keeps(w)
  BY <1>1, <1>4, <1>5, <1>6 DEF PayoutInv, RowsAreBound, Agreed, SaysPaid, Keeps
<1> QED BY <1>1, <1>2, <1>3, <1>7, OnePayout

LEMMA IndexStep ==
  ASSUME ClaimInv, NEW w \in Withdrawals,
         IndexClaimed(w) \/ IndexEpoch(w) \/ RetractRoot(w) \/ Request(w) \/ LeaseExpires(w)
  PROVE  ClaimInv'
<1> USE DEF rows, l1, bounds
<1>1. UNCHANGED <<pay, our, settled, canonical, task, surprises>> /\ Quiet
  BY DEF IndexClaimed, IndexEpoch, RetractRoot, Request, LeaseExpires, Quiet
<1>2. \A q \in Withdrawals \ {w} : Same(q)
  BY <1>1 DEF IndexClaimed, IndexEpoch, RetractRoot, Request, LeaseExpires, SetOp, Same,
    ClaimInv, Typed, TypeOK
<1>3. Typed'
  <2>1. withdrawal' \in [Withdrawals -> {"absent", "FINALIZED", "CLAIM_PENDING", "CLAIMED", "RETRACTED"}]
    BY DEF IndexClaimed, IndexEpoch, RetractRoot, Request, LeaseExpires, ClaimInv, Typed, TypeOK
  <2>2. claim' \in [Withdrawals -> Claims]
    <3>1. claim \in [Withdrawals -> Claims] /\ Typed
      BY DEF ClaimInv, Typed, TypeOK, Claims, ClaimStatus
    <3>2. CASE Request(w)
      BY <3>1, <3>2, ClaimTypes DEF Request, ClaimStatus
    <3>3. CASE LeaseExpires(w)
      <4>1. claim' = [claim EXCEPT ![w].lease = Nobody]
        BY <3>3 DEF LeaseExpires
      <4> QED BY <3>1, <4>1, ClaimTypes DEF ClaimStatus
    <3>4. CASE UNCHANGED claim
      BY <3>1, <3>4
    <3> QED BY <3>2, <3>3, <3>4 DEF IndexClaimed, IndexEpoch, RetractRoot
  <2>3. op' \in [Withdrawals -> OpStatus]
    BY DEF IndexClaimed, IndexEpoch, RetractRoot, Request, LeaseExpires, SetOp, ClaimInv, Typed,
      TypeOK, OpStatus
  <2>4. epochOk' \in [Withdrawals -> BOOLEAN] /\ fact' \in [Withdrawals -> BOOLEAN]
    BY DEF IndexClaimed, IndexEpoch, RetractRoot, Request, LeaseExpires, ClaimInv, Typed, TypeOK
  <2>5. root' = root /\ owner' = owner
    BY DEF IndexClaimed, IndexEpoch, RetractRoot, Request, LeaseExpires
  <2> QED BY <1>1, <2>1, <2>2, <2>3, <2>4, <2>5 DEF ClaimInv, Typed, TypeOK, Claims, ClaimStatus, OpStatus
<1>4. PayoutInv(w) /\ claim[w] \in Claims /\ op[w] \in OpStatus
  BY DEF ClaimInv, Typed, TypeOK, Claims, ClaimStatus, OpStatus
<1>5. PaidOnce(w)' /\ (Paid(w) => Paid(w)') /\ (PaidByUs(w) => PaidByUs(w)')
  BY <1>1, <1>4 DEF PayoutInv, PaidOnce, Paid, PaidByUs
<1>6. PayoutInv(w)' /\ Keeps(w)
  <2>1. CASE IndexClaimed(w)
    BY <1>1, <1>4, <1>5, <2>1 DEF IndexClaimed, PayoutInv, PaidOnce, RowsAreBound, Agreed, SaysPaid,
      Keeps, Paid, ClaimInv, Typed, TypeOK
  <2>2. CASE IndexEpoch(w)
    BY <1>1, <1>4, <1>5, <2>2 DEF IndexEpoch, PayoutInv, RowsAreBound, Agreed, SaysPaid,
      Keeps, ClaimInv, Typed, TypeOK
  <2>3. CASE RetractRoot(w)
    BY <1>1, <1>4, <1>5, <2>3 DEF RetractRoot, SetOp, PayoutInv, RowsAreBound, Agreed, SaysPaid,
      Keeps, Bound, ClaimInv, Typed, TypeOK
  <2>4. CASE Request(w)
    BY <1>1, <1>4, <1>5, <2>4 DEF Request, PayoutInv, RowsAreBound, Agreed, SaysPaid,
      Keeps, ClaimInv, Typed, TypeOK, Claims
  <2>5. CASE LeaseExpires(w)
    BY <1>1, <1>4, <1>5, <2>5 DEF LeaseExpires, PayoutInv, RowsAreBound, Agreed, SaysPaid,
      Keeps, ClaimInv, Typed, TypeOK, Claims
  <2> QED BY <2>1, <2>2, <2>3, <2>4, <2>5
<1> QED BY <1>1, <1>2, <1>3, <1>6, OnePayout

-----------------------------------------------------------------------------
(* The claimer *)

LEMMA LeaseStep ==
  ASSUME ClaimInv, NEW p \in Workers, NEW w \in Withdrawals, Lease(p, w)
  PROVE  ClaimInv'
<1> USE DEF rows, l1, bounds
<1>1. /\ UNCHANGED <<withdrawal, epochOk, op, fact, root, pay, our, settled, canonical, owner, surprises>> /\ Quiet
      /\ Typed /\ claim[w] \in Claims /\ PayoutInv(w)
  BY DEF Lease, Quiet, ClaimInv, Typed, TypeOK, Claims, ClaimStatus
<1>2. claim' = [claim EXCEPT ![w].lease = p] /\ claim' \in [Withdrawals -> Claims]
  BY <1>1, ClaimTypes DEF Lease, ClaimStatus
<1>3. /\ task' \in [Workers -> Tasks] /\ task'[p].pc = "prepare" /\ task'[p].of = w
      /\ \A q \in Workers \ {p} : task'[q] = task[q]
  BY <1>1, AtGoes DEF Lease, Pcs, OpStatus
<1>4. TaskIsBound(task[p])'
  BY <1>3, Released DEF WithOperation
<1>5. Typed'
  BY <1>1, <1>2, <1>3 DEF Typed, TypeOK, Tasks, Claims, ClaimStatus
<1>6. \A q \in Withdrawals \ {w} : Same(q)
  BY <1>1, <1>2 DEF Same, Typed, TypeOK
<1>7. /\ claim'[w].status = claim[w].status /\ claim'[w].linked = claim[w].linked
      /\ claim[w].status = "PENDING"
  BY <1>1, <1>2 DEF Lease, Typed, TypeOK, Claims
<1>8. PayoutInv(w)' /\ Keeps(w)
  BY <1>1, <1>7 DEF PayoutInv, PaidOnce, RowsAreBound, Agreed, SaysPaid, Paid, PaidByUs, Keeps
<1> QED BY <1>1, <1>3, <1>4, <1>5, <1>6, <1>8, OnePayout

(* A step of a worker that reads, and goes where what it read allows. *)
LEMMA Reads ==
  ASSUME ClaimInv, NEW p \in Workers, task' \in [Workers -> Tasks],
         UNCHANGED <<rows, fact, l1, surprises>>, owner' \in Workers,
         \A q \in Workers : task'[q] = task[q] \/ TaskIsBound(task[q])'
  PROVE  ClaimInv'
<1>1. Typed' /\ Quiet /\ \A q \in Withdrawals : Same(q)
  BY DEF rows, l1, ClaimInv, Typed, TypeOK, Tasks, Quiet, Same
<1> QED BY <1>1, NoPayout

LEMMA PrepareStep ==
  ASSUME ClaimInv, NEW p \in Workers, Prepare(p)
  PROVE  ClaimInv'
<1> DEFINE w == task[p].of
<1>1. /\ task[p].pc = "prepare" /\ w \in Withdrawals /\ op[w] \in OpStatus /\ Typed
      /\ UNCHANGED <<rows, fact, l1, surprises>> /\ owner' \in Workers
  BY AtWork DEF Prepare, bounds, ClaimInv, Typed, TypeOK
<1>2. PICK pc \in {"release", "sign", "external", "reserve", "link"} :
        At(p, pc, w, op[w]) /\ (pc = "link" => Bound(op[w]))
  BY DEF Prepare, Bound
<1>3. /\ task' \in [Workers -> Tasks] /\ task'[p].pc = pc /\ task'[p].of = w
      /\ \A q \in Workers \ {p} : task'[q] = task[q]
  BY <1>1, <1>2, AtGoes DEF Pcs
<1>4. TaskIsBound(task[p])'
  BY <1>1, <1>2, <1>3 DEF TaskIsBound, WithOperation, rows
<1> QED BY <1>1, <1>3, <1>4, Reads

(* The claim goes when the fact of a final payout is there. *)
LEMMA ConfirmExternalStep ==
  ASSUME ClaimInv, NEW p \in Workers, ConfirmExternal(p)
  PROVE  ClaimInv'
<1>0. PICK w \in Withdrawals : w = task[p].of
  BY AtWork DEF ConfirmExternal
<1> USE <1>0
<1> USE DEF rows, l1, bounds
<1>1. /\ task[p].pc = "external" /\ w \in Withdrawals /\ claim[w] \in Claims /\ PayoutInv(w) /\ Typed
      /\ UNCHANGED <<epochOk, op, fact, root, pay, our, settled, canonical, owner, surprises>> /\ Quiet
  BY AtWork DEF ConfirmExternal, Quiet, ClaimInv
<1>2. CASE Goto(p, "release") /\ UNCHANGED <<claim, withdrawal>>
  <2>1. /\ task' \in [Workers -> Tasks] /\ task'[p].pc = "release" /\ task'[p].of = w
        /\ \A q \in Workers \ {p} : task'[q] = task[q]
    BY <1>1, <1>2, GotoGoes DEF Pcs
  <2>2. TaskIsBound(task[p])'
    BY <1>1, <2>1, Released DEF WithOperation
  <2> QED BY <1>1, <1>2, <2>1, <2>2, Reads DEF Typed, TypeOK
<1>3. CASE /\ claim[w].lease = p /\ ~claim[w].linked /\ Evidence(w)
           /\ claim' = [claim EXCEPT ![w].status = "CONFIRMED", ![w].lease = Nobody]
           /\ withdrawal' = [withdrawal EXCEPT ![w] =
                IF @ \in {"FINALIZED", "CLAIM_PENDING"} THEN "CLAIMED" ELSE @]
           /\ Done(p)
  <2>1. /\ task' \in [Workers -> Tasks]
        /\ \A q \in Workers : task'[q] = task[q] \/ TaskIsBound(task[q])'
    BY <1>1, <1>3, DoneGoes
  <2>2. claim' \in [Withdrawals -> Claims]
    BY <1>1, <1>3, ClaimTypes DEF ClaimStatus
  <2>3. withdrawal' \in [Withdrawals -> {"absent", "FINALIZED", "CLAIM_PENDING", "CLAIMED", "RETRACTED"}]
    BY <1>1, <1>3 DEF Typed, TypeOK
  <2>4. Typed'
    BY <1>1, <2>1, <2>2, <2>3 DEF Typed, TypeOK, Tasks, Claims, ClaimStatus
  <2>5. \A q \in Withdrawals \ {w} : Same(q)
    BY <1>1, <1>3 DEF Same, Typed, TypeOK
  <2>6. /\ claim'[w].status = "CONFIRMED" /\ claim'[w].lease = Nobody
        /\ claim'[w].linked = claim[w].linked /\ fact[w]
        /\ withdrawal'[w] = IF withdrawal[w] \in {"FINALIZED", "CLAIM_PENDING"}
                            THEN "CLAIMED" ELSE withdrawal[w]
    BY <1>1, <1>3 DEF Typed, TypeOK, Claims, Evidence
  <2>7. claim[w].status = "PENDING"
    BY <1>1, <1>3 DEF PayoutInv, RowsAreBound
  <2>8. PaidOnce(w)' /\ RowsAreBound(w)' /\ Keeps(w)
    BY <1>1, <2>6 DEF PayoutInv, PaidOnce, RowsAreBound, PaidByUs, Keeps
  <2>9. Agreed(w)'
    BY <1>1, <2>6, <2>7 DEF PayoutInv, Agreed
  <2>10. SaysPaid(w)'
    BY <1>1, <2>6 DEF PayoutInv, SaysPaid, Paid, PaidByUs
  <2>11. PayoutInv(w)'
    BY <2>8, <2>9, <2>10 DEF PayoutInv
  <2> QED BY <1>1, <2>1, <2>4, <2>5, <2>8, <2>11, OnePayout
<1> QED BY <1>2, <1>3 DEF ConfirmExternal

(* A step that writes the operation of its task's payout, and perhaps the block that
   holds it, and no other row. *)
LEMMA OpInBlockStep ==
  ASSUME ClaimInv, NEW p \in Workers, NEW w \in Withdrawals, NEW s \in OpStatus, SetOp(w, s),
         UNCHANGED <<withdrawal, epochOk, claim, fact, root, pay, our, settled, owner, surprises>>,
         canonical' \in {canonical, canonical \cup {w}}, w \in canonical' => our[w] = "ok",
         Bound(op[w]) => Bound(s),
         s = "FINALIZED" => PaidByUs(w),
         task' \in [Workers -> Tasks],
         \A q \in Workers : task'[q] = task[q] \/ TaskIsBound(task[q])'
  PROVE  ClaimInv'
<1>1. /\ Typed /\ PayoutInv(w) /\ op' \in [Withdrawals -> OpStatus] /\ op'[w] = s
      /\ \A q \in Withdrawals \ {w} : op'[q] = op[q]
  BY DEF SetOp, ClaimInv, Typed, TypeOK, OpStatus
<1>2. canonical' \subseteq Withdrawals
  BY <1>1 DEF Typed, TypeOK
<1>3. Typed' /\ Quiet
  BY <1>1, <1>2 DEF Typed, TypeOK, Tasks, Quiet, OpStatus
<1>4. \A q \in Withdrawals \ {w} : Same(q)
  BY <1>1 DEF Same
<1>5. PayoutInv(w)' /\ Keeps(w)
  BY <1>1 DEF PayoutInv, PaidOnce, RowsAreBound, Agreed, SaysPaid, Paid, PaidByUs, Keeps
<1> QED BY <1>3, <1>4, <1>5, OnePayout

LEMMA OpStep ==
  ASSUME ClaimInv, NEW p \in Workers, NEW w \in Withdrawals, NEW s \in OpStatus, SetOp(w, s),
         UNCHANGED <<withdrawal, epochOk, claim, fact, l1, owner, surprises>>,
         Bound(op[w]) => Bound(s),
         s = "FINALIZED" => PaidByUs(w),
         task' \in [Workers -> Tasks],
         \A q \in Workers : task'[q] = task[q] \/ TaskIsBound(task[q])'
  PROVE  ClaimInv'
<1>1. UNCHANGED <<root, pay, our, settled, canonical>>
  BY DEF l1
<1>2. w \in canonical' => our[w] = "ok"
  BY <1>1 DEF ClaimInv, PayoutInv, PaidOnce
<1> QED BY <1>1, <1>2, OpInBlockStep

LEMMA ReserveStep ==
  ASSUME ClaimInv, NEW p \in Workers, Reserve(p)
  PROVE  ClaimInv'
<1> DEFINE w == task[p].of
<1>1. /\ task[p].pc = "reserve" /\ w \in Withdrawals /\ op[w] \in OpStatus /\ Typed
      /\ UNCHANGED <<withdrawal, epochOk, claim, fact, l1, owner, surprises>> /\ owner \in Workers
  BY AtWork DEF Reserve, bounds, ClaimInv, Typed, TypeOK
<1>2. CASE Goto(p, "release") /\ UNCHANGED op
  <2>1. /\ task' \in [Workers -> Tasks] /\ task'[p].pc = "release" /\ task'[p].of = w
        /\ \A q \in Workers \ {p} : task'[q] = task[q]
    BY <1>1, <1>2, GotoGoes DEF Pcs
  <2>2. TaskIsBound(task[p])'
    BY <1>1, <2>1, Released DEF WithOperation
  <2> QED BY <1>1, <1>2, <2>1, <2>2, Reads DEF rows
<1>3. CASE op[w] = "none" /\ SetOp(w, "PREPARED") /\ Goto(p, "sign")
  <2>1. /\ task' \in [Workers -> Tasks] /\ task'[p].pc = "sign" /\ task'[p].of = w
        /\ \A q \in Workers \ {p} : task'[q] = task[q]
    BY <1>1, <1>3, GotoGoes DEF Pcs
  <2>2. TaskIsBound(task[p])'
    BY <1>1, <2>1, Released DEF WithOperation
  <2>3. "PREPARED" \in OpStatus
    BY DEF OpStatus, Pending
  <2> QED BY <1>1, <1>3, <2>1, <2>2, <2>3, OpStep DEF Bound
<1>4. CASE /\ op[w] # "none" /\ UNCHANGED op
           /\ At(p, IF op[w] = "PREPARED" THEN "sign" ELSE "link", w, op[w])
  <2> DEFINE pc == IF op[w] = "PREPARED" THEN "sign" ELSE "link"
  <2>1. pc \in Pcs
    BY DEF Pcs
  <2>2. /\ task' \in [Workers -> Tasks] /\ task'[p].pc = pc /\ task'[p].of = w
        /\ \A q \in Workers \ {p} : task'[q] = task[q]
    BY <1>1, <1>4, <2>1, AtGoes
  <2>3. TaskIsBound(task[p])'
    BY <1>1, <1>4, <2>2 DEF TaskIsBound, WithOperation, Bound
  <2> QED BY <1>1, <1>4, <2>2, <2>3, Reads DEF rows
<1> QED BY <1>2, <1>3, <1>4 DEF Reserve

LEMMA SignStep ==
  ASSUME ClaimInv, NEW p \in Workers, Sign(p)
  PROVE  ClaimInv'
<1> DEFINE w == task[p].of
<1>1. /\ task[p].pc = "sign" /\ w \in Withdrawals /\ op[w] \in OpStatus /\ Typed
      /\ UNCHANGED <<withdrawal, epochOk, claim, fact, l1, owner, surprises>> /\ owner \in Workers
  BY AtWork DEF Sign, bounds, ClaimInv, Typed, TypeOK
<1>2. CASE Goto(p, "release") /\ UNCHANGED op
  <2>1. /\ task' \in [Workers -> Tasks] /\ task'[p].pc = "release" /\ task'[p].of = w
        /\ \A q \in Workers \ {p} : task'[q] = task[q]
    BY <1>1, <1>2, GotoGoes DEF Pcs
  <2>2. TaskIsBound(task[p])'
    BY <1>1, <2>1, Released DEF WithOperation
  <2> QED BY <1>1, <1>2, <2>1, <2>2, Reads DEF rows
<1>3. CASE /\ op[w] # "none" /\ SetOp(w, IF op[w] = "PREPARED" THEN "SIGNED" ELSE op[w])
           /\ At(p, AfterSign, w, op'[w])
  <2> DEFINE s == IF op[w] = "PREPARED" THEN "SIGNED" ELSE op[w]
  <2>1. s \in OpStatus /\ Bound(s) /\ op'[w] = s
    BY <1>1, <1>3 DEF OpStatus, Pending, Bound, SetOp, Typed, TypeOK
  <2>2. /\ task' \in [Workers -> Tasks] /\ task'[p].pc = "link" /\ task'[p].of = w
        /\ \A q \in Workers \ {p} : task'[q] = task[q]
    <3>1. AfterSign = "link" /\ "link" \in Pcs
      BY DEF Pcs, AfterSign
    <3>2. s \in OpStatus /\ At(p, "link", w, s)
      BY <1>3, <2>1, <3>1
    <3> QED BY <1>1, <3>1, <3>2, AtGoes
  <2>3. TaskIsBound(task[p])'
    BY <1>1, <2>1, <2>2 DEF TaskIsBound, WithOperation
  <2>4. s = "FINALIZED" => PaidByUs(w)
    BY <1>1 DEF ClaimInv, PayoutInv, SaysPaid
  <2> HIDE DEF s
  <2>5. SetOp(w, s)
    BY <1>3 DEF s
  <2> QED BY <1>1, <2>1, <2>2, <2>3, <2>4, <2>5, OpStep
<1> QED BY <1>2, <1>3 DEF Sign

(* The claim is linked while it is this worker's, before anything is sent. *)
LEMMA LinkStep ==
  ASSUME ClaimInv, NEW p \in Workers, Link(p)
  PROVE  ClaimInv'
<1>0. PICK w \in Withdrawals : w = task[p].of
  BY AtWork DEF Link
<1> USE <1>0
<1> DEFINE after == At(p, "send", w, "SIGNED") \/ Done(p)
<1> USE DEF rows, l1, bounds
<1>1. /\ task[p].pc = "link" /\ w \in Withdrawals /\ claim[w] \in Claims /\ PayoutInv(w) /\ Typed
      /\ Bound(op[w]) /\ "send" \in Pcs /\ "SIGNED" \in OpStatus
      /\ UNCHANGED <<withdrawal, epochOk, op, fact, root, pay, our, settled, canonical, owner, surprises>> /\ Quiet
  BY AtWork DEF Link, Quiet, ClaimInv, TaskIsBound, Pcs, OpStatus, Pending
<1>2. CASE Goto(p, "release") /\ UNCHANGED claim
  <2>1. /\ task' \in [Workers -> Tasks] /\ task'[p].pc = "release" /\ task'[p].of = w
        /\ \A q \in Workers \ {p} : task'[q] = task[q]
    BY <1>1, <1>2, GotoGoes DEF Pcs
  <2>2. TaskIsBound(task[p])'
    BY <1>1, <2>1, Released DEF WithOperation
  <2> QED BY <1>1, <1>2, <2>1, <2>2, Reads DEF Typed, TypeOK
<1>3. ASSUME after, claim'[w].linked
      PROVE  /\ task' \in [Workers -> Tasks]
             /\ \A q \in Workers : task'[q] = task[q] \/ TaskIsBound(task[q])'
  <2>1. CASE Done(p)
    BY <1>1, <2>1, DoneGoes
  <2>2. CASE At(p, "send", w, "SIGNED")
    <3>1. /\ task' \in [Workers -> Tasks] /\ task'[p].pc = "send" /\ task'[p].of = w
          /\ \A q \in Workers \ {p} : task'[q] = task[q]
      BY <1>1, <2>2, AtGoes
    <3>2. TaskIsBound(task[p])'
      BY <1>1, <1>3, <3>1 DEF TaskIsBound, WithOperation
    <3> QED BY <3>1, <3>2
  <2> QED BY <1>3, <2>1, <2>2
<1>4. CASE after /\ claim[w].linked /\ UNCHANGED claim
  BY <1>1, <1>3, <1>4, Reads DEF Typed, TypeOK
<1>5. CASE /\ after /\ MayLink(p, w)
           /\ claim' = [claim EXCEPT ![w] =
                [status |-> "SUBMITTED", lease |-> Nobody, linked |-> TRUE]]
  <2>1. [status |-> "SUBMITTED", lease |-> Nobody, linked |-> TRUE] \in Claims
    BY DEF Claims, ClaimStatus
  <2>2. claim \in [Withdrawals -> Claims]
    BY <1>1 DEF Typed, TypeOK, Claims, ClaimStatus
  <2>3. /\ claim' \in [Withdrawals -> Claims] /\ claim'[w].status = "SUBMITTED"
        /\ claim'[w].lease = Nobody /\ claim'[w].linked
        /\ \A q \in Withdrawals \ {w} : claim'[q] = claim[q]
    BY <1>1, <1>5, <2>1, <2>2
  <2>4. /\ task' \in [Workers -> Tasks]
        /\ \A q \in Workers : task'[q] = task[q] \/ TaskIsBound(task[q])'
    BY <1>3, <1>5, <2>3
  <2>5. Typed'
    BY <1>1, <2>3, <2>4 DEF Typed, TypeOK, Tasks, Claims, ClaimStatus
  <2>6. \A q \in Withdrawals \ {w} : Same(q)
    BY <1>1, <2>3 DEF Same
  <2>7. PaidOnce(w)' /\ RowsAreBound(w)' /\ Keeps(w)
    BY <1>1, <2>3 DEF PayoutInv, PaidOnce, RowsAreBound, PaidByUs, Keeps
  <2>8. Agreed(w)'
    BY <1>1, <1>5, <2>3 DEF PayoutInv, Agreed, MayLink
  <2>9. SaysPaid(w)'
    BY <1>1, <2>3 DEF PayoutInv, SaysPaid, Paid, PaidByUs
  <2>10. PayoutInv(w)'
    BY <2>7, <2>8, <2>9 DEF PayoutInv
  <2> QED BY <1>1, <2>4, <2>5, <2>6, <2>7, <2>10, OnePayout
<1> QED BY <1>2, <1>4, <1>5 DEF Link

(* Where a worker goes that stays with its operation. *)
LEMMA StaysBound ==
  ASSUME ClaimInv, NEW p \in Workers, task[p].pc \in WithOperation,
         NEW pc \in {"mark", "remark", "release", "error", "resend", "confirmed"},
         pc = "confirmed" => PaidByUs(task[p].of) /\ UNCHANGED <<surprises, our, settled>>,
         claim' = claim, Goto(p, pc)
  PROVE  /\ task' \in [Workers -> Tasks]
         /\ \A q \in Workers : task'[q] = task[q] \/ TaskIsBound(task[q])'
<1>1. Typed /\ pc \in Pcs /\ task[p].of \in Withdrawals /\ claim[task[p].of].linked
  BY DEF ClaimInv, TaskIsBound, Pcs, WithOperation
<1>2. /\ task' \in [Workers -> Tasks] /\ task'[p].pc = pc /\ task'[p].of = task[p].of
      /\ \A q \in Workers \ {p} : task'[q] = task[q]
  BY <1>1, GotoGoes
<1>3. TaskIsBound(task[p])'
  BY <1>1, <1>2 DEF TaskIsBound, WithOperation, PaidByUs
<1> QED BY <1>2, <1>3

LEMMA SendStep ==
  ASSUME ClaimInv, NEW p \in Workers, Send(p)
  PROVE  ClaimInv'
<1>0. PICK w \in Withdrawals : w = task[p].of
  BY AtWork DEF Send
<1> USE <1>0
<1> USE DEF rows, l1, bounds
<1>1. /\ task[p].pc \in {"send", "resend"} /\ w \in Withdrawals /\ PayoutInv(w) /\ Typed
      /\ claim[w].linked /\ task[p].pc \in WithOperation
      /\ UNCHANGED <<withdrawal, epochOk, claim, op, fact, root, pay, settled, canonical, owner,
                    surprises>> /\ Quiet
  BY AtWork DEF Send, Quiet, ClaimInv, TaskIsBound, WithOperation
<1>2. PICK pc \in {"mark", "remark", "release", "error"} : Goto(p, pc)
  BY DEF Send
<1>3. /\ task' \in [Workers -> Tasks]
      /\ \A q \in Workers : task'[q] = task[q] \/ TaskIsBound(task[q])'
  BY <1>1, <1>2, StaysBound
<1>4. our' = our \/ our' = [our EXCEPT ![w] = Sent(w)]
  BY DEF Send
<1>5. /\ our' \in [Withdrawals -> {"unsent", "sent", "ok", "reverted"}]
      /\ \A q \in Withdrawals \ {w} : our'[q] = our[q]
      /\ our'[w] = our[w] \/ (our[w] = "unsent" /\ our'[w] = "sent")
  <2>1. our \in [Withdrawals -> {"unsent", "sent", "ok", "reverted"}]
    BY <1>1 DEF Typed, TypeOK
  <2>2. CASE our' = our
    BY <2>1, <2>2
  <2>3. CASE our' = [our EXCEPT ![w] = Sent(w)]
    <3>1. Sent(w) \in {"unsent", "sent", "ok", "reverted"}
      BY <1>1, <2>1 DEF Sent
    <3> QED BY <1>1, <2>1, <2>3, <3>1 DEF Sent
  <2> QED BY <1>4, <2>2, <2>3
<1>6. Typed'
  BY <1>1, <1>3, <1>5 DEF Typed, TypeOK, Tasks
<1>7. \A q \in Withdrawals \ {w} : Same(q)
  BY <1>1, <1>5 DEF Same
<1>8. PayoutInv(w)' /\ Keeps(w)
  BY <1>1, <1>5 DEF PayoutInv, PaidOnce, RowsAreBound, Agreed, SaysPaid, Paid, PaidByUs, Keeps
<1> QED BY <1>1, <1>3, <1>6, <1>7, <1>8, OnePayout

LEMMA MarkBroadcastStep ==
  ASSUME ClaimInv, NEW p \in Workers, MarkBroadcast(p)
  PROVE  ClaimInv'
<1> DEFINE w == task[p].of
<1>1. /\ task[p].pc \in WithOperation /\ w \in Withdrawals /\ Typed /\ owner \in Workers
      /\ UNCHANGED <<withdrawal, epochOk, claim, fact, l1, owner, surprises>>
  BY AtWork DEF MarkBroadcast, bounds, ClaimInv, Typed, TypeOK, WithOperation
<1>2. CASE SetOp(w, "BROADCAST") /\ Done(p)
  <2>1. "BROADCAST" \in OpStatus /\ Bound("BROADCAST")
    BY DEF OpStatus, Pending, Bound
  <2> QED BY <1>1, <1>2, <2>1, DoneGoes, OpStep
<1>3. CASE UNCHANGED op /\ Goto(p, IF task[p].pc = "mark" THEN "release" ELSE "error")
  <2>1. /\ task' \in [Workers -> Tasks]
        /\ \A q \in Workers : task'[q] = task[q] \/ TaskIsBound(task[q])'
    BY <1>1, <1>3, StaysBound
  <2> QED BY <1>1, <1>3, <2>1, Reads DEF rows
<1> QED BY <1>2, <1>3 DEF MarkBroadcast

LEMMA ReleaseStep ==
  ASSUME ClaimInv, NEW p \in Workers, Release(p)
  PROVE  ClaimInv'
<1>0. PICK w \in Withdrawals : w = task[p].of
  BY AtWork DEF Release
<1> USE <1>0 DEF rows, l1, bounds
<1>1. /\ claim[w] \in Claims /\ PayoutInv(w) /\ Typed
      /\ UNCHANGED <<withdrawal, epochOk, op, fact, root, pay, our, settled, canonical, owner, surprises>> /\ Quiet
  BY AtWork DEF Release, Quiet, ClaimInv
<1>2. PICK l \in {Nobody, claim[w].lease} : claim' = [claim EXCEPT ![w].lease = l]
  BY DEF Release
<1>3. l \in Workers \cup {Nobody} /\ "none" \in ClaimStatus
  BY <1>1 DEF Claims, ClaimStatus
<1>4. claim' \in [Withdrawals -> Claims]
  BY <1>1, <1>2, <1>3, ClaimTypes
<1>5. /\ task' \in [Workers -> Tasks]
      /\ \A q \in Workers : task'[q] = task[q] \/ TaskIsBound(task[q])'
  BY <1>1, DoneGoes DEF Release
<1>6. Typed'
  BY <1>1, <1>4, <1>5 DEF Typed, TypeOK, Tasks, Claims, ClaimStatus
<1>7. \A q \in Withdrawals \ {w} : Same(q)
  BY <1>1, <1>2 DEF Same, Typed, TypeOK
<1>8. /\ claim'[w].status = claim[w].status /\ claim'[w].linked = claim[w].linked
      /\ claim'[w].lease # Nobody => claim[w].lease # Nobody
  BY <1>1, <1>2 DEF Typed, TypeOK, Claims
<1>9. PayoutInv(w)' /\ Keeps(w)
  BY <1>1, <1>8 DEF PayoutInv, PaidOnce, RowsAreBound, Agreed, SaysPaid, Paid, PaidByUs, Keeps
<1> QED BY <1>1, <1>5, <1>6, <1>7, <1>9, OnePayout

LEMMA WatchStep ==
  ASSUME ClaimInv, NEW p \in Workers, Watch(p)
  PROVE  ClaimInv'
<1>0. PICK w \in Withdrawals : w = task[p].of
  BY AtWork DEF Watch
<1> USE <1>0
<1>1. /\ task[p].pc \in WithOperation /\ Typed /\ owner \in Workers
      /\ UNCHANGED <<withdrawal, epochOk, claim, fact, root, pay, our, settled, owner, surprises>>
      /\ task \in [Workers -> Tasks]
  BY DEF Watch, bounds, ClaimInv, Typed, TypeOK, WithOperation
<1>2. PayoutInv(w) /\ (w \in canonical => our[w] = "ok")
  BY DEF ClaimInv, PayoutInv, PaidOnce
<1>3. CASE Done(p) /\ UNCHANGED <<op, canonical>>
  BY <1>1, <1>3, DoneGoes, Reads DEF rows, l1
<1>4. CASE SetOp(w, "FAILED") /\ Done(p) /\ UNCHANGED canonical
  <2>1. "FAILED" \in OpStatus /\ Bound("FAILED")
    BY DEF OpStatus, Bound
  <2> QED BY <1>1, <1>4, <2>1, DoneGoes, OpStep DEF l1
<1>5. CASE our[w] = "ok" /\ SetOp(w, "INCLUDED") /\ Record(w) /\ UNCHANGED task
  <2>1. "INCLUDED" \in OpStatus /\ Bound("INCLUDED")
    BY DEF OpStatus, Pending, Bound
  <2> QED BY <1>1, <1>5, <2>1, OpInBlockStep DEF Record
<1>6. CASE SetOp(w, "BROADCAST") /\ Goto(p, "resend") /\ UNCHANGED canonical
  <2>1. "BROADCAST" \in OpStatus /\ Bound("BROADCAST")
    BY DEF OpStatus, Pending, Bound
  <2>2. /\ task' \in [Workers -> Tasks]
        /\ \A q \in Workers : task'[q] = task[q] \/ TaskIsBound(task[q])'
    BY <1>1, <1>6, StaysBound
  <2> QED BY <1>1, <1>6, <2>1, <2>2, OpStep DEF l1
<1>7. CASE /\ ~Moved(w) /\ "our" \in settled[w] /\ SetOp(w, "FINALIZED")
           /\ Goto(p, "confirmed") /\ UNCHANGED canonical
  <2>1. "FINALIZED" \in OpStatus /\ Bound("FINALIZED")
    BY DEF OpStatus, Bound
  <2>2. PaidByUs(w)
    BY <1>7, <1>2 DEF PaidByUs, Moved
  <2>3. /\ task' \in [Workers -> Tasks]
        /\ \A q \in Workers : task'[q] = task[q] \/ TaskIsBound(task[q])'
    BY <1>1, <1>7, <2>2, StaysBound
  <2> QED BY <1>1, <1>7, <2>1, <2>2, <2>3, OpStep DEF l1
<1> QED BY <1>3, <1>4, <1>5, <1>6, <1>7 DEF Watch

LEMMA GiveUpStep ==
  ASSUME ClaimInv, NEW p \in Workers, GiveUp(p)
  PROVE  ClaimInv'
<1>0. PICK w \in Withdrawals : w = task[p].of
  BY AtWork DEF GiveUp
<1> USE <1>0
<1>1. /\ Typed /\ owner \in Workers /\ Done(p)
      /\ UNCHANGED <<withdrawal, epochOk, claim, fact, l1, owner, surprises>>
  BY DEF GiveUp, bounds, ClaimInv, Typed, TypeOK
<1>2. "RECOVERY_REQUIRED" \in OpStatus /\ Bound("RECOVERY_REQUIRED")
  BY DEF OpStatus, Bound
<1>3. CASE UNCHANGED op
  BY <1>1, <1>3, DoneGoes, Reads DEF rows
<1>4. CASE SetOp(w, "RECOVERY_REQUIRED")
  BY <1>1, <1>2, <1>4, DoneGoes, OpStep
<1> QED BY <1>3, <1>4 DEF GiveUp

(* The outcome of the operation is the claim's and the withdrawal's. *)
LEMMA SettleStep ==
  ASSUME ClaimInv, NEW p \in Workers, Settle(p)
  PROVE  ClaimInv'
<1>0. PICK w \in Withdrawals : w = task[p].of
  BY AtWork DEF Settle
<1> USE <1>0
<1>1. /\ claim[w] \in Claims /\ PayoutInv(w) /\ Typed /\ owner \in Workers /\ TaskIsBound(task[p])
      /\ UNCHANGED <<fact, root, pay, our, settled, canonical, owner, surprises>> /\ Quiet /\ Done(p)
  BY AtWork DEF Settle, Quiet, ClaimInv, Typed, TypeOK, l1, bounds
<1>2. /\ task' \in [Workers -> Tasks]
      /\ \A q \in Workers : task'[q] = task[q] \/ TaskIsBound(task[q])'
  BY <1>1, DoneGoes
<1>3. CASE UNCHANGED rows
  BY <1>1, <1>2, <1>3, Reads DEF l1
<1>4. ASSUME NEW s \in {"CONFIRMED", "FAILED", "RETRACTED"},
             s = "CONFIRMED" => task[p].pc = "confirmed",
             <<claim[w].status, s>> \in Transitions, SetStatus(p, w, s)
      PROVE  ClaimInv'
  <2>1. /\ claim' = [claim EXCEPT ![w].status = s, ![w].lease = Nobody]
        /\ withdrawal' = [withdrawal EXCEPT ![w] = Outcome(s)] /\ UNCHANGED <<epochOk, op>>
    BY <1>4 DEF SetStatus
  <2>2. claim' \in [Withdrawals -> Claims]
    <3>1. s \in ClaimStatus /\ Nobody \in Workers \cup {Nobody}
      BY DEF ClaimStatus
    <3>2. [claim EXCEPT ![w].status = s, ![w].lease = Nobody] \in [Withdrawals -> Claims]
      BY <1>1, <3>1, ClaimTypes
    <3> QED BY <2>1, <3>2
  <2>3. withdrawal' \in [Withdrawals -> {"absent", "FINALIZED", "CLAIM_PENDING", "CLAIMED", "RETRACTED"}]
    BY <1>1, <2>1 DEF Outcome, Typed, TypeOK
  <2>4. Typed'
    <3>1. TypeOK'
      <4>1. \A q \in Workers : task'[q].of \in Withdrawals \cup {Nobody}
        BY <1>2 DEF Tasks
      <4> QED BY <1>1, <2>1, <2>2, <2>3, <4>1 DEF Typed, TypeOK, Claims, ClaimStatus
    <3> QED BY <1>1, <1>2, <3>1 DEF Typed
  <2>5. \A q \in Withdrawals \ {w} : Same(q)
    BY <1>1, <2>1 DEF Same, Typed, TypeOK
  <2>6. /\ claim'[w].status = s /\ claim'[w].lease = Nobody
        /\ claim'[w].linked = claim[w].linked /\ withdrawal'[w] = Outcome(s)
    BY <1>1, <2>1 DEF Typed, TypeOK, Claims
  <2>7. PaidOnce(w)' /\ RowsAreBound(w)' /\ Keeps(w)
    BY <1>1, <2>1, <2>6 DEF PayoutInv, PaidOnce, RowsAreBound, PaidByUs, Keeps
  <2>8. Agreed(w)'
    BY <2>6 DEF Agreed, Outcome
  <2>9. s = "CONFIRMED" => Paid(w)
    BY <1>1, <1>4 DEF TaskIsBound, PaidByUs, Paid, PayoutInv, PaidOnce
  <2>10. SaysPaid(w)'
    BY <1>1, <2>1, <2>6, <2>9 DEF PayoutInv, SaysPaid, Paid, PaidByUs
  <2>11. PayoutInv(w)'
    BY <2>7, <2>8, <2>10 DEF PayoutInv
  <2> QED BY <1>1, <1>2, <2>4, <2>5, <2>7, <2>11, OnePayout
<1> QED BY <1>3, <1>4 DEF Settle

(* A worker turns to a claim that has an operation, and knows its status. *)
LEMMA VisitStep ==
  ASSUME ClaimInv, NEW p \in Workers, NEW w \in Withdrawals, Visit(p, w)
  PROVE  ClaimInv'
<1>1. /\ Typed /\ owner \in Workers /\ claim[w].linked /\ op[w] \in OpStatus
      /\ UNCHANGED <<rows, fact, l1, owner, surprises>>
  BY DEF Visit, bounds, ClaimInv, Typed, TypeOK, OpStatus
<1>2. PICK pc \in {"retracted", "failed", "resend", "watch", "confirmed"} :
        At(p, pc, w, op[w]) /\ (pc = "confirmed" => op[w] = "FINALIZED")
  BY DEF Visit
<1>3. /\ task' \in [Workers -> Tasks] /\ task'[p].pc = pc /\ task'[p].of = w
      /\ \A q \in Workers \ {p} : task'[q] = task[q]
  BY <1>1, <1>2, AtGoes DEF Pcs
<1>4. pc = "confirmed" => PaidByUs(w)
  BY <1>2 DEF ClaimInv, PayoutInv, SaysPaid
<1>5. TaskIsBound(task[p])'
  BY <1>1, <1>3, <1>4 DEF TaskIsBound, WithOperation, PaidByUs, rows, l1
<1> QED BY <1>1, <1>3, <1>5, Reads

LEMMA AuditStep ==
  ASSUME ClaimInv, NEW p \in Workers, NEW w \in Withdrawals, Audit(p, w)
  PROVE  ClaimInv'
<1> USE DEF l1, bounds
<1>1. /\ Typed /\ PayoutInv(w) /\ Quiet
      /\ UNCHANGED <<withdrawal, epochOk, claim, root, pay, our, settled, canonical, task, owner,
                    surprises>>
  BY DEF Audit, Quiet, ClaimInv
<1>2. /\ op' = [op EXCEPT ![w] = "RECOVERY_REQUIRED"] /\ fact' = [fact EXCEPT ![w] = FALSE]
  BY DEF Audit, SetOp, AuditVerdict
<1>3. op' \in [Withdrawals -> OpStatus] /\ fact' \in [Withdrawals -> BOOLEAN]
  BY <1>1, <1>2 DEF Typed, TypeOK, OpStatus
<1>4. Typed'
  BY <1>1, <1>3 DEF Typed, TypeOK, Tasks, OpStatus
<1>5. op'[w] = "RECOVERY_REQUIRED" /\ ~fact'[w] /\ \A q \in Withdrawals \ {w} : Same(q)
  BY <1>1, <1>2 DEF Same, Typed, TypeOK
<1>6. PayoutInv(w)' /\ Keeps(w)
  BY <1>1, <1>5 DEF PayoutInv, PaidOnce, RowsAreBound, Agreed, SaysPaid, Paid, PaidByUs, Keeps, Bound
<1> QED BY <1>1, <1>4, <1>5, <1>6, OnePayout

LEMMA FaultStep ==
  ASSUME ClaimInv, NEW p \in Workers, ReadFails(p) \/ TakeOver(p) \/ Crash(p)
  PROVE  ClaimInv'
<1>1. /\ Typed /\ owner' \in Workers /\ UNCHANGED <<rows, fact, l1, surprises>>
      /\ task \in [Workers -> Tasks]
  BY DEF ReadFails, TakeOver, Crash, ClaimInv, Typed, TypeOK
<1>2. CASE ReadFails(p)
  <2>1. /\ task' \in [Workers -> Tasks]
        /\ \A q \in Workers : task'[q] = task[q] \/ TaskIsBound(task[q])'
    BY <1>1, <1>2, StaysBound DEF ReadFails, WithOperation, rows
  <2> QED BY <1>1, <2>1, Reads
<1>3. CASE TakeOver(p)
  BY <1>1, <1>3, Reads DEF TakeOver
<1>4. CASE Crash(p)
  BY <1>1, <1>4, DoneGoes, Reads DEF Crash
<1> QED BY <1>2, <1>3, <1>4

-----------------------------------------------------------------------------
(* The invariant of the specification. *)

LEMMA ClaimInit ==
  Init => ClaimInv
<1> SUFFICES ASSUME Init PROVE ClaimInv
  OBVIOUS
<1>1. Idle \in Tasks /\ Idle.pc = "idle"
  BY DEF Idle, Tasks, Pcs, OpStatus
<1>2. [status |-> "none", lease |-> Nobody, linked |-> FALSE] \in Claims
  BY DEF Claims, ClaimStatus
<1>3. TypeOK
  BY <1>1, <1>2 DEF Init, TypeOK, Claims, ClaimStatus, Tasks
<1>4. Typed
  BY <1>1, <1>3 DEF Init, Typed
<1>5. \A w \in Withdrawals : PayoutInv(w)
  BY DEF Init, PayoutInv, PaidOnce, RowsAreBound, Agreed, SaysPaid
<1>6. \A p \in Workers : TaskIsBound(task[p])
  BY <1>1 DEF Init, TaskIsBound, WithOperation
<1> QED BY <1>4, <1>5, <1>6 DEF ClaimInv

LEMMA ClaimStep ==
  ClaimInv /\ [Next]_vars => ClaimInv'
<1> SUFFICES ASSUME ClaimInv, [Next]_vars PROVE ClaimInv'
  OBVIOUS
<1>1. CASE UNCHANGED vars
  BY <1>1 DEF vars, ClaimInv, Typed, TypeOK, Tasks, PayoutInv, PaidOnce, RowsAreBound, Agreed,
    SaysPaid, Paid, PaidByUs, TaskIsBound, WithOperation
<1>2. ASSUME NEW w \in Withdrawals,
             \/ Mine(w) \/ Relayer(w) \/ Finalize(w) \/ Reorg(w) \/ Surprise(w)
             \/ IndexClaimed(w) \/ IndexEpoch(w) \/ RetractRoot(w) \/ Request(w) \/ LeaseExpires(w)
      PROVE  ClaimInv'
  BY <1>2, L1Step, IndexStep
<1>3. ASSUME NEW w \in Withdrawals, NEW p \in Workers, Lease(p, w) \/ Visit(p, w) \/ Audit(p, w)
      PROVE  ClaimInv'
  BY <1>3, LeaseStep, VisitStep, AuditStep
<1>4. ASSUME NEW p \in Workers, Step(p) PROVE ClaimInv'
  BY <1>4, PrepareStep, ConfirmExternalStep, ReserveStep, SignStep, LinkStep, SendStep,
    MarkBroadcastStep, ReleaseStep, WatchStep, GiveUpStep, SettleStep DEF Step
<1>5. ASSUME NEW p \in Workers, ReadFails(p) \/ TakeOver(p) \/ Crash(p) PROVE ClaimInv'
  BY <1>5, FaultStep
<1> QED BY <1>1, <1>2, <1>3, <1>4, <1>5 DEF Next

LEMMA ClaimInvariant ==
  Spec => []ClaimInv
BY ClaimInit, ClaimStep, PTL DEF Spec

(* The rows, the tasks and L1 are well formed. *)
THEOREM ClaimsTypeCorrect ==
  Spec => []TypeOK
<1>1. ClaimInv => TypeOK
  BY DEF ClaimInv, Typed
<1> QED BY <1>1, ClaimInvariant, PTL

(* A payout that L1 may have seen is linked to its claim, whoever crashed, lost the lease or
   lost the fence between signing and sending. *)
THEOREM SentIsLinkedAlways ==
  Spec => []SentIsLinked
<1>1. ClaimInv => SentIsLinked
  BY DEF ClaimInv, PayoutInv, RowsAreBound, SentIsLinked
<1> QED BY <1>1, ClaimInvariant, PTL

(* Claim and withdrawal tell one story of a payout, and a claim is confirmed only when a
   finalized block paid it, though different workers' transactions write the rows. *)
THEOREM RowsAgreeAlways ==
  Spec => []RowsAgree
<1>1. ClaimInv => RowsAgree
  BY DEF ClaimInv, PayoutInv, Agreed, SaysPaid, Paid, RowsAgree, ConfirmedIsFinal
<1> QED BY <1>1, ClaimInvariant, PTL

-----------------------------------------------------------------------------
(* The operations of claims, as the operation journal's promise sees them. *)

Bytes(w) == IF op[w] \in {"none", "PREPARED"} THEN Nobody ELSE w
verdict == [w \in Withdrawals |-> Verdict(w)]
bound == [w \in Withdrawals |-> Bytes(w)]
WithBytes == {"SIGNED", "BROADCAST", "INCLUDED"}

(* what a step does to the operation it writes, as status s *)
Moves(w, s) ==
  \/ op[w] = "none" /\ s = "PREPARED"
  \/ op[w] = "PREPARED" /\ s = "SIGNED"
  \/ op[w] \in WithBytes /\ s \in WithBytes \cup {"FINALIZED", "FAILED", "RECOVERY_REQUIRED"}
  \/ op[w] = "FINALIZED" /\ s = "RECOVERY_REQUIRED"

OpMoves == op' = op \/ \E w \in Withdrawals, s \in OpStatus : SetOp(w, s) /\ Moves(w, s)

LEMMA NextMovesOp ==
  ASSUME ClaimInv, [Next]_vars
  PROVE  OpMoves
<1>1. Typed /\ op \in [Withdrawals -> OpStatus]
  BY DEF ClaimInv, Typed, TypeOK, OpStatus
<1>2. CASE UNCHANGED vars
  BY <1>2 DEF vars, OpMoves
<1>3. ASSUME NEW w \in Withdrawals,
             \/ Mine(w) \/ Relayer(w) \/ Finalize(w) \/ Reorg(w) \/ Surprise(w)
             \/ IndexClaimed(w) \/ IndexEpoch(w) \/ Request(w) \/ LeaseExpires(w)
      PROVE  op' = op
  BY <1>3 DEF Mine, Relayer, Finalize, Reorg, Surprise, IndexClaimed, IndexEpoch, Request,
    LeaseExpires, rows
<1>4. ASSUME NEW w \in Withdrawals, RetractRoot(w) PROVE OpMoves
  <2>1. op' = op \/ (op[w] = "FINALIZED" /\ SetOp(w, "RECOVERY_REQUIRED"))
    BY <1>1, <1>4 DEF RetractRoot, SetOp
  <2> QED BY <2>1 DEF OpMoves, Moves, OpStatus
<1>5. ASSUME NEW w \in Withdrawals, NEW p \in Workers, Lease(p, w) \/ Visit(p, w) \/ Audit(p, w)
      PROVE  OpMoves
  <2>1. op' = op \/ (op[w] = "FINALIZED" /\ SetOp(w, "RECOVERY_REQUIRED"))
    BY <1>5 DEF Lease, Visit, Audit, AuditVerdict, rows
  <2> QED BY <2>1 DEF OpMoves, Moves, OpStatus
<1>6. ASSUME NEW p \in Workers, Reserve(p) \/ Sign(p) \/ MarkBroadcast(p) \/ Watch(p) \/ GiveUp(p)
      PROVE  OpMoves
  <2>0. PICK w \in Withdrawals : w = task[p].of
    BY <1>6, AtWork DEF Reserve, Sign, MarkBroadcast, Watch, GiveUp
  <2>1. CASE Reserve(p)
    <3>1. op' = op \/ (op[w] = "none" /\ SetOp(w, "PREPARED"))
      BY <2>0, <2>1 DEF Reserve
    <3> QED BY <3>1 DEF OpMoves, Moves, OpStatus, Pending
  <2>2. CASE Sign(p)
    <3>1. op' = op \/ (op[w] = "PREPARED" /\ SetOp(w, "SIGNED"))
      BY <1>1, <2>0, <2>2 DEF Sign, SetOp
    <3> QED BY <3>1 DEF OpMoves, Moves, OpStatus, Pending
  <2>3. CASE MarkBroadcast(p)
    <3>1. op' = op \/ (op[w] \in WithBytes /\ SetOp(w, "BROADCAST"))
      BY <2>0, <2>3 DEF MarkBroadcast, WithBytes
    <3> QED BY <3>1 DEF OpMoves, Moves, OpStatus, Pending, WithBytes
  <2>4. CASE Watch(p)
    <3>1. \/ op' = op
          \/ /\ op[w] \in WithBytes
             /\ \E s \in {"FAILED", "INCLUDED", "BROADCAST", "FINALIZED"} : SetOp(w, s)
      BY <2>0, <2>4 DEF Watch, WithBytes
    <3> QED BY <3>1 DEF OpMoves, Moves, OpStatus, Pending, WithBytes
  <2>5. CASE GiveUp(p)
    <3>1. Bound(op[w])
      BY <2>0, <2>5 DEF GiveUp, ClaimInv, TaskIsBound, WithOperation, PayoutInv, RowsAreBound
    <3>2. op' = op \/ (op[w] \in WithBytes /\ SetOp(w, "RECOVERY_REQUIRED"))
      BY <2>0, <2>5, <3>1 DEF GiveUp, WithBytes, Pending, Bound
    <3> QED BY <3>2 DEF OpMoves, Moves, OpStatus, Pending
  <2> QED BY <1>6, <2>1, <2>2, <2>3, <2>4, <2>5
<1>7. ASSUME NEW p \in Workers,
             \/ Prepare(p) \/ ConfirmExternal(p) \/ Link(p) \/ Send(p) \/ Release(p) \/ Settle(p)
             \/ ReadFails(p) \/ TakeOver(p) \/ Crash(p)
      PROVE  op' = op
  BY <1>7 DEF Prepare, ConfirmExternal, Link, Send, Release, Settle, SetStatus, ReadFails,
    TakeOver, Crash, rows
<1> QED BY <1>2, <1>3, <1>4, <1>5, <1>6, <1>7 DEF Next, Step, OpMoves

LEMMA OpMovesImplement ==
  ASSUME ClaimInv, OpMoves
  PROVE  [Ledger!Next]_(Ledger!vars)
<1>1. CASE op' = op
  <2>1. verdict' = verdict /\ bound' = bound
    BY <1>1 DEF verdict, bound, Verdict, Bytes
  <2> QED BY <2>1 DEF Ledger!vars, verdict, bound, Bytes
<1>2. ASSUME NEW w \in Withdrawals, NEW s \in OpStatus, SetOp(w, s), Moves(w, s)
      PROVE  [Ledger!Next]_(Ledger!vars)
  <2>1. op'[w] = s /\ \A q \in Withdrawals \ {w} : op'[q] = op[q]
    BY <1>2 DEF SetOp, ClaimInv, Typed, TypeOK
  <2>2. \A q \in Withdrawals \ {w} : Verdict(q)' = Verdict(q) /\ Bytes(q)' = Bytes(q)
    BY <2>1 DEF Verdict, Bytes
  <2>3. verdict' = [verdict EXCEPT ![w] = Verdict(w)']
    BY <2>2 DEF verdict
  <2>4. bound' = [bound EXCEPT ![w] = Bytes(w)']
    BY <2>2 DEF bound
  <2>5. verdict[w] = Verdict(w) /\ bound[w] = Bytes(w) /\ w # Nobody
    BY DEF verdict, bound
  <2>6. (Verdict(w)' = Verdict(w) => verdict' = verdict) /\ (Bytes(w)' = Bytes(w) => bound' = bound)
    BY <2>2 DEF verdict, bound
  <2>7. CASE op[w] = "none" /\ s = "PREPARED"
    <3>1. Verdict(w) = "none" /\ Verdict(w)' = "open" /\ Bytes(w)' = Bytes(w)
      BY <2>1, <2>7 DEF Verdict, Pending, Bytes
    <3>2. Ledger!Reserve(w)
      BY <2>3, <2>5, <2>6, <3>1 DEF Ledger!Reserve, verdict, bound, Bytes
    <3> QED BY <3>2 DEF Ledger!Next
  <2>8. CASE op[w] = "PREPARED" /\ s = "SIGNED"
    <3>1. Verdict(w) = "open" /\ Verdict(w)' = "open" /\ Bytes(w) = Nobody /\ Bytes(w)' = w
      BY <2>1, <2>8 DEF Verdict, Pending, Bytes
    <3>2. \A q \in Withdrawals : bound[q] # w
      BY <2>5, <3>1 DEF bound, Bytes
    <3>3. w \in Withdrawals \ {bound[q] : q \in Withdrawals}
      BY <3>2
    <3>4. Ledger!Bind(w)
      BY <2>4, <2>5, <2>6, <3>1, <3>3 DEF Ledger!Bind, verdict, bound, Bytes
    <3> QED BY <3>4 DEF Ledger!Next
  <2>9. CASE op[w] \in WithBytes /\ s \in WithBytes
    <3>1. Verdict(w)' = Verdict(w) /\ Bytes(w)' = Bytes(w)
      BY <2>1, <2>9 DEF Verdict, Pending, Bytes, WithBytes
    <3> QED BY <2>6, <3>1 DEF Ledger!vars, verdict, bound, Bytes
  <2>10. CASE op[w] \in WithBytes /\ s \in {"FINALIZED", "FAILED", "RECOVERY_REQUIRED"}
    <3>1. PICK v \in {"recovery", "final", "failed"} : Verdict(w)' = v
      BY <2>1, <2>10 DEF Verdict, Pending
    <3>2. Verdict(w) = "open" /\ Bytes(w) = w /\ Bytes(w)' = w
      BY <2>1, <2>10 DEF Verdict, Pending, Bytes, WithBytes
    <3>3. v \in {"recovery"} \cup (IF bound[w] = Nobody THEN {} ELSE {"final", "failed"})
      BY <2>5, <3>2
    <3>4. Ledger!End(w)
      BY <2>3, <2>5, <2>6, <3>1, <3>2, <3>3 DEF Ledger!End, verdict, bound, Bytes
    <3> QED BY <3>4 DEF Ledger!Next
  <2>11. CASE op[w] = "FINALIZED" /\ s = "RECOVERY_REQUIRED"
    <3>1. Verdict(w) = "final" /\ Verdict(w)' = "recovery" /\ Bytes(w)' = Bytes(w)
      BY <2>1, <2>11 DEF Verdict, Pending, Bytes
    <3>2. verdict' = [q \in Withdrawals |-> IF q \in {w} THEN "recovery" ELSE verdict[q]]
      BY <2>3, <3>1 DEF verdict
    <3>3. Ledger!Surprise({w})
      BY <2>5, <2>6, <3>1, <3>2 DEF Ledger!Surprise, verdict, bound, Bytes
    <3> QED BY <3>3 DEF Ledger!Next
  <2> QED BY <1>2, <2>7, <2>8, <2>9, <2>10, <2>11 DEF Moves
<1> QED BY <1>1, <1>2 DEF OpMoves

(* The claimer keeps the journal's promise as the publishers do: a payout's operation is
   reserved once, signed once, and its verdict is taken back only by a rewritten root or block. *)
THEOREM ClaimsImplementOperationLedger ==
  Spec => ImplementsOperationLedger
<1>1. Init => Ledger!Init
  <2> SUFFICES ASSUME Init PROVE Ledger!Init
    OBVIOUS
  <2>1. \A w \in Withdrawals : op[w] = "none" /\ Verdict(w) = "none"
    BY DEF Init, Verdict, Pending
  <2> QED BY <2>1 DEF Ledger!Init
<1>2. ClaimInv /\ [Next]_vars => [Ledger!Next]_(Ledger!vars)
  BY NextMovesOp, OpMovesImplement
<1> QED BY <1>1, <1>2, ClaimInvariant, PTL DEF Spec, ImplementsOperationLedger, Ledger!Spec
=============================================================================
