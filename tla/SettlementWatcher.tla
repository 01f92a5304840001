--------------------------- MODULE SettlementWatcher ---------------------------
(***************************************************************************)
(* watchSettlement (l1-settlement-watcher.ts): one loop that polls L1 for  *)
(* the receipt of a batch, rebroadcasts the identical calldata when the    *)
(* receipt disappears, tells its caller of every provisional acceptance    *)
(* and retraction, and returns once the batch is final.                    *)
(*                                                                         *)
(* Every RPC read is an await of its own: L1 mines, reorganises and        *)
(* finalises between any two of them.  The providers agree on what a read  *)
(* returns or the watch throws, so a set of providers is one provider that *)
(* may throw; a receipt read may also come back empty (errors are caught)  *)
(* or from a cache that outlived a reorganisation.                         *)
(*                                                                         *)
(* Data.  A transaction is the number of the broadcast that made it, and a *)
(* block is its height, the fork it was mined on and the transaction it    *)
(* carries.  All broadcasts carry the same calldata, which L1 accepts once *)
(* and only up to the inclusion deadline.  The deadline alert (a warning   *)
(* and a gauge) is left out.                                               *)
(***************************************************************************)
EXTENDS Naturals, Sequences, FiniteSets

CONSTANTS
  Deadline,                    \* l1InclusionDeadline
  MissingPollsBeforeResubmit,  \* 2 in the code
  MaxResubmissions,            \* 1 in the code
  MaxHeight,                   \* bound: blocks mined
  MaxForks                     \* bound: reorganisations

ASSUME WatcherAssumption ==
  /\ Deadline \in Nat /\ MissingPollsBeforeResubmit \in Nat \ {0}
  /\ MaxResubmissions \in Nat /\ MaxHeight \in Nat /\ MaxForks \in Nat

NoTx == 0
NoReceipt == [number |-> 0, fork |-> 0, tx |-> NoTx, success |-> FALSE]
Placement(r) == <<r.number, r.fork>>
NoPlacement == <<0, 0>>

VARIABLES
  pc,            \* the read the watch awaits, or how it ended: "finalized",
                 \* "reverted" (the receipt says so) or "failed" (any other throw)
  hash,          \* the transaction watched, the last one broadcast
  receipt,       \* the last receipt a provider returned
  missingPolls,
  resubmissions,
  accepted,      \* acceptedPlacement
  told,          \* the placement announced to the caller and not retracted
  late,          \* the watch's time budget is spent
  chain,         \* L1: the canonical blocks
  forks,         \* L1: reorganisations so far
  final          \* L1: the finalized height

watch == <<pc, hash, receipt, missingPolls, resubmissions, accepted, told>>
l1    == <<chain, forks, final>>
watchVars  == <<watch, late, l1>>

-------------------------------------------------------------------------------
(* L1 (external) *)

Sent == 1..hash
Mined(blocks) == {blocks[h].tx : h \in DOMAIN blocks} \ {NoTx}

(* the calldata is accepted once, and not past its deadline *)
Succeeds(h) ==
  /\ h <= Deadline
  /\ \A g \in 1..(h - 1) : chain[g].tx = NoTx

ReceiptAt(h) ==
  [number |-> h, fork |-> chain[h].fork, tx |-> chain[h].tx, success |-> Succeeds(h)]

L1Mines ==
  /\ Len(chain) < MaxHeight
  /\ \E tx \in {NoTx} \cup (Sent \ Mined(chain)) :
       chain' = Append(chain, [fork |-> forks, tx |-> tx])
  /\ UNCHANGED <<watch, late, forks, final>>

L1Reorganises ==
  /\ forks < MaxForks
  /\ \E keep \in final..(Len(chain) - 1) :
       \E txs \in [(keep + 1)..Len(chain) -> {NoTx} \cup (Sent \ Mined(SubSeq(chain, 1, keep)))] :
         /\ \A g, h \in DOMAIN txs : g # h /\ txs[g] = txs[h] => txs[g] = NoTx
         /\ chain' = [h \in DOMAIN chain |->
                        IF h <= keep THEN chain[h] ELSE [fork |-> forks + 1, tx |-> txs[h]]]
  /\ forks' = forks + 1
  /\ UNCHANGED <<watch, late, final>>

L1Finalizes ==
  /\ final < Len(chain)
  /\ final' = final + 1
  /\ UNCHANGED <<watch, late, chain, forks>>

-------------------------------------------------------------------------------
(* What a read returns *)

(* agreedReceipt(): the canonical receipt, none, or the one a cache kept *)
ReceiptReads ==
  {ReceiptAt(h) : h \in {g \in DOMAIN chain : chain[g].tx = hash}}
    \cup {NoReceipt} \cup (IF receipt.tx = hash THEN {receipt} ELSE {})

Latest == Len(chain)
Canonical(r) == chain[r.number].fork = r.fork

-------------------------------------------------------------------------------
(* The loop *)

Ends == {"finalized", "reverted", "failed"}
Reads == {"poll", "missing", "broadcast", "canonical", "stale", "givingUp", "finality",
          "recheckReceipt", "recheckBlock"}

Goto(p) == pc' = p
Throw == Goto("failed") /\ UNCHANGED <<hash, receipt, missingPolls, resubmissions, accepted, told>>

(* Mutants (here and below): slips in the definition that follows, each of
   which some property of this module must notice. *)
UnannouncedYet(r) == accepted = NoPlacement

(* a placement other than the one announced, with or without a retraction between *)
Unannounced(r) == Placement(r) # accepted

(* await onRetracted() when an acceptance was announced *)
Retract == told' = IF accepted = NoPlacement THEN told ELSE NoPlacement

(* Date.now() > stopAt, looked at on every turn of the loop *)
NoBudget == TRUE

WithinBudget == ~late

BudgetSpent == pc = "poll" /\ ~WithinBudget /\ Throw /\ UNCHANGED <<late, l1>>

ReadReceiptMissing ==
  /\ pc = "poll" /\ WithinBudget
  /\ Retract
  /\ accepted' = NoPlacement
  /\ missingPolls' = missingPolls + 1
  /\ Goto("missing")
  /\ UNCHANGED <<hash, receipt, resubmissions, late, l1>>

ReadReceiptFound ==
  /\ pc = "poll" /\ WithinBudget
  /\ \E r \in ReceiptReads \ {NoReceipt} :
       /\ receipt' = r
       /\ Goto(IF r.success THEN "canonical" ELSE "reverted")
  /\ missingPolls' = 0
  /\ UNCHANGED <<hash, resubmissions, accepted, told, late, l1>>

ReadLatestWhileMissing ==
  /\ pc = "missing"
  /\ IF Latest >= Deadline \/ (missingPolls >= MissingPollsBeforeResubmit
                               /\ resubmissions >= MaxResubmissions)
     THEN Throw
     ELSE /\ Goto(IF missingPolls >= MissingPollsBeforeResubmit THEN "broadcast" ELSE "poll")
          /\ UNCHANGED <<hash, receipt, missingPolls, resubmissions, accepted, told>>
  /\ UNCHANGED <<late, l1>>

BroadcastKeepingCount ==
  /\ pc = "broadcast"
  /\ hash' = hash + 1
  /\ missingPolls' = 0
  /\ accepted' = NoPlacement
  /\ Goto("poll")
  /\ UNCHANGED <<receipt, resubmissions, told, late, l1>>

BroadcastIdenticalCalldata ==
  /\ pc = "broadcast"
  /\ hash' = hash + 1
  /\ resubmissions' = resubmissions + 1
  /\ missingPolls' = 0
  /\ accepted' = NoPlacement
  /\ Goto("poll")
  /\ UNCHANGED <<receipt, told, late, l1>>

(* onAccepted(), unless this very placement is the one announced *)
ReadCanonicalBlock ==
  /\ pc = "canonical"
  /\ IF Canonical(receipt)
     THEN /\ Goto("finality")
          /\ IF Unannounced(receipt)
             THEN accepted' = Placement(receipt) /\ told' = Placement(receipt)
             ELSE UNCHANGED <<accepted, told>>
     ELSE Goto("stale") /\ UNCHANGED <<accepted, told>>
  /\ UNCHANGED <<hash, receipt, missingPolls, resubmissions, late, l1>>

(* a cached receipt of a block that is gone is retracted, and retried at once *)
ReadLatestWhileStale ==
  /\ pc = "stale"
  /\ Retract
  /\ Goto(IF Latest >= Deadline \/ resubmissions >= MaxResubmissions
          THEN "givingUp" ELSE "broadcast")
  /\ UNCHANGED <<hash, receipt, missingPolls, resubmissions, accepted, late, l1>>

(* onRetracted() has settled: "cannot be retried safely" *)
GiveUp == pc = "givingUp" /\ Throw /\ UNCHANGED <<late, l1>>

ReadFinalizedBlock ==
  /\ pc = "finality"
  /\ Goto(IF final >= receipt.number THEN "recheckReceipt" ELSE "poll")
  /\ UNCHANGED <<hash, receipt, missingPolls, resubmissions, accepted, told, late, l1>>

RecheckReceipt ==
  /\ pc = "recheckReceipt"
  /\ \E r \in ReceiptReads :
       Goto(IF Placement(r) = Placement(receipt) THEN "recheckBlock" ELSE "poll")
  /\ UNCHANGED <<hash, receipt, missingPolls, resubmissions, accepted, told, late, l1>>

RecheckSkipped ==
  /\ pc = "recheckBlock"
  /\ Goto("finalized")
  /\ UNCHANGED <<hash, receipt, missingPolls, resubmissions, accepted, told, late, l1>>

RecheckBlock ==
  /\ pc = "recheckBlock"
  /\ Goto(IF Canonical(receipt) THEN "finalized" ELSE "poll")
  /\ UNCHANGED <<hash, receipt, missingPolls, resubmissions, accepted, told, late, l1>>

(* a provider error, a disagreement or a callback that throws *)
ReadFails ==
  /\ pc \notin Ends
  /\ Throw
  /\ UNCHANGED <<late, l1>>

SpendBudget ==
  /\ ~late /\ late' = TRUE
  /\ UNCHANGED <<watch, l1>>

WatchInit ==
  /\ pc = "poll" /\ hash = 1 /\ receipt = NoReceipt
  /\ missingPolls = 0 /\ resubmissions = 0
  /\ accepted = NoPlacement /\ told = NoPlacement /\ late = FALSE
  /\ chain = << >> /\ forks = 0 /\ final = 0

WatchStep ==
  \/ BudgetSpent \/ ReadReceiptMissing \/ ReadReceiptFound
  \/ ReadLatestWhileMissing \/ BroadcastIdenticalCalldata
  \/ ReadCanonicalBlock \/ ReadLatestWhileStale \/ GiveUp
  \/ ReadFinalizedBlock \/ RecheckReceipt \/ RecheckBlock
  \/ ReadFails

WatchNext == WatchStep \/ SpendBudget \/ L1Mines \/ L1Reorganises \/ L1Finalizes

WatchSpec == WatchInit /\ [][WatchNext]_watchVars

(* every read settles and the clock reaches stopAt *)
FairWatch == WatchSpec /\ WF_watchVars(WatchStep) /\ WF_watchVars(SpendBudget)

-------------------------------------------------------------------------------
(* Properties *)

(* Every variable has its type, and the retry budget is never exceeded: the
   hash watched is the original or its one identical-calldata replacement. *)
WatchTypeOK ==
  /\ pc \in Reads \cup Ends
  /\ hash \in 1..(MaxResubmissions + 1)
  /\ resubmissions = hash - 1
  /\ missingPolls \in 0..MissingPollsBeforeResubmit
  /\ receipt \in [number : Nat, fork : Nat, tx : Nat, success : BOOLEAN]
  /\ accepted \in Nat \X Nat /\ told \in Nat \X Nat
  /\ late \in BOOLEAN
  /\ chain \in Seq([fork : Nat, tx : Nat])
  /\ forks \in 0..MaxForks
  /\ final \in 0..Len(chain)

(* A settlement the watch returns is on L1 for good: its block is canonical
   and final, carries the transaction watched, and the contract accepted the
   batch in it, whatever L1 did between the reads.  (the last two reads of
   watchSettlement) *)
FinalizedIsIrreversible ==
  pc = "finalized" =>
    /\ receipt.number \in 1..final
    /\ receipt.tx = hash
    /\ ReceiptAt(receipt.number) = receipt
    /\ Succeeds(receipt.number)

(* The caller sees the calls Settlement promises: a batch that moved to another block is
   announced there too, with or without a retraction between, nothing is retracted that
   was not announced, and a settlement that returns is at the placement announced last.
   (onAccepted, onRetracted and acceptedPlacement) *)
Caller == INSTANCE Settlement WITH
  NoPlacement <- NoPlacement,
  status <- IF pc = "finalized" THEN pc
            ELSE IF pc \in Ends THEN "failed"
            ELSE IF told = NoPlacement THEN "pending" ELSE "accepted",
  at <- IF pc = "finalized" THEN Placement(receipt) ELSE told
ImplementsSettlement == Caller!Spec

(* The watch ends, whatever L1 does. (stopAt) *)
WatchEnds == <>(pc \in Ends)

(* The outcome "reverted on L1" is only reported of a batch L1 did not accept:
   failCheckpoint then leaves its moves pending, "the only honest outcome when
   nothing was accepted on L1". *)
RevertedMeansNotAccepted ==
  pc = "reverted" => \A h \in 1..final : ~(chain[h].tx # NoTx /\ Succeeds(h))
=============================================================================
