---------------------------- MODULE AdmissionLedger ----------------------------
(***************************************************************************)
(* What the admission log of a room promises: a sequence of promises that  *)
(* only grows, each for a transaction and a deposit of its own, delivered  *)
(* in its order and settled at most once.  AdmissionWal implements it.     *)
(***************************************************************************)
EXTENDS Naturals, Sequences, FiniteSets

CONSTANTS
  Requests,            \* the requests clients submit: signed bytes and terms
  TransactionOf(_),    \* the transaction of a request
  DepositOf(_),        \* the deposit it names
  NoDeposit

VARIABLES
  ledger,      \* the requests promised: the id of a promise is its index
  delivered,   \* the ids handed to a batch builder
  settled      \* the ids a builder acknowledged

ledgerVars == <<ledger, delivered, settled>>

Promised(r) ==
  \E i \in DOMAIN ledger :
    \/ TransactionOf(ledger[i]) = TransactionOf(r)
    \/ DepositOf(r) # NoDeposit /\ DepositOf(ledger[i]) = DepositOf(r)

Promise(r) ==
  /\ ~Promised(r)
  /\ ledger' = Append(ledger, r)
  /\ UNCHANGED <<delivered, settled>>

(* again, or further *)
Deliver ==
  /\ \E n \in DOMAIN ledger : delivered' = delivered \cup 1..n
  /\ UNCHANGED <<ledger, settled>>

Settle ==
  /\ settled' \in SUBSET delivered
  /\ settled \subseteq settled'
  /\ UNCHANGED <<ledger, delivered>>

LedgerInit == ledger = <<>> /\ delivered = {} /\ settled = {}

LedgerNext == (\E r \in Requests : Promise(r)) \/ Deliver \/ Settle

LedgerSpec == LedgerInit /\ [][LedgerNext]_ledgerVars
=============================================================================
