------------------------------ MODULE MCAdmission ------------------------------
(* The admission service as it is configured: with the database (hostedWal) or
   alone with its archive.

   Three requests to the log: r1 and r2 name the same deposit, r1 and r3 carry the
   same transaction under other terms; r2 and r3 can both be admitted. *)
EXTENDS AdmissionWal, ObserverArchive, TLC

CONSTANTS r1, r2, r3, t1, t2, d

MCTransactionOf(r) == IF r = r2 THEN t2 ELSE t1
MCDepositOf(r) == IF r = r3 THEN NoDeposit ELSE d

VARIABLE hosted
serviceVars == <<hosted, vars, archiveVars>>

ServiceInit == hosted \in BOOLEAN /\ WalInit /\ ArchiveInit

ServiceNext ==
  \/ hosted /\ WalNext /\ UNCHANGED <<hosted, archiveVars>>
  \/ ~hosted /\ ArchiveNext /\ UNCHANGED <<hosted, vars>>

ServiceSpec == ServiceInit /\ [][ServiceNext]_serviceVars

(* none of them is told apart, and nothing is checked under fairness *)
MCSymmetry ==
  Permutations(Coordinators) \cup Permutations(Builders) \cup Permutations(Transactions)
=============================================================================
