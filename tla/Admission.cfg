\* With the database: two coordinators that take over from each other, two builders; three requests over two
\* transactions and one deposit. Alone: two transactions, an indexer, an L1 of two blocks that reorganises once.
SPECIFICATION ServiceSpec
CONSTANTS
  Coordinators = {a, b}
  NoOne = NoOne
  r1 = r1
  r2 = r2
  r3 = r3
  t1 = t1
  t2 = t2
  d = d
  Requests = {r1, r2, r3}
  TransactionOf <- MCTransactionOf
  DepositOf <- MCDepositOf
  NoDeposit = NoDeposit
  NoRequest = NoRequest
  Builders = {k1, k2}
  Nobody = Nobody
  Transactions = {x1, x2}
  NoTransaction = NoTransaction
  Puts = {p1}
  MaxBlocks = 2
  MaxReorgs = 1
  MaxRestarts = 1
  MaxRevision = 3
SYMMETRY MCSymmetry
CHECK_DEADLOCK FALSE
INVARIANTS PromisesAreKept ReceiptsAreKept
PROPERTIES ImplementsLedger ArchiveAdvances
