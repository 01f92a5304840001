\* Not among the runs, see README.md.
SPECIFICATION ArchiveSpec
CONSTANTS
  Transactions = {x1, x2}
  NoTransaction = NoTransaction
  Puts = {p1}
  MaxBlocks = 2
  MaxReorgs = 1
  MaxRestarts = 0
  MaxRevision = 3
CHECK_DEADLOCK FALSE
INVARIANT DrainedOnce
