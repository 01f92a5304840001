SPECIFICATION FairSpec
CONSTANTS
  Withdrawals = {d1}
  Workers = {w1, w2}
  Nobody = Nobody
  MaxTakeovers = 2
  MaxReorgs = 1
  MaxSurprises = 1
  MaxErrors = 1
INVARIANTS
  SentIsLinked
  RowsAgree
PROPERTIES
  ImplementsOperationLedger
  RequestIsAnswered
CHECK_DEADLOCK FALSE
