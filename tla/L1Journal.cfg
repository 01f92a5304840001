SPECIFICATION Spec
SYMMETRY Symmetry
CONSTANTS
  Ops = {o1, o2}
  Publishers = {p1}
  Sigs = {s1, s2}
  Costs = {1}
  Worker = w
  NoTx = NoTx
  MaxHeight = 2
  MaxReorgs = 1
  MaxSurprises = 1
  MaxAttempts = 2
  MaxPublishes = 2
  MaxCrashes = 0
INVARIANTS
  OneTransactionPerNonce
  FinalIsMined
PROPERTIES
  ImplementsOperationLedger
CHECK_DEADLOCK FALSE
