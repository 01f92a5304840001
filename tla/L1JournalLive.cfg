SPECIFICATION FairSpec
CONSTANTS
  Ops = {o1}
  Publishers = {p1, p2}
  Sigs = {s1, s2}
  Costs = {1}
  Worker = w
  NoTx = NoTx
  MaxHeight = 2
  MaxReorgs = 1
  MaxSurprises = 1
  MaxAttempts = 2
  MaxPublishes = 2
  MaxCrashes = 1
PROPERTIES
  OperationEnds
  SurpriseIsNoticed
CHECK_DEADLOCK FALSE
