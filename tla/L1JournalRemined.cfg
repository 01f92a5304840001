\* Not among the runs, see README.md.
SPECIFICATION Spec
CONSTANTS
  Ops = {o1}
  Publishers = {p1}
  Sigs = {s1}
  Costs = {1, 2}
  Worker = w
  NoTx = NoTx
  MaxHeight = 2
  MaxReorgs = 1
  MaxSurprises = 1
  MaxAttempts = 3
  MaxPublishes = 1
  MaxCrashes = 0
INVARIANTS
  MinedAgainIsIncludable
CHECK_DEADLOCK FALSE
