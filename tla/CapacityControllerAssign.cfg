\* Not among the runs, see README.md.
SPECIFICATION Spec
CONSTANTS
  Keys = {k1, k2}
  Signals = {s1}
  Allocation = a
  NoKey = NoKey
  NoLease = NoLease
  NoAnswer = NoAnswer
  Loads <- MCAssigns
  k1 = k1
  s1 = s1
  MaxAttempts = 2
  MaxOps = 2
  MaxBlocks = 2
  MaxSurprises = 1
  CapacityWorkers = {w1, w2}
  FirstWorker = w1
  MaxFaults = 1
INVARIANT
  DrainedIsInactive
CHECK_DEADLOCK FALSE
