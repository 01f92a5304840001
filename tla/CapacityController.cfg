SPECIFICATION FairSpec
CONSTANTS
  Keys = {k1, k2}
  Signals = {s1}
  Allocation = a
  NoKey = NoKey
  NoLease = NoLease
  NoAnswer = NoAnswer
  Loads <- MCLoads
  k1 = k1
  s1 = s1
  MaxAttempts = 2
  MaxOps = 2
  MaxBlocks = 2
  MaxSurprises = 1
  CapacityWorkers = {w1, w2}
  FirstWorker = w1
  MaxFaults = 1
INVARIANTS
  AppliedWasDone
CHECK_DEADLOCK FALSE
PROPERTIES
  WorkEnds
