SPECIFICATION Spec
CONSTANTS
  Jobs = {j1, j2}
  Nodes = {n1, n2}
  GpuJobs = {j1, j2}
  NoJob = NoJob
  NoNode = NoNode
  Capacity = 1
  MaxAttempts = 2
  MaxConcurrent = 1
  Price = 2
  MaxFacts = 3
  MaxSurprises = 1
INVARIANTS
  LeasesAgree
  ReservationsAreKept
  ChargeIsJustified
  FloorIsNotBlocked
CHECK_DEADLOCK FALSE
