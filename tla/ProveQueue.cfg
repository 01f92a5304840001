\* Two jobs that need a GPU and two nodes, one lost save and one restart.
SPECIFICATION FairSpec
CONSTANTS
  Jobs = {j1, j2}
  GpuJobs = {j1, j2}
  Nodes = {n1, n2}
  CpuNodes = {}
  NoNode = NoNode
  MaxAttempts = 2
  MaxUnfinished = 2
  MaxSaveFailures = 1
  MaxCrashes = 1
CHECK_DEADLOCK FALSE
INVARIANTS
  LeasesAreSound ResultsAreKept
PROPERTIES PositionNeverGrows SilentNodeForfeits
