\* Not among the runs, see README.md.
\* The index save of a submission fails.
SPECIFICATION Spec
CONSTANTS
  Jobs = {j1}
  GpuJobs = {j1}
  Nodes = {n1}
  CpuNodes = {}
  NoNode = NoNode
  MaxAttempts = 2
  MaxUnfinished = 1
  MaxSaveFailures = 1
  MaxCrashes = 0
CHECK_DEADLOCK FALSE
INVARIANT IndexedHasRequest
