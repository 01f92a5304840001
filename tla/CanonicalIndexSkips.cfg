\* Not among the runs, see README.md.
SPECIFICATION Spec
CONSTANTS
  Forks = {a, b}
  Trunk = a
  Sources = {1, 2}
  BlobSource = 2
  OpHeight = 2
  BlocksPerRun = 3
  MaxHeight = 2
  MaxReorgs = 1
  MaxSurprises = 0
  MaxErrors = 0
INVARIANT NothingSkipped
CHECK_DEADLOCK FALSE
