\* Not among the runs, see README.md.
SPECIFICATION FairSpec
CONSTANTS
  Forks = {a, b}
  Trunk = a
  Sources = {1, 2}
  BlobSource = 2
  OpHeight = 2
  BlocksPerRun = 3
  MaxHeight = 3
  MaxReorgs = 0
  MaxSurprises = 1
  MaxErrors = 0
PROPERTY RecoveryIsReplayed
CHECK_DEADLOCK FALSE
