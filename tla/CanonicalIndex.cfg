SPECIFICATION FairSpec
CONSTANTS
  Forks = {a, b}
  Trunk = a
  Sources = {1, 2}
  BlobSource = 2
  OpHeight = 2
  BlocksPerRun = 3
  MaxHeight = 2
  MaxReorgs = 1
  MaxSurprises = 1
  MaxErrors = 1
INVARIANTS ReadersSeeTheChain CompleteWithoutReorg
PROPERTIES IndexCatchesUp
CHECK_DEADLOCK FALSE
