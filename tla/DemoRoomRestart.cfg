\* Not among the runs, see README.md.
\* A restart while a checkpoint is proving.
SPECIFICATION Spec
CONSTANTS
  SignedRooms = {TRUE}
  ActionsPerRoomBlock = 1
  MaxMoves = 2
  MaxAttempts = 1
  MaxDeploys = 1
  MaxSaveFailures = 0
  MaxCrashes = 1
  MaxReorgs = 0
CHECK_DEADLOCK FALSE
INVARIANT IdleRoomIsOpen
