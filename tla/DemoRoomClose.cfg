\* Not among the runs, see README.md.
\* A close request against a request whose job is not launched yet.
SPECIFICATION Spec
CONSTANTS
  SignedRooms = {TRUE}
  ActionsPerRoomBlock = 1
  MaxMoves = 2
  MaxAttempts = 1
  MaxDeploys = 1
  MaxSaveFailures = 0
  MaxCrashes = 0
  MaxReorgs = 0
CHECK_DEADLOCK FALSE
PROPERTY ClosedStaysClosed
