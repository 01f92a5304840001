\* Not among the runs, see README.md.
\* Two deployRoom requests with different idempotency keys.
SPECIFICATION Spec
CONSTANTS
  SignedRooms = {TRUE}
  ActionsPerRoomBlock = 1
  MaxMoves = 2
  MaxAttempts = 1
  MaxDeploys = 2
  MaxSaveFailures = 0
  MaxCrashes = 0
  MaxReorgs = 0
CHECK_DEADLOCK FALSE
INVARIANT InFlightIsClosed
