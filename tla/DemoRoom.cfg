\* Moves for two batches of one L1 room, whose second opens from the first, or for a
\* retried attempt that carries more than the one that failed; one restart, one
\* reorganisation and one failing save.  The room's moves carry envelopes: a room
\* without them never prepares a second batch (see README.md).
SPECIFICATION FairSpec
CONSTANTS
  SignedRooms = {TRUE}
  ActionsPerRoomBlock = 2
  MaxMoves = 4
  MaxAttempts = 2
  MaxDeploys = 1
  MaxSaveFailures = 1
  MaxCrashes = 1
  MaxReorgs = 1
CHECK_DEADLOCK FALSE
INVARIANTS
  AcceptedIsFinal HistoryIsSound AttemptIsDurable RecordsAgree
PROPERTY AttemptEnds
