\* Not among the runs, see README.md.
\* A standby that is promoted.
SPECIFICATION FenceSpec
CONSTANTS
  Coordinators = {a, b}
  Standbys = {b}
  Workers = {}
  NoOne = NoOne
  MaxEpoch = 2
  MaxToken = 0
  MaxInFlight = 0
  MaxPromotions = 1
CHECK_DEADLOCK FALSE
INVARIANT HolderRenews
