\* A coordinator and a standby, a worker, two epochs, two delegations.
SPECIFICATION FenceSpec
CONSTANTS
  Coordinators = {a, b}
  Standbys = {b}
  Workers = {w}
  NoOne = NoOne
  MaxEpoch = 2
  MaxToken = 2
  MaxInFlight = 1
  MaxPromotions = 1
CHECK_DEADLOCK FALSE
INVARIANTS OneHolderPerEpoch
PROPERTIES FormerWriterIsSilent ImplementsWriterEpoch
