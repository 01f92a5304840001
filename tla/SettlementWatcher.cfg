\* Two broadcasts, two reorganisations, and blocks on both sides of the deadline.
SPECIFICATION FairWatch
CONSTANTS
  Deadline = 3
  MissingPollsBeforeResubmit = 2
  MaxResubmissions = 1
  MaxHeight = 4
  MaxForks = 2
CHECK_DEADLOCK FALSE
INVARIANTS FinalizedIsIrreversible
PROPERTIES ImplementsSettlement WatchEnds
