\* Not among the runs, see README.md.
SPECIFICATION FairSpec
CONSTANTS
  Withdrawals = {d1}
  Workers = {w1}
  Nobody = Nobody
  MaxTakeovers = 0
  MaxReorgs = 0
  MaxSurprises = 1
  MaxErrors = 0
PROPERTIES
  RetractedStaysRetracted
CHECK_DEADLOCK FALSE
