\* Not among the runs, see README.md.
\* The transaction watched first is mined after its replacement was broadcast.
SPECIFICATION WatchSpec
CONSTANTS
  Deadline = 3
  MissingPollsBeforeResubmit = 2
  MaxResubmissions = 1
  MaxHeight = 4
  MaxForks = 0
CHECK_DEADLOCK FALSE
INVARIANT RevertedMeansNotAccepted
