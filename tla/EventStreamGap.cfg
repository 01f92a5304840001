\* One viewer, three events; not among the runs, see README.md.
SPECIFICATION StreamSpec
CONSTANTS
  Writers = {w1}
  a = a
  b = b
  Viewers = {a}
  Everyone = Everyone
  Topics <- MCTopics
  Cap = 1
  Page = 2
  MaxEvents = 3
  MaxConnections = 2
  MaxBreaks = 1
CHECK_DEADLOCK FALSE
INVARIANT ReapedIsAnnounced
