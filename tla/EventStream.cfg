\* Two writers, two viewers of different tenants that compete for one slot.
SPECIFICATION FairStreamSpec
CONSTANTS
  Writers = {w1, w2}
  a = a
  b = b
  Viewers = {a, b}
  Everyone = Everyone
  Topics <- MCTopics
  Cap = 1
  Page = 2
  MaxEvents = 2
  MaxConnections = 2
  MaxBreaks = 1
CHECK_DEADLOCK FALSE
INVARIANTS StreamIsComplete SlotsAreBounded
PROPERTY StreamsServeOrEnd
