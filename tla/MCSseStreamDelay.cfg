SPECIFICATION Spec
CONSTANTS
  FramingLength = 6
  EventLines = 2
  Inputs <- MCTwoEvents
INVARIANTS
  DelimitedEventsAreCut
CHECK_DEADLOCK FALSE
