SPECIFICATION FairSpec
CONSTANTS
  FramingLength = 6
  EventLines = 2
  Inputs <- MCInputs
INVARIANTS
  GivenIsPrefix
  EndIsComplete
  ConnectionReleased
PROPERTIES
  AbortEndsPull
CHECK_DEADLOCK FALSE
