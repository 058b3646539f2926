SPECIFICATION FairSpec
CONSTANTS
  MaxStarts = 2
  MaxSignals = 3
  MaxConnections = 1
  ForceExitTime = 2
INVARIANTS
  ExitsInTime
  HandlersRunDrained
  CleanExitIsComplete
PROPERTIES
  ImplementsGracefulProcess
CHECK_DEADLOCK FALSE
