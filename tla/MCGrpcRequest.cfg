SPECIFICATION FairSpec
CONSTANTS
  unary = unary
  stream = stream
  Calls <- MCCalls
  RetryCount <- MCRetryCount
  FirstTimeout = 2
  RetryDelay = 1
  StreamLength <- MCStreamLength
INVARIANTS
  ValuesOfCurrentAttempt
  FailureIsFinal
PROPERTIES
  CallEnds
  ImplementsAtLeastOnce
CHECK_DEADLOCK FALSE
