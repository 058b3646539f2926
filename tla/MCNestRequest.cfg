CONSTANTS
  Entries = {1, 2}
  Depth <- MCDepth
  Arrivals <- MCArrivals
  Constants = {"c"}
SPECIFICATION Spec
INVARIANTS
  ErrorNamesRequest
  ChainKeepsId
CHECK_DEADLOCK FALSE
