SPECIFICATION FairSpec
CONSTANTS
  stable = stable
  canary = canary
  order = order
  mail = mail
  note = note
  None = None
  Pods <- MCPods
  CanaryPods = {canary}
  Messages <- MCMessages
  Follows <- MCFollows
  Throwing = {mail}
  Size <- MCSize
  DeflatedSize <- MCDeflatedSize
  MinLength = 2
  LengthLimit = 2
  Setups = 1
  Late = {1}
  Prefetch = 2
  MaxEvents = 2
INVARIANTS
  ChainStaysOnOneSide
  NothingLost
  HandledAsSent
PROPERTIES
  EveryMessageHandled
CHECK_DEADLOCK FALSE
