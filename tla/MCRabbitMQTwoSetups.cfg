SPECIFICATION Spec
CONSTANTS
  stable = stable
  canary = canary
  order = order
  mail = mail
  note = note
  None = None
  Pods <- MCPods
  CanaryPods = {canary}
  Messages <- MCMessages
  Follows <- MCFollows
  Throwing = {}
  Size <- MCSize
  DeflatedSize <- MCDeflatedSize
  MinLength = 2
  LengthLimit = 2
  Setups = 2
  Late = {}
  Prefetch = 2
  MaxEvents = 2
INVARIANTS
  HandledAsSent
CHECK_DEADLOCK FALSE
