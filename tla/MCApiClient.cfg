SPECIFICATION FairSpec
CONSTANTS
  r1 = r1
  r2 = r2
  r3 = r3
  Default = Default
  Invalid = Invalid
  NoHint = NoHint
  Requests <- MCRequests
  ClientMaxRetries = 0
  MaxRetriesOption <- MCMaxRetries
  ClientTimeout = 1
  TimeoutOption <- MCTimeout
  AgentTimeout = 1
  AgentSlack = 1
  TokenTTL = 2
  TokenRefreshTTL = 1
  InitialRetryDelay = 1
  MaxRetryDelay = 2
  MaxHeaderDelay = 3
  Responses <- MCResponses
INVARIANTS
  AttemptsBounded
  ErrorNamesCause
  AgentOutlastsTimers
PROPERTIES
  NoFetchAfterAbort
  SentTokenIsFresh
  CallSettles
  AbortSettles
