SPECIFICATION Spec
CONSTANTS
  UUids = {u1, u2}
  UUsers = {a}
  UNone = none
  UMaxStates = 2
  UMaxSaves = 1
  OPublic = {p}
  OConfidential = {c}
  OConfigured <- MCConfigured
  ORefreshTtl = 2
  OGrantTtl = 2
  OInteractionTtl = 1
  ORequests = {q1, q2}
  OBatchSize = 1
  OMaxBatches = 2
  OMaxTime = 3
  OMaxTokens = 3
  TConnectors = {a, b}
  TCalls = {k1, k2}
  TRetries = 1
  TThreshold = 2
  TCooldown = 1
  TLife = 2
  TMargin = 1
  ANobody = nobody
  LPods = {l1}
  LMaxRetries = 1
  LQueueCount = 1
  AQueued = {e1}
  ATransactional = {f}
  AMonthsAhead = 1
  ARetryLimit = 1
  AMaxMonth = 0
  WTenants = {ta, tb}
  WQueries = {q}
  WMaxGen = 2
  WFaults = TRUE
INVARIANTS OStoreSound 
PROPERTIES UPendingDrained OPurgeExact TCallsRecover AQueueDrains WSwitchEnds
CHECK_DEADLOCK FALSE
