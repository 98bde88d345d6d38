SPECIFICATION Spec
CONSTANTS
  UUids = {u1, u2}
  UUsers = {a, b}
  UNone = none
  UMaxStates = 2
  UMaxSaves = 2
  SAccounts = {a, b}
  SSids = {1, 2, 3}
  SSwitches = {w1}
  SNone = none
  SLimit = 2
  WTenants = {ta, tb}
  WQueries = {q}
  WMaxGen = 4
  WFaults = TRUE
  RRequests = {q1, q2}
  RWindow = 1
  RRetention = 1
  RLimit <- MCLimit
  JPods = {p1, p2}
  JRequests = {v}
  JTokenTtl = 3
  JCacheTtl = 1
  JFetchTimeout = 1
  JMaxTime = 3
  JMaxTokens = 1
  BPods = {p1, p2}
  BRuns = {r1, r2}
  BPeople = {u}
  BMaxCrash = 2
INVARIANTS   WTabSound RWindowBounded JRotationSound 
 
CHECK_DEADLOCK FALSE
