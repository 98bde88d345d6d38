SPECIFICATION Spec
CONSTANTS
  KIds = {k}
  KRequests = {}
  KCatalog = {"held", "unheld", "off"}
  KConfigured = {"held", "unheld"}
  KHeld = {"held"}
  KScopeSets = {{"held"}, {"unheld"}, {"off"}, {"openid"}}
  KRoleSets = {{}, {"member"}, {"platform-admin"}, {"root"}}
  KGrantSets = {{"client_credentials"}, {"client_credentials", "authorization_code"}, {"password"}}
  KNoSecret = none
  KFirstSecret = first
  CPods = {p1, p2}
  CJobs = {j1, j2}
  CIds = {c1}
  CEndpoints = {e1}
  CSecrets = {s1, s2}
  CNone = none
  CAdapters = {c1}
  CMaxRequests = 3
  DIds = {d1, d2}
  DNames = {"na", "nb"}
  DFormats = {"anoncreds", "mdl"}
  DRequests = {r1}
  FNames = {a, b}
  FTypes = {"string", "number", "object"}
  FValues = {"number", "infinite", "object", "array"}
  FMaxOffer = 0
  PIds = {1}
  PMicros = 2
  PLimits = {1, 2, 3}
  PMaxTime = 4
  ANobody = nobody
  LPods = {p1}
  LMaxRetries = 1
  LQueueCount = 1
  AQueued = {q1}
  ATransactional = {f}
  AMonthsAhead = 1
  ARetryLimit = 1
  AMaxMonth = 0
SYMMETRY MCSymmetry
INVARIANT CUpdateKept
CHECK_DEADLOCK FALSE
