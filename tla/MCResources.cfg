SPECIFICATION Spec
CONSTANTS
  KIds = {k}
  KRequests = {w1, w2}
  KCatalog = {"held", "unheld", "off"}
  KConfigured = {"held", "unheld"}
  KHeld = {"held"}
  KScopeSets = {{"held"}, {"unheld"}, {"off"}, {"openid"}}
  KRoleSets = {{}, {"member"}, {"platform-admin"}, {"root"}}
  KGrantSets = {{"client_credentials"}, {"client_credentials", "authorization_code"}, {"password"}}
  KNoSecret = none
  KFirstSecret = first
  CPods = {p1, p2}
  CJobs = {j1, j2}
  CIds = {c1, c2}
  CEndpoints = {e1, e2}
  CSecrets = {s1}
  CNone = none
  CAdapters = {c1, c2}
  CMaxRequests = 3
  DIds = {d1, d2}
  DNames = {"na", "nb"}
  DFormats = {"anoncreds", "mdl"}
  DRequests = {r1, r2}
  FNames = {a, b}
  FTypes = {"string", "number", "object"}
  FValues = {"number", "infinite", "object", "array"}
  FMaxOffer = 3
  PIds = {1, 2, 3}
  PMicros = 2
  PLimits = {1, 2, 3}
  PMaxTime = 4
  ANobody = nobody
  LPods = {p1, p2}
  LMaxRetries = 1
  LQueueCount = 1
  AQueued = {q1}
  ATransactional = {f}
  AMonthsAhead = 1
  ARetryLimit = 1
  AMaxMonth = 2
SYMMETRY MCSymmetry
INVARIANTS KClientsSound CStoredSound   FValidatorsAgree PListingExact AEntriesKept
PROPERTIES DReturnsOnlyBySave
CHECK_DEADLOCK FALSE
