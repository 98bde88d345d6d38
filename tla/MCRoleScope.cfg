SPECIFICATION FairSpec
CONSTANTS
  w1 = w1
  w2 = w2
  l1 = l1
  l2 = l2
  x = x
  y = y
  Super = Super
  NoLock = NoLock
  Writers = {w1, w2}
  Logins = {l1}
  TenantScopes = {x, y}
  PlatformAdmins = {w1}
  Defaults <- MCDefaults
  RoleOf <- MCRoleOf
  ActorScopes <- MCActorScopes
  MaxWrites = 2
  PodsMayDie = FALSE
INVARIANTS TypeOK HierarchyHolds AuditTrailExact NarrowingReachesGrants
PROPERTIES WritesEnd
CHECK_DEADLOCK FALSE
