SPECIFICATION FairSpec
CONSTANTS
  None = None
  Admins = {a1}
  Editors = {}
  PlatformEditors = {}
  Clients = {c1}
  Connectors = {k1}
  Connections = {n1}
  MaxChanges = 2
  Slots = 2
  RetryLimit = 1
INVARIANTS Converged 
PROPERTIES JobsSettle
CHECK_DEADLOCK FALSE
