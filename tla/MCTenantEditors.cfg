SPECIFICATION Spec
CONSTANTS
  None = None
  Admins = {a1}
  Editors = {e1}
  PlatformEditors = {e1}
  Clients = {c1}
  Connectors = {k1}
  Connections = {n1}
  MaxChanges = 2
  Slots = 2
  RetryLimit = 0
PROPERTIES RevokedForCauseFinal
CHECK_DEADLOCK FALSE
