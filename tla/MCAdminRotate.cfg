SPECIFICATION AdminSpec
CONSTANTS
  a1 = a1
  a2 = a2
  k1 = k1
  k2 = k2
  k3 = k3
  Admins = {a1}
  Credentials = {k1, k2}
  Settings <- MCSettings
  Patches <- MCPatches
  Recorded = 0
  EventRetention = 1
  AuditRetention = 2
  PurgeSize = 2
  MaxNow = 0
  MaxAudits = 2
PROPERTIES
  IssuedIsActive
CHECK_DEADLOCK FALSE
