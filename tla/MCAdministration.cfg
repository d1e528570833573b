SPECIFICATION AdminSpec
CONSTANTS
  a1 = a1
  a2 = a2
  k1 = k1
  k2 = k2
  k3 = k3
  Admins = {a1, a2}
  Credentials = {k1, k2, k3}
  Settings <- MCSettings
  Patches <- MCPatches
  Recorded = 3
  EventRetention = 1
  AuditRetention = 2
  PurgeSize = 2
  MaxNow = 4
  MaxAudits = 4
SYMMETRY MCSymmetry
INVARIANTS
  AdminTypeOK
  DisabledHasNoCredential
  PurgeReportsTruth
  ZeroMeansEmpty
PROPERTIES
  NothingComesBack
CHECK_DEADLOCK FALSE
