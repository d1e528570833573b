SPECIFICATION Spec
CONSTANTS
  a1 = a1
  k1 = k1
  k2 = k2
  d1 = d1
  d2 = d2
  d3 = d3
  m1 = m1
  m2 = m2
  Admins = {a1}
  Credentials = {k1, k2}
  Settings <- MCSettings
  Patches <- MCPatches
  Recorded = 0
  EventRetention = 0
  AuditRetention = 0
  PurgeSize = 1
  MaxNow = 0
  MaxAudits = 1
  Deliveries = {d1, d2}
  Messages = {m1}
  MessageOf <- MCMessageOf
  Signer <- MCSigner
  Timestamp <- MCTimestamp
  Endpoint <- MCEndpoint
  Tolerance = 1
  Ticks = 2
  NonceTTL = 2
  CheckDelay = 0
  Window = 2
  MaxTime = 5
  MaxFaults = 0
INVARIANTS
  SignedOnce
CHECK_DEADLOCK FALSE
