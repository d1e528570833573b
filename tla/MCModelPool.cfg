SPECIFICATION Spec
CONSTANTS
  o1 = o1
  o2 = o2
  o3 = o3
  o4 = o4
  Ops = {o1, o2, o3, o4}
  Callers = {"a", "b"}
  Pools = {"small"}
  CallerOf <- MCCallerOf
  PoolOf <- MCOnePool
  ActiveLimit <- MCActiveLimit
  CallerLimit <- MCCallerLimit
  QueueLimit = 2
  CallerQueueLimit = 1
  QueueWait = 2
  LeaseTime = 5
  HeartbeatTime = 1
  CallTime = 1
  Unguarded = {o4}
  MaxFaults = 0
SYMMETRY MCSymmetry
INVARIANTS
  TypeOK
  QueueIsTickets
  NothingLeftBehind
  CapacityReportHolds
PROPERTIES
  NoOvertaking
CHECK_DEADLOCK FALSE
