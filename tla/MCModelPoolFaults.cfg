SPECIFICATION FairSpec
CONSTANTS
  o1 = o1
  o2 = o2
  o3 = o3
  o4 = o4
  Ops = {o1, o2, o3}
  Callers = {"a", "b"}
  Pools = {"small", "large"}
  CallerOf <- MCCallerOf
  PoolOf <- MCTwoPools
  ActiveLimit <- MCActiveLimit
  CallerLimit <- MCCallerLimit
  QueueLimit = 2
  CallerQueueLimit = 1
  QueueWait = 1
  LeaseTime = 5
  HeartbeatTime = 1
  CallTime = 1
  Unguarded = {}
  MaxFaults = 1
INVARIANTS
  ActiveWithinLimit
  CallerWithinLimit
PROPERTIES
  QueueWaitEnds
CHECK_DEADLOCK FALSE
