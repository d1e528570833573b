SPECIFICATION FairSpec
CONSTANTS
  c1 = c1
  w1 = w1
  w2 = w2
  Callers = {c1}
  Workers = {w1, w2}
  MaxLate = 1
  MaxAttempts = 3
  BatchSize = 2
  LooseOrder = TRUE
  MaxFaults = 1
  MaxCrashes = 1
INVARIANTS
  TypeOK
  ActiveBindingIsUsable
  ClaimIsExclusive
  OneKeyPerCaller
  FailureIsVisible
PROPERTIES
  ItemsEnd
CHECK_DEADLOCK FALSE
