SPECIFICATION Spec
CONSTANTS
  c1 = c1
  w1 = w1
  w2 = w2
  Callers = {c1}
  Workers = {w1}
  MaxLate = 0
  MaxAttempts = 3
  BatchSize = 2
  LooseOrder = FALSE
  MaxFaults = 1
  MaxCrashes = 0
INVARIANTS
  DisableIsRemote
CHECK_DEADLOCK FALSE
