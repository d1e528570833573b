SPECIFICATION Spec
CONSTANTS
  o1 = o1
  o2 = o2
  o3 = o3
  q1 = q1
  q2 = q2
  q3 = q3
  c1 = c1
  m1 = m1
  m2 = m2
  Clients = {c1}
  Operations = {o1, o2, o3}
  RequestIds = {q1, q2, q3}
  Models = {m1, m2}
  Settlements = {"s1"}
  Policies <- MCPolicies
  Codes = {"OK"}
  Terminals <- MCTerminals
  Sizes = {2}
  Usages <- MCUsages
  MaxTime = 1
  SecondsPerDay = 1
  BigIntMax = 5
  BatchSize = 1
  MaxAggregateRows = 2
  NoLimit = NoLimit
  NoSettlement = NoSettlement
SYMMETRY MCSymmetry
INVARIANTS
  TypeOK
  LedgerBalanced
  ReservationCovered
  OneOperationPerRequestId
  RunningTotalsAreSerial
  EventMatchesOperation
  OverflowOnlyByOverrun
  UsageReportMatchesAdmission
  SummaryMatchesLedger
PROPERTIES
  TerminalIsFinal
  ImplementsTokenBudget
CHECK_DEADLOCK FALSE
