SPECIFICATION Spec
CONSTANTS
  plain = plain
  stream = stream
  Requests = {plain, stream}
  RequestId <- MCSameId
  Streams = {stream}
  Workers = {"w1", "w2"}
  Usages = {2}
  Charges = {1}
  CancelOutcomes <- MCCancelOutcomes
  NotFoundCode = "OPENWEBUI_CREDIT_NOT_FOUND"
  SlowAwaits = {"provider", "streaming"}
  BatchSize = 2
  MaxFaults = 3
  Unknown = Unknown
INVARIANTS
  TypeOK
  ChargeMatchesCredit
  CompletedIsSettled
  NoOrphanCredit
  SuccessAfterCommit
  ProviderCalledOnce
CHECK_DEADLOCK FALSE
