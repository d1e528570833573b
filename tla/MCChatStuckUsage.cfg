SPECIFICATION FairSpec
CONSTANTS
  plain = plain
  stream = stream
  Requests = {stream}
  RequestId <- MCOwnId
  Streams = {stream}
  Workers = {"w1"}
  Usages = {2}
  Charges = {1}
  CancelOutcomes <- MCCancelOutcomes
  NotFoundCode = "OPENWEBUI_CREDIT_NOT_FOUND"
  SlowAwaits = {"streaming"}
  BatchSize = 2
  MaxFaults = 1
  Unknown = Unknown
PROPERTIES
  PendingIsFinished
CHECK_DEADLOCK FALSE
