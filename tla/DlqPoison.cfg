\* One event whose body the shipper cannot parse, no crash, no refused call.
CONSTANTS
  Event = {e1, p1}
  Poison = {p1}
  Worker = {w1, w2}
  AsyncAttempts = 1
  SourceBatch = 1
  DlqBatch = 1
  RetryLimit = 1
  MaxFaults = 0
SPECIFICATION FairSpec
PROPERTIES
  FailedEventsSettle
CHECK_DEADLOCK FALSE
