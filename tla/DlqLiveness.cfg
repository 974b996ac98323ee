\* An event the shipper can parse next to one it cannot, with one crash,
\* refused call or early redelivery.
CONSTANTS
  Event = {e1, p1}
  Poison = {p1}
  Worker = {w1, w2}
  AsyncAttempts = 1
  SourceBatch = 1
  DlqBatch = 1
  RetryLimit = 1
  MaxFaults = 1
SPECIFICATION FairSpec
PROPERTIES
  ParsableEventsSettle
\* Once every event is settled, the system is at rest.
CHECK_DEADLOCK FALSE
