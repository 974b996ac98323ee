\* Two events the shipper can ship and one it cannot parse, two environments,
\* one fault: a crash, a refused S3 or SQS call, or an early redelivery.
CONSTANTS
  Event = {e1, e2, p1}
  Poison = {p1}
  Worker = {w1, w2}
  AsyncAttempts = 2
  SourceBatch = 2
  DlqBatch = 1
  RetryLimit = 1
  MaxFaults = 1
SPECIFICATION Spec
SYMMETRY WorkerSymmetry
INVARIANTS
  NoEventLost
  ArchivedOnlyExhausted
  OneLiveCopy
  ReplaysBounded
PROPERTIES
  KeepsCustody
\* Once every event is settled, the system is at rest.
CHECK_DEADLOCK FALSE
