\* One event that keeps failing, no crash and no refused call.
CONSTANTS
  Event = {e1}
  Poison = {}
  Worker = {w1, w2}
  AsyncAttempts = 3
  SourceBatch = 1
  DlqBatch = 1
  RetryLimit = 3
  MaxFaults = 0
SPECIFICATION Spec
INVARIANTS
  RetriesAsDocumented
CHECK_DEADLOCK FALSE
