\* A post answered with an error status, in an event that succeeds.
CONSTANTS
  MaxRecords = 2
  MaxMessages = 2
  Size = {1, 3}
  MaxBatch = 2
SPECIFICATION Spec
INVARIANTS
  DropsOnlyDelivered
\* An event ends.
CHECK_DEADLOCK FALSE
