\* Deletion of a stack with two buckets.
CONSTANTS
  Buckets <- MCBuckets
  MaxRequests = 3
  MaxWrites = 0
  MaxHeaders = 2
SPECIFICATION MCSpec
INVARIANTS
  RemovedEverywhere
\* The stack gets no more requests.
CHECK_DEADLOCK FALSE
