\* Two buckets with any notifications of others, up to three requests, and
\* one change by another owner at any time; all modes and routes, with up to
\* two headers.
CONSTANTS
  Buckets <- MCBuckets
  MaxRequests = 3
  MaxWrites = 1
  MaxHeaders = 2
SPECIFICATION MCSpec
INVARIANTS
  OthersKept
  CreatedEverywhere
  StartIsSound
\* The stack gets no more requests; a start ends, one way or the other.
CHECK_DEADLOCK FALSE
