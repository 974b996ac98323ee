\* Every list of up to five logs of three sizes against four targets; calls
\* of up to four logs of three sizes and two resources; batches of up to four
\* spans of two resources, small, large and oversized, or of up to two records
\* of any kind.
CONSTANTS
  MaxLogs = 5
  Size = {0, 1, 4}
  Target = {0, 3, 5, 9}
  Overhead = 1
  CallLogs = 4
  CallSize = {2, 4, 6}
  Resource = {"r1", "r2"}
  Header = 1
  MaxRequest = 6
  Input <- TraceInput
  MaxRecords = 4
  MaxResource = 2
  SpanHeader = 1
  MaxSpanRequest = 5
SPECIFICATION MCSpec
INVARIANTS
  InOrder
  TightBatches
  RequestsAreSound
  SpansAreKept
PROPERTIES
  LoopsEnd
  Shipped
\* Each loop ends.
CHECK_DEADLOCK FALSE
