\* Three callers of the cache over three retry intervals; a cache of three
\* patterns, five that compile and one that does not; two logs in at most two
\* quotes; scripts of up to five bytes where three are allowed.
CONSTANTS
  Task = {t1, t2, t3}
  HasScript = TRUE
  Timeout = 2
  MaxCompile = 1
  RetryInterval = 3
  Horizon = 9
  Pattern = {"p1", "p2", "p3", "p4", "p5", "bad"}
  Invalid = {"bad"}
  MaxEntries = 3
  MaxLogs = 2
  MaxQuotes = 2
  MaxBytes = 3
  MaxSize = 5
SPECIFICATION MCSpec
INVARIANTS
  SingleFlight
  WaitBounded
  FetchRate
  PatternsAreKept
  ResultsAreOwn
  SourceIsSound
PROPERTIES
  ReadyIsFinal
  CallsReturn
\* The model of the cache stops at the horizon, the other parts end.
CHECK_DEADLOCK FALSE
