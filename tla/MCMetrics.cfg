\* Two namespaces whose resources come in two pages and one without filters,
\* events that are cut off anywhere, files that expire after a tick or two;
\* Firehose events of up to two records of up to two messages, which fit
\* exactly, overflow, are oversized or hold no metrics; services of up
\* to two regexes and two resources over two dimensions that share values.
CONSTANTS
  Namespace = {n1, p1}
  Plain = {p1}
  Pages = 2
  Ttl = 2
  MaxRun = 2
  MaxTime = 5
  NoFile = NoFile
  MaxRecords = 2
  MaxMessages = 2
  Size = {0, 1, 3}
  MaxBatch = 2
  Value <- DimensionValues
  Stem <- Stems
  MaxRegexes = 2
  MaxResources = 2
SPECIFICATION MCSpec
INVARIANTS
  OneFetchPerEvent
  CacheIsSound
  PostsAreSound
  
PROPERTIES
  TagsNeverGoBack
  Shipped
\* An event ends; the clock is bounded.
CHECK_DEADLOCK FALSE
