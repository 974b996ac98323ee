\* Two log groups, tags that live for two ticks, invocations of up to two;
\* texts of up to four marks as an object of every kind; up to three records;
\* scans of up to three findings where a page has two; every payload of up to
\* two nested records; logs of two fields, one of them named like the tags, and
\* one custom key, named like the tags, like the log or like one of its metadata.
CONSTANTS
  LogGroup = {"g1", "g2"}
  Ttl = 2
  MaxRun = 2
  MaxTime = 6
  MaxMarks = 4
  Mark = {"nl", " ", "#", "b", "x"}
  Sampling = {0, 1, 2}
  MaxRecords = 3
  MaxLogs = 2
  Values = {"openssl", "1.2"}
  MaxFindings = 3
  MaxAttributes = 2
  PageSize = 2
  Names <- ObjectNames
  Leaves = {"EcrScan", "CloudWatchLogs", "Kinesis", "Firehose", "Kafka", "KafkaEmpty", "Records", "Object", "Text"}
  MaxBodies = 2
  Field = {"app", "cw.tags"}
  CustomKey = {"cw.tags", "message", "s3.bucket"}
SPECIFICATION MCSpec
INVARIANTS
  TagsAreRecent
  RightLogs
  MetadataIsLatest
  ScanIsReported
  EventsAreProcessed
  EnvelopeIsFaithful
PROPERTIES
  AskedOncePerTtl
\* The clock is bounded, the other kinds of processing end.
CHECK_DEADLOCK FALSE
