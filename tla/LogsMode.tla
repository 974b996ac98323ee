------------------------------ MODULE LogsMode ------------------------------
(***************************************************************************)
(* The logs mode, put together: one event is dispatched to the processing  *)
(* of its kind, which is CloudWatch's, an S3 object's, a stream's or       *)
(* queue's or an ECR scan's; each log made by it gets its metadata and its *)
(* envelope.  The tag cache of CloudWatch is the one part that outlives an *)
(* event: this module extends it and has an instance of each other part,   *)
(* with the variables that part reads and writes.                          *)
(***************************************************************************)
EXTENDS TagCache

CONSTANTS
  MaxMarks, Mark, Sampling,                             (* S3Object          *)
  MaxRecords, MaxLogs,                                  (* RecordMetadata    *)
  Values, MaxFindings, MaxAttributes, PageSize,         (* EcrScan           *)
  Names, Leaves, MaxBodies,                             (* EventDispatch     *)
  Field, CustomKey                                      (* LogEnvelope       *)

VARIABLES
  kind, zipped, blocking, sampling, customHeader, object, objectText, stage, extracted, kept,
  objectAnswer,
  source, deferred, records, next, mctx, collected, recordLogs, shipped, recordAnswer,
  findings, listed, counted, atFinding, atAttribute, package, packageVersion, scanLogs,
  scanAnswer,
  mode, lines, payload, dlq, spent, gone, pos, hand, done, rescued, eventAnswer,
  log, configured, logMctx, add, customKeys, detect, part, logName, body, words, severity

s3 ==
  <<kind, zipped, blocking, sampling, customHeader, object, objectText, stage, extracted, kept,
    objectAnswer>>
stream   == <<source, deferred, records, next, mctx, collected, recordLogs, shipped, recordAnswer>>
scan     ==
  <<findings, listed, counted, atFinding, atAttribute, package, packageVersion, scanLogs,
    scanAnswer>>
dispatch ==
  <<mode, lines, payload, dlq, spent, gone, pos, hand, done, rescued, eventAnswer>>
envelope ==
  <<log, configured, logMctx, add, customKeys, detect, part, logName, body, words, severity>>

S3 == INSTANCE S3Object WITH
  custom <- customHeader, text <- objectText, found <- extracted, logs <- kept,
  answer <- objectAnswer

R == INSTANCE RecordMetadata WITH logs <- recordLogs, answer <- recordAnswer

Ecr == INSTANCE EcrScan WITH
  found <- findings, i <- atFinding, j <- atAttribute, name <- package,
  version <- packageVersion, logs <- scanLogs, answer <- scanAnswer

D == INSTANCE EventDispatch WITH
  text <- lines, now <- hand, failed <- rescued, answer <- eventAnswer

E == INSTANCE LogEnvelope WITH
  mctx <- logMctx, custom <- customKeys, stage <- part, name <- logName

ASSUME ObjectAssumption == S3!ConstantsOK
ASSUME RecordAssumption == R!ConstantsOK
ASSUME ScanAssumption == Ecr!ConstantsOK
ASSUME DispatchAssumption == D!ConstantsOK

-----------------------------------------------------------------------------
(* What is shipped of an object: its data, in order, sampled as the code   *)
(* says, whatever its kind and wherever an archive breaks off.             *)
RightLogs == S3!RightLogs

(* A log is shipped with the metadata that stood when its record had been  *)
(* read and with the logs of all the other records, or not at all.         *)
MetadataIsLatest == R!MetadataIsLatest

(* A scan's logs are those of its findings, with nothing of each other.    *)
ScanIsReported == Ecr!ScanIsReported

(* Known events are processed as what they are, or saved if that fails on  *)
(* the dead-letter queue; payloads of unknown kinds are refused, except    *)
(* for lists of records in logs mode.                                      *)
EventsAreProcessed == D!EventsAreProcessed

(* A log is named, wrapped and graded without losing anything of it.       *)
EnvelopeIsFaithful == E!EnvelopeIsFaithful
=============================================================================
