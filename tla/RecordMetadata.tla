--------------------------- MODULE RecordMetadata ---------------------------
(***************************************************************************)
(* How the logs of one invocation get the metadata of the record they came *)
(* from (src/src/logs/process.rs): kinesis_logs, the text branch of the    *)
(* SQS handler with sqs_logs, and kafka_logs write each record's metadata  *)
(* into one shared MetadataContext; the first two take a snapshot of it    *)
(* per record, the third reads it at the end.  Nothing is shipped before   *)
(* every record has been read.                                             *)
(*                                                                         *)
(* A metadata value is named by the index of the record it describes, 0    *)
(* for a key that was never written.  All records of a Kafka invocation    *)
(* are of one topic: the event source mapping has one.                     *)
(***************************************************************************)
EXTENDS Naturals, Sequences

CONSTANTS
  MaxRecords,  (* bound: most records of an invocation                      *)
  MaxLogs      (* bound: most logs of a record, before or after the script  *)

(* To be stated as an assumption where the module is instantiated. *)
ConstantsOK == MaxRecords \in Nat /\ MaxLogs \in Nat \ {0}

VARIABLES
  source,     (* which of the three it is                                   *)
  deferred,   (* starlark_transform_after_metadata                          *)
  records,    (* the records                                                *)
  next,       (* the next record to read                                    *)
  mctx,       (* the shared MetadataContext                                 *)
  collected,  (* SQS and Kafka: messages still to be transformed            *)
  logs,       (* logs with their metadata, one entry for each record        *)
  shipped,    (* what was handed to the pipeline                            *)
  answer      (* result of the invocation                                   *)

vars == <<source, deferred, records, next, mctx, collected, logs, shipped, answer>>

Key == {"kinesis", "cw", "sqs", "kafka"}
Context == [Key -> 0 .. MaxRecords]

(* What a record holds: logs of a CloudWatch group, of a stream that is    *)
(* filtered out, one raw text, or bytes that are no text (for SQS and      *)
(* Kafka: no body at all).                                                 *)
Record == [form : {"cw", "filtered", "raw", "none"}, logs : 0 .. MaxLogs]

LogEntry == [record : 1 .. MaxRecords, meta : Context, count : 1 .. MaxLogs]

TypeOK ==
  /\ source \in {"kinesis", "sqs", "kafka"}
  /\ deferred \in BOOLEAN
  /\ records \in Seq(Record) /\ Len(records) <= MaxRecords
  /\ next \in 1 .. Len(records) + 1
  /\ mctx \in Context
  /\ collected \in Seq(LogEntry)
  /\ logs \in Seq(LogEntry)
  /\ shipped \in Seq(LogEntry)
  /\ answer \in {"none", "ok", "err"}

Init ==
  /\ source \in {"kinesis", "sqs", "kafka"}
  /\ deferred \in BOOLEAN
  /\ \E n \in 1 .. MaxRecords : records \in [1 .. n -> Record]
  /\ \A i \in DOMAIN records : records[i].form = "raw" => records[i].logs <= 1
  /\ next = 1
  /\ mctx = [k \in Key |-> 0]
  /\ collected = <<>>
  /\ logs = <<>>
  /\ shipped = <<>>
  /\ answer = "none"

-----------------------------------------------------------------------------
Reading(s) ==
  /\ answer = "none"
  /\ source = s
  /\ next <= Len(records)

AllRead == answer = "none" /\ next > Len(records)

(* Variant: the metadata of a stream is written before its filter is       *)
(* asked.                                                                  *)
WrittenByUnfiltered(i) ==
  [mctx EXCEPT !["kinesis"] = i,
               !["cw"] = IF records[i].form \in {"cw", "filtered"} THEN i ELSE @]

(* MetadataContext::insert, for the keys of a Kinesis record, and by       *)
(* process_cloudwatch_logs for those of a stream that passes the filter.   *)
WrittenBy(i) ==
  [mctx EXCEPT !["kinesis"] = i, !["cw"] = IF records[i].form = "cw" THEN i ELSE @]

(* The script, or nothing if it runs later, makes n logs of those of a     *)
(* record; blank ones are left out.                                        *)
Transformed(n) == IF deferred THEN 0 .. n ELSE 0 .. MaxLogs

Entry(i, meta, n) ==
  IF n = 0 THEN <<>> ELSE <<[record |-> i, meta |-> meta, count |-> n]>>

HasLogs(i) == records[i].form \in {"cw", "raw"} /\ records[i].logs > 0

(* Variant: the snapshot is taken before the record is parsed. *)
ReadKinesisEarly ==
  /\ Reading("kinesis")
  /\ mctx' = WrittenBy(next)
  /\ IF HasLogs(next)
       THEN \E n \in Transformed(records[next].logs) :
              logs' = logs \o Entry(next, mctx, n)
       ELSE UNCHANGED logs
  /\ next' = next + 1
  /\ UNCHANGED <<source, deferred, records, collected, shipped, answer>>

(* kinesis_logs: one record, from its metadata to its transformed logs. *)
ReadKinesis ==
  /\ Reading("kinesis")
  /\ mctx' = WrittenBy(next)
  /\ IF HasLogs(next)
       THEN \E n \in Transformed(records[next].logs) :
              logs' = logs \o Entry(next, mctx', n)
       ELSE UNCHANGED logs
  /\ next' = next + 1
  /\ UNCHANGED <<source, deferred, records, collected, shipped, answer>>

(* The SQS handler: a message is paired with a snapshot. *)
ReadSqs ==
  /\ Reading("sqs")
  /\ mctx' = [mctx EXCEPT !["sqs"] = next]
  /\ collected' = IF records[next].form = "none" THEN collected
                  ELSE collected \o Entry(next, mctx', 1)
  /\ next' = next + 1
  /\ UNCHANGED <<source, deferred, records, logs, shipped, answer>>

(* kafka_logs: a value is pushed as it is. *)
ReadKafka ==
  /\ Reading("kafka")
  /\ IF records[next].form = "none"
       THEN UNCHANGED <<mctx, collected>>
       ELSE /\ mctx' = [mctx EXCEPT !["kafka"] = next]
            /\ collected' = collected \o Entry(next, mctx', 1)
  /\ next' = next + 1
  /\ UNCHANGED <<source, deferred, records, logs, shipped, answer>>

(* sqs_logs: the front message is transformed; its logs get its snapshot. *)
TransformSqs ==
  /\ AllRead
  /\ source = "sqs"
  /\ collected # <<>>
  /\ \E n \in Transformed(1) :
       logs' = logs \o Entry(Head(collected).record, Head(collected).meta, n)
  /\ collected' = Tail(collected)
  /\ UNCHANGED <<source, deferred, records, next, mctx, shipped, answer>>

(* process_batches transforms the messages of Kafka and gives them what    *)
(* the context holds by then.                                              *)
TransformKafka ==
  /\ AllRead
  /\ source = "kafka"
  /\ collected # <<>>
  /\ \E n \in Transformed(1) : logs' = logs \o Entry(Head(collected).record, mctx, n)
  /\ collected' = Tail(collected)
  /\ UNCHANGED <<source, deferred, records, next, mctx, shipped, answer>>

(* Variant: what was transformed before is shipped. *)
FailShipping ==
  /\ answer = "none"
  /\ ~ deferred /\ logs # <<>>
  /\ shipped' = logs
  /\ answer' = "err"
  /\ UNCHANGED <<source, deferred, records, next, mctx, collected, logs>>

(* The script, a stream filter or a Kafka value that is no text fails the  *)
(* invocation before anything is shipped.                                  *)
Fail ==
  /\ answer = "none"
  /\ IF next > Len(records) THEN collected # <<>> ELSE source # "sqs"
  /\ answer' = "err"
  /\ UNCHANGED <<source, deferred, records, next, mctx, collected, logs, shipped>>

(* process_batches_with_meta, or process_batches, takes over: module       *)
(* ExportPipeline.                                                         *)
Ship ==
  /\ AllRead
  /\ collected = <<>>
  /\ shipped' = logs
  /\ answer' \in IF logs = <<>> THEN {"ok"} ELSE {"ok", "err"}
  /\ UNCHANGED <<source, deferred, records, next, mctx, collected, logs>>

Next ==
  \/ ReadKinesis \/ ReadSqs \/ ReadKafka
  \/ TransformSqs \/ TransformKafka \/ Fail \/ Ship

Spec == Init /\ [][Next]_vars

-----------------------------------------------------------------------------
(* Which records write a key.                                              *)
Writes(k, i) ==
  CASE k = "cw"    -> source = "kinesis" /\ records[i].form = "cw"
    [] k = "kafka" -> source = "kafka" /\ records[i].form # "none"
    [] OTHER       -> k = source

(* Record j is the last of the first i that writes the key, or none does.  *)
Latest(k, j, i) ==
  /\ j \in 0 .. i
  /\ j > 0 => Writes(k, j)
  /\ \A m \in j + 1 .. i : ~ Writes(k, m)

(* A log has of each key the value last written when its record had been   *)
(* read (process.rs:550-554): no later record's, whose writes the snapshot *)
(* must not see, its own record's if that writes the key, and an earlier   *)
(* one's otherwise.  For Kafka it is the last of all (process.rs:1092).    *)
LatestMetadata ==
  \A n \in DOMAIN logs, k \in Key :
    Latest(k, logs[n].meta[k], IF source = "kafka" THEN Len(records) ELSE logs[n].record)

(* A stream that is filtered out has no log (process.rs:874-883); by the   *)
(* above it leaves no metadata for the logs of records behind it, either.  *)
FilteredLeavesNoLog ==
  source = "kinesis" => \A n \in DOMAIN logs : records[logs[n].record].form # "filtered"

(* A record that fails to be transformed fails the invocation while none   *)
(* of its records is shipped: the records come back, and none is doubled.  *)
(* A shipped invocation has the logs of all records in their order.        *)
AllOrNothing ==
  shipped # <<>> =>
    /\ next > Len(records)
    /\ collected = <<>>
    /\ \A j, k \in DOMAIN shipped : j < k => shipped[j].record < shipped[k].record

(* A log is shipped with the metadata that stood when its record had been  *)
(* read and with the logs of all the other records, or not at all.         *)
MetadataIsLatest ==
  TypeOK /\ LatestMetadata /\ FilteredLeavesNoLog /\ AllOrNothing
=============================================================================
