-------------------------- MODULE MetricsFirehose --------------------------
(***************************************************************************)
(* transform_firehose_event (src/src/metrics/process.rs): one Firehose     *)
(* event of the metrics mode.  Each record is split into length-delimited  *)
(* messages; each message is decoded, tagged, encoded and posted, alone or *)
(* gathered with others up to METRICS_BATCH_MAX_SIZE.  The first error     *)
(* fails the event.  Firehose is told to drop every record of an event     *)
(* that succeeds: the lambda has forwarded them.                           *)
(*                                                                         *)
(* What can become of a message is settled before the event starts: it is  *)
(* good, garbled (it does not decode), or untagged (a tag lookup fails and *)
(* MetricsContinueOnResourceFailure is false).  A post is answered with a  *)
(* 2xx status, with an error status, or not at all.                        *)
(***************************************************************************)
EXTENDS Naturals, Sequences, FiniteSets, FiniteSetsExt, SequencesExt

CONSTANTS
  MaxRecords,   (* bound: most records of an event                          *)
  MaxMessages,  (* bound: most messages of a record                         *)
  Size,         (* encoded sizes of a message; 0 if it holds no metrics     *)
  MaxBatch      (* batch_max_size_bytes                                     *)

VARIABLES
  batching,  (* BATCH_METRICS                                               *)
  event,     (* the records                                                 *)
  rec,       (* the record being processed                                  *)
  msg,       (* its message being processed, 0 before the record is split   *)
  batch,     (* aggregated_opt: the messages gathered, named by position    *)
  posts,     (* the posts the endpoint answered                             *)
  answer     (* result of the event                                         *)

vars == <<batching, event, rec, msg, batch, posts, answer>>

(* The size of a message that is never encoded does not matter: it is 1.   *)
Message == [size : Size, fate : {"good"}]
             \union [size : {1}, fate : {"garbled", "untagged"}]
Record  == [framed : BOOLEAN, messages : Seq(Message)]
Id      == (1 .. MaxRecords) \X (1 .. MaxMessages)
Post    == [messages : Seq(Id), status : {"2xx", "error"}]

MessageAt(id) == event[id[1]].messages[id[2]]
Current == MessageAt(<<rec, msg>>)

(* encoded_size: the encoding of a concatenation is a concatenation. *)
SizeOf(s) == SumFunctionOnSet([k \in DOMAIN s |-> MessageAt(s[k]).size], DOMAIN s)

(* To be stated as an assumption where the module is instantiated. *)
ConstantsOK == MaxRecords \in Nat /\ MaxMessages \in Nat /\ Size \subseteq Nat /\ MaxBatch \in Nat

TypeOK ==
  /\ batching \in BOOLEAN
  /\ event \in Seq(Record)
  /\ rec \in 1 .. Len(event) + 1
  /\ msg \in 0 .. MaxMessages + 1
  /\ batch \in Seq(Id)
  /\ ~ batching => batch = <<>>
  /\ posts \in Seq(Post)
  /\ answer \in {"none", "ok", "err"}

(* The records an event may hold. *)
Parsable ==
  {[framed |-> TRUE, messages |-> s] : s \in BoundedSeq(Message, MaxMessages)}
Misframed == [framed |-> FALSE, messages |-> <<>>]

Init ==
  /\ batching \in BOOLEAN
  /\ \E n \in 0 .. MaxRecords : event \in [1 .. n -> Parsable \union {Misframed}]
  /\ rec = 1
  /\ msg = 0
  /\ batch = <<>>
  /\ posts = <<>>
  /\ answer = "none"

-----------------------------------------------------------------------------
(* split_length_delimited frames the whole record or refuses it. *)
Split ==
  /\ answer = "none"
  /\ rec <= Len(event)
  /\ msg = 0
  /\ IF event[rec].framed
       THEN msg' = 1 /\ UNCHANGED answer
       ELSE answer' = "err" /\ UNCHANGED msg
  /\ UNCHANGED <<batching, event, rec, batch, posts>>

AtMessage ==
  /\ answer = "none"
  /\ rec <= Len(event)
  /\ msg \in 1 .. Len(event[rec].messages)

(* Variant: the message is left out. *)
TransformSkips ==
  /\ AtMessage
  /\ Current.fate # "good"
  /\ msg' = msg + 1
  /\ UNCHANGED <<batching, event, rec, batch, posts, answer>>

(* transform_message fails, and with it the event. *)
TransformFails ==
  /\ AtMessage
  /\ Current.fate # "good"
  /\ answer' = "err"
  /\ UNCHANGED <<batching, event, rec, msg, batch, posts>>

AtTransformed == AtMessage /\ Current.fate = "good"

(* Variants of the condition below: a batch is posted for every message;   *)
(* it does not make way for a message that is posted alone.                *)
OverflowsAlways == batching /\ SizeOf(batch) > 0

OverflowsIfGathered ==
  /\ batching
  /\ SizeOf(batch) > 0
  /\ Current.size <= MaxBatch
  /\ SizeOf(batch) + Current.size > MaxBatch

(* The gathered messages must be posted before the current one: with it    *)
(* they exceed the limit.  A batch without metrics is never posted.        *)
Overflows ==
  batching /\ SizeOf(batch) > 0 /\ SizeOf(batch) + Current.size > MaxBatch

(* The current message is posted by itself. *)
GoesAlone == ~ batching \/ Current.size > MaxBatch

(* Nothing is left but the batch. *)
AtRest ==
  /\ answer = "none"
  /\ rec = Len(event) + 1

Answered(s) ==
  \E status \in {"2xx", "error"} :
    posts' = Append(posts, [messages |-> s, status |-> status])

(* flush_batch: any answer of the endpoint will do (coralogix_send). *)
Flush ==
  /\ AtTransformed
  /\ Overflows
  /\ Answered(batch)
  /\ batch' = <<>>
  /\ UNCHANGED <<batching, event, rec, msg, answer>>

PostAlone ==
  /\ AtTransformed
  /\ ~ Overflows
  /\ GoesAlone
  /\ Answered(<< <<rec, msg>> >>)
  /\ msg' = msg + 1
  /\ UNCHANGED <<batching, event, rec, batch, answer>>

(* MetricsBatch::extend. *)
Gather ==
  /\ AtTransformed
  /\ ~ Overflows
  /\ ~ GoesAlone
  /\ batch' = Append(batch, <<rec, msg>>)
  /\ msg' = msg + 1
  /\ UNCHANGED <<batching, event, rec, posts, answer>>

(* The record is done and reported as dropped. *)
EndRecord ==
  /\ answer = "none"
  /\ rec <= Len(event)
  /\ msg = Len(event[rec].messages) + 1
  /\ rec' = rec + 1
  /\ msg' = 0
  /\ UNCHANGED <<batching, event, batch, posts, answer>>

(* send_final_batch. *)
PostRest ==
  /\ AtRest
  /\ SizeOf(batch) > 0
  /\ Answered(batch)
  /\ batch' = <<>>
  /\ UNCHANGED <<batching, event, rec, msg, answer>>

(* A post gets no answer: the event fails. *)
PostFails ==
  /\ \/ AtTransformed /\ (Overflows \/ GoesAlone)
     \/ AtRest /\ SizeOf(batch) > 0
  /\ answer' = "err"
  /\ UNCHANGED <<batching, event, rec, msg, batch, posts>>

Return ==
  /\ AtRest
  /\ SizeOf(batch) = 0
  /\ answer' = "ok"
  /\ UNCHANGED <<batching, event, rec, msg, batch, posts>>

Next ==
  \/ Split \/ TransformFails
  \/ Flush \/ PostAlone \/ Gather \/ PostFails
  \/ EndRecord \/ PostRest \/ Return

Spec == Init /\ [][Next]_vars

-----------------------------------------------------------------------------
(* The positions the event has gone past. *)
Seen ==
  {id \in Id :
     \/ id[1] < rec /\ id[2] <= Len(event[id[1]].messages)
     \/ id[1] = rec /\ id[2] < msg}

Before(x, y) == x[1] < y[1] \/ (x[1] = y[1] /\ x[2] < y[2])

Posted == FlattenSeq([k \in 1 .. Len(posts) |-> posts[k].messages])
Line   == Posted \o batch

(* Flushes at record borders, around oversized messages and at the end     *)
(* neither lose, repeat nor reorder metrics: what was posted and what is   *)
(* still gathered are the messages gone past, each once, and those that    *)
(* hold metrics in the order of the event.                                 *)
InOrder ==
  /\ ToSet(Line) = Seen
  /\ \A i, j \in DOMAIN Line :
       i < j =>
         /\ Line[i] # Line[j]
         /\ MessageAt(Line[i]).size > 0 /\ MessageAt(Line[j]).size > 0 => Before(Line[i], Line[j])

(* The places in s of messages that hold metrics. *)
Measured(s) == {k \in DOMAIN s : MessageAt(s[k]).size > 0}

(* A post exceeds the limit only with a single message that does so by     *)
(* itself, and with batching no post is without metrics or could have held *)
(* the first metrics of the next one as well (process.rs:262-311).         *)
PostsAreFull ==
  /\ SizeOf(batch) <= MaxBatch
  /\ \A k \in 1 .. Len(posts) :
       LET s == posts[k].messages IN
       /\ SizeOf(s) > MaxBatch => \A i, j \in Measured(s) : i = j
       /\ batching => Measured(s) # {}
       /\ batching /\ k < Len(posts) =>
            LET t == posts[k + 1].messages IN
            \A i \in Measured(t) :
              (\A j \in Measured(t) : i <= j) => SizeOf(s) + MessageAt(t[i]).size > MaxBatch

(* The posts of an event are its messages, in order and well packed.       *)
PostsAreSound == TypeOK /\ InOrder /\ PostsAreFull

(* What the event has to post: a garbled record counts as its own item,    *)
(* and with batching a message without metrics needs no post.              *)
Owed ==
  {<<r, 0>> : r \in {q \in 1 .. Len(event) : ~ event[q].framed}}
    \union {id \in Id :
              /\ id[1] <= Len(event)
              /\ id[2] <= Len(event[id[1]].messages)
              /\ batching => MessageAt(id).size > 0}

(* The event implements the promise of module Shipment for posts: it       *)
(* succeeds if and only if every message was posted and answered.          *)
Ship == INSTANCE Shipment WITH
  owed  <- Owed,
  acked <- Owed \intersect ToSet(Posted)

Shipped == Ship!Spec

(* README.md:776: a bucket stores "records that have failed processing".   *)
(* The records of a successful event are dropped by Firehose, so their     *)
(* metrics should have been taken in by the endpoint.                      *)
DropsOnlyDelivered ==
  answer = "ok" => \A k \in 1 .. Len(posts) : posts[k].status = "2xx"
=============================================================================
