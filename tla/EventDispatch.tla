--------------------------- MODULE EventDispatch ---------------------------
(***************************************************************************)
(* What becomes of one invocation's payload: Combined::deserialize decides *)
(* what kind of event it is by trying one type after another, the handler  *)
(* of the telemetry mode branches on the kind, and a queue message that    *)
(* carries an event goes through both again.  An S3 notification names its *)
(* object in encoded form; the handler decodes the name before it reads    *)
(* the object.  A record of the dead-letter queue whose event fails is     *)
(* sent to that queue again, or filed once its retries are used up.        *)
(*                                                                         *)
(* Payloads are trees.  A key is a sequence of pieces; the pieces "2B" and *)
(* "25" are the digits that follow a percent sign in an escape and may     *)
(* also stand in an object's own name.                                     *)
(***************************************************************************)
EXTENDS Naturals, Sequences, SequencesExt

CONSTANTS Names,       \* names of objects, sequences of pieces
          Leaves,      \* kinds of payloads that carry no other payload
          MaxBodies    \* records of a queue event

-----------------------------------------------------------------------------
(* S3 and the queues: which payloads arrive.                               *)

\* The encoding S3 applies to a name in its notifications.
Encoded(c) ==
    CASE c = " " -> <<"+">>
      [] c = "+" -> <<"%", "2B">>
      [] c = "%" -> <<"%", "25">>
      [] OTHER -> <<c>>

Encode(name) == FlattenSeq([i \in 1 .. Len(name) |-> Encoded(name[i])])

Notification(name) == [kind |-> "S3", key |-> Encode(name), object |-> name]
Notifications == {Notification(n) : n \in Names}
Leaf == [kind : Leaves]
Topics == [kind : {"Sns"}, message : Notifications \cup {[kind |-> "Text"]}]
Single == Notifications \cup Leaf \cup Topics
NoBody == [kind |-> "none"]
Queues == [kind : {"Sqs"}, bodies : BoundedSeq(Single \cup {NoBody}, MaxBodies) \ {<<>>}]
Payloads == Single \cup Queues

\* The pieces of names and of their encodings.
Piece == {" ", "+", "%", "2B", "25"} \cup UNION {{n[i] : i \in DOMAIN n} : n \in Names}

\* To be stated as an assumption where the module is instantiated: names are
\* sequences, and the other payloads are of the kinds that are told apart.
ConstantsOK ==
    /\ Names \subseteq Seq(Piece)
    /\ Leaves \subseteq {"EcrScan", "CloudWatchLogs", "Kinesis", "Firehose", "Kafka",
                         "KafkaEmpty", "Records", "Object", "Text"}
    /\ MaxBodies \in Nat

-----------------------------------------------------------------------------
(* Combined::deserialize                                                   *)

\* The types that parse a payload.  All fields of a queue record are
\* optional, so any list of records passes for a queue event, that of a
\* service the shipper does not know ("Records") too, and any object passes
\* for a Kafka event without records.
Accepted(p) ==
    (CASE p.kind = "Text" -> {}
       [] p.kind \in {"S3", "Sns", "Kinesis"} -> {p.kind, "Sqs", "Kafka"}
       [] p.kind = "Records" -> {"Sqs", "Kafka"}
       [] p.kind = "Firehose" -> {"Firehose"}
       [] p.kind \in {"Object", "KafkaEmpty"} -> {"Kafka"}
       [] OTHER -> {p.kind, "Kafka"})

Parsers == <<"S3", "Sns", "EcrScan", "CloudWatchLogs", "Kinesis", "Sqs", "Firehose", "Kafka">>

\* A Kafka event needs a record, since anything parses as one.
HasRecords(p) == p.kind = "Kafka"

\* The types that fit, by their place in the order they are tried in.
Fits(p) == {n \in DOMAIN Parsers : Parsers[n] \in Accepted(p)}

\* Variant: a Kafka event may be empty.
DetectEmpty(p) == IF Fits(p) = {} THEN "error" ELSE Parsers[Min(Fits(p))]

\* The first type that fits decides.
Detect(p) ==
    LET first == Parsers[Min(Fits(p))]
    IN  IF Fits(p) = {} \/ (first = "Kafka" /\ ~HasRecords(p)) THEN "error" ELSE first

-----------------------------------------------------------------------------
(* handle_s3_event: the key of a notification                              *)

PlusToSpace(key) == [i \in 1 .. Len(key) |-> IF key[i] = "+" THEN " " ELSE key[i]]

\* Escapes are replaced from left to right, each once; a percent sign that
\* starts none stays.
Decoded(acc, c) ==
    CASE acc.escape /\ c = "2B" -> [out |-> Append(acc.out, "+"), escape |-> FALSE]
      [] acc.escape /\ c = "25" -> [out |-> Append(acc.out, "%"), escape |-> FALSE]
      [] acc.escape /\ c = "%" -> [out |-> Append(acc.out, "%"), escape |-> TRUE]
      [] acc.escape /\ c \notin {"2B", "25", "%"} -> [out |-> acc.out \o <<"%", c>>, escape |-> FALSE]
      [] ~acc.escape /\ c = "%" -> [out |-> acc.out, escape |-> TRUE]
      [] ~acc.escape /\ c # "%" -> [out |-> Append(acc.out, c), escape |-> FALSE]

PercentDecode(key) ==
    LET read[n \in 0 .. Len(key)] ==
            IF n = 0 THEN [out |-> <<>>, escape |-> FALSE] ELSE Decoded(read[n - 1], key[n])
        end == read[Len(key)]
    IN  IF end.escape THEN Append(end.out, "%") ELSE end.out

\* Variant: the plus signs are replaced after the escapes.
KeyOfReversed(p) == PlusToSpace(PercentDecode(p.key))

KeyOf(p) == PercentDecode(PlusToSpace(p.key))

-----------------------------------------------------------------------------
VARIABLES mode,     \* telemetry mode: "logs", "metrics" or "traces"
          text,     \* logs mode: the integration type is Sqs, bodies are log lines
          payload,  \* the invocation's payload
          dlq,      \* the queue is the configured dead-letter queue
          spent,    \* its records whose retry count has reached the limit
          gone,     \* those about an object that cannot be read, for filing
          pos,      \* the next record of a queue event, 0 outside of one
          now,      \* the payload in hand, or NoBody
          done,     \* what was done: <<processing, sending or filing, its input>>
          failed,   \* history: the records whose event failed
          answer    \* "none", "ok" or "error"

given == <<mode, text, payload, dlq, spent, gone>>
vars == <<given, pos, now, done, failed, answer>>

\* Any list of records that gets to the queue handler is a queue event to it;
\* records of another kind have no body.
BodiesOf(p) == IF p.kind = "Sqs" THEN p.bodies ELSE <<>>

Init ==
    /\ mode \in {"logs", "metrics", "traces"}
    /\ text \in BOOLEAN
    /\ payload \in Payloads
    /\ text => mode = "logs"
    /\ dlq \in BOOLEAN
    /\ spent \in SUBSET (DOMAIN BodiesOf(payload))
    /\ gone \in SUBSET spent
    /\ spent # {} => dlq
    /\ pos = 0
    /\ now = payload
    /\ done = <<>>
    /\ failed = {}
    /\ answer = "none"

Pending == answer = "none" /\ now # NoBody
Kind == Detect(now)

\* The handler is done with the payload in hand.
Finished == IF pos = 0 THEN answer' = "ok" /\ now' = NoBody ELSE answer' = answer /\ now' = NoBody

\* process::* succeeds or not with everything before it as the code has it.
Processed(processing, input) ==
    /\ done' = Append(done, <<processing, input>>)
    /\ Finished
    /\ UNCHANGED <<given, pos, failed>>

\* The payload is not an event the shipper knows: the invocation fails, and
\* so it does when it is the body of a queue record.
Unknown ==
    /\ Pending
    /\ Kind = "error"
    /\ answer' = "error"
    /\ UNCHANGED <<given, pos, now, done, failed>>

\* The metrics and traces handlers take one kind and refuse the others.
OtherMode ==
    /\ Pending
    /\ mode # "logs"
    /\ Kind # "error"
    /\ IF Kind = (IF mode = "metrics" THEN "Firehose" ELSE "CloudWatchLogs")
         THEN answer' = "ok" /\ done' = Append(done, <<mode, now>>)
         ELSE answer' = "error" /\ done' = done
    /\ now' = NoBody
    /\ UNCHANGED <<given, pos, failed>>

OnS3 ==
    /\ Pending /\ mode = "logs" /\ Kind = "S3"
    /\ Processed("s3", KeyOf(now))

\* A topic's message is a notification or a line of text.
OnSns ==
    /\ Pending /\ mode = "logs" /\ Kind = "Sns"
    /\ IF "S3" \in Accepted(now.message)
         THEN Processed("s3", KeyOf(now.message))
         ELSE Processed("sns_logs", now.message)

OnRecords ==
    /\ Pending /\ mode = "logs"
    /\ Kind \in {"CloudWatchLogs", "Kinesis", "Kafka", "EcrScan"}
    /\ Processed(Kind, now)

\* The logs handler reports a Firehose event and answers as if it was done.
OnFirehose ==
    /\ Pending /\ mode = "logs" /\ Kind = "Firehose"
    /\ Finished
    /\ UNCHANGED <<given, pos, done, failed>>

LinesOf(p) == SelectSeq(BodiesOf(p), LAMBDA b : b # NoBody)

\* The bodies are shipped together as log lines, or taken one by one.  The
\* loop over records without bodies does nothing.
OnSqs ==
    /\ Pending /\ mode = "logs" /\ Kind = "Sqs"
    /\ \/ /\ text
          /\ done' = done \o [i \in 1 .. Len(LinesOf(now)) |-> <<"sqs_logs", LinesOf(now)[i]>>]
          /\ Finished
          /\ UNCHANGED pos
       \/ /\ ~text /\ BodiesOf(now) = <<>>
          /\ Finished
          /\ UNCHANGED <<pos, done>>
       \/ /\ ~text /\ BodiesOf(now) # <<>>
          /\ pos' = 1
          /\ now' = NoBody
          /\ UNCHANGED <<done, answer>>
    /\ UNCHANGED <<given, failed>>

\* The next record of a queue event, or the end of the loop.
NextBody ==
    /\ answer = "none" /\ pos > 0 /\ now = NoBody
    /\ IF pos <= Len(BodiesOf(payload))
         THEN pos' = pos + 1 /\ now' = payload.bodies[pos] /\ UNCHANGED answer
         ELSE answer' = "ok" /\ UNCHANGED <<pos, now>>
    /\ UNCHANGED <<given, done, failed>>

\* A processing call fails, and with it the handler of the payload in hand.
Failing ==
    /\ Pending /\ mode = "logs"
    /\ Kind \notin {"error", "Firehose"}
    /\ Kind = "Sqs" => text /\ LinesOf(now) # <<>>

\* The invocation fails with it.  A record of the dead-letter queue has
\* this end when it can be neither sent again nor filed.
Fails ==
    /\ Failing
    /\ answer' = "error"
    /\ UNCHANGED <<given, pos, now, done, failed>>

-----------------------------------------------------------------------------
(* The queue is the dead-letter queue: what becomes of a record whose      *)
(* event failed.  The loop goes on with the next one.                      *)

Record == pos - 1

\* The loop goes on.
Continue ==
    /\ failed' = failed \cup {Record}
    /\ now' = NoBody
    /\ UNCHANGED <<given, pos, answer>>

\* Variants: whatever queue the record is of; nothing is sent or filed.
RescuedAnywhere(rescue) == Failing /\ pos > 0 /\ done' = Append(done, rescue) /\ Continue
RescuedUnsent(rescue) == Failing /\ pos > 0 /\ dlq /\ done' = done /\ Continue

Rescued(rescue) ==
    /\ Failing /\ pos > 0
    /\ dlq
    /\ done' = Append(done, rescue)
    /\ Continue

RetriesUsedUp == Record \in spent

\* The record is sent to the queue again, with its retry count raised.
SendAgain ==
    /\ ~RetriesUsedUp
    /\ Rescued(<<"send", now>>)

\* s3_store_failed_event files the object a notification is about if it can
\* be read under the key as it stands in the event, and the event itself
\* otherwise.
FileFailed ==
    /\ RetriesUsedUp
    /\ IF "S3" \in Accepted(now) /\ Record \notin gone
         THEN Rescued(<<"file object", now.key>>)
         ELSE Rescued(<<"file event", now>>)

Next ==
    \/ Unknown \/ OtherMode
    \/ OnS3 \/ OnSns \/ OnRecords \/ OnFirehose \/ OnSqs
    \/ NextBody \/ Fails \/ SendAgain \/ FileFailed

Spec == Init /\ [][Next]_vars

-----------------------------------------------------------------------------
(* Properties                                                              *)

\* The processing an event is meant for.
Own(p) ==
    CASE p.kind = "S3" -> <<"s3", p.object>>
      [] p.kind = "Sns" /\ p.message.kind = "S3" -> <<"s3", p.message.object>>
      [] p.kind = "Sns" /\ p.message.kind # "S3" -> <<"sns_logs", p.message>>
      [] OTHER -> <<p.kind, p>>

\* What logs mode has to do for a payload, or for a record of a queue event:
\* its own processing, if it is an event that has one.
Due(p) ==
    IF p.kind \in {"none", "Text", "Firehose", "Object", "KafkaEmpty", "Records"}
      THEN <<>> ELSE <<Own(p)>>

Received == IF payload.kind = "Sqs" THEN payload.bodies ELSE <<payload>>

\* What has to save a record of the dead-letter queue whose event failed.
Rescue(i) ==
    LET p == Received[i]
    IN  IF i \notin spent THEN <<"send", p>>
        ELSE IF p.kind = "S3" /\ i \notin gone THEN <<"file object", p.key>>
        ELSE <<"file event", p>>

Outcome(i) == IF i \in failed THEN <<Rescue(i)>> ELSE Due(Received[i])

\* In logs mode an invocation that answers ok has done one thing for every
\* event it received, nested or not and in the order of the records: passed
\* it to its own processing, an S3 notification's object under the name the
\* object has in S3 whatever characters are in it, or, if that failed, sent
\* it to the dead-letter queue again or filed it when its retries are used up.
OwnProcessing ==
    (mode = "logs" /\ ~text /\ answer = "ok") =>
        done = FlattenSeq([i \in 1 .. Len(Received) |-> Outcome(i)])

\* A failure is made good only in the dead-letter queue: every other
\* invocation that answers ok had none.
OnlyTheDlqRescues == answer = "ok" => failed = {} \/ dlq

\* An invocation that carries a payload of no known kind does not answer ok
\* (a text body on a queue of log lines is no event).  What passes is a
\* queue's empty records and, in logs mode, a Firehose event and a list of
\* records of another service: the two are taken for events without content.
UnknownIsRefused ==
    answer = "ok" =>
        /\ payload.kind \notin {"Text", "Object", "KafkaEmpty"}
        /\ payload.kind = "Records" => mode = "logs"
        /\ payload.kind = "Sqs" /\ ~text =>
               \A i \in 1 .. Len(payload.bodies) :
                   payload.bodies[i].kind \notin {"Text", "Object", "KafkaEmpty"}

\* Known events are processed as what they are, those of the dead-letter
\* queue that fail are saved, and unknown ones are refused, except for the
\* lists of records that the logs mode cannot tell from a queue's.
EventsAreProcessed == OwnProcessing /\ OnlyTheDlqRescues /\ UnknownIsRefused
=============================================================================
