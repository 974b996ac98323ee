----------------------------- MODULE DlqRedrive -----------------------------
(***************************************************************************)
(* The SQS branch of the logs handler (src/src/logs/mod.rs) with the AWS   *)
(* services around it, for an integration whose SQS messages carry nested  *)
(* events (any IntegrationType but Sqs) and whose dead-letter queue is     *)
(* enabled.                                                                *)
(*                                                                         *)
(* An event reaches the shipper by an asynchronous invocation, which the   *)
(* Lambda service tries AsyncAttempts times before it writes the event to  *)
(* the DLQ, or as a message of the user's own source queue.  Both queues   *)
(* are mapped to the same function.  Workers are concurrent execution      *)
(* environments of that function; each handles one batch of one queue at a *)
(* time, record after record.                                              *)
(*                                                                         *)
(* SQS: a received message is invisible for a while and comes back unless  *)
(* it is deleted; the event source mapping deletes the whole batch when    *)
(* the handler returns Ok, and nothing otherwise.  Whether the nested      *)
(* handler ships an event is its own business (module ExportPipeline):     *)
(* here it returns Ok, having shipped everything, or Err.                  *)
(***************************************************************************)
EXTENDS Naturals, FiniteSets

CONSTANTS
  Event,          (* the events                                             *)
  Poison,         (* those whose body is no event the shipper knows         *)
  Worker,         (* concurrent execution environments                      *)
  AsyncAttempts,  (* attempts of an asynchronous invocation (Lambda: 3)     *)
  SourceBatch,    (* batch size of the source queue's mapping (10)          *)
  DlqBatch,       (* batch size of the DLQ's mapping (1)                    *)
  RetryLimit,     (* DLQ_RETRY_LIMIT (3)                                    *)
  MaxFaults       (* bound: crashes, refused AWS calls, early redeliveries  *)

ASSUME ConstantsAssumption ==
  /\ Poison \subseteq Event
  /\ AsyncAttempts \in Nat \ {0}
  /\ SourceBatch \in Nat \ {0}
  /\ DlqBatch \in Nat \ {0}
  /\ RetryLimit \in Nat
  /\ MaxFaults \in Nat

VARIABLES
  accepted,  (* events given to the shipper                                 *)
  async,     (* attempts left of an event's asynchronous invocation         *)
  stored,    (* messages the two queues keep                                *)
  visible,   (* those of them that may be received                          *)
  sent,      (* number of messages ever written; the next message's id      *)
  batch,     (* messages each worker was invoked with                       *)
  done,      (* those of them it has dealt with                             *)
  failing,   (* the one, if any, whose nested handler has just failed       *)
  shipped,   (* events some handler has shipped                             *)
  archived,  (* events stored in the bucket for failed events               *)
  replays,   (* how often the nested handler ran for an event of the DLQ    *)
  faults     (* faults spent                                                *)

queues  == <<stored, visible, sent>>
workers == <<batch, done, failing>>
vars == <<accepted, async, queues, workers, shipped, archived, replays, faults>>

Queue == {"source", "dlq"}
Message == [id : Nat, event : Event, queue : Queue, retry : Nat]

BatchSize(q) == IF q = "dlq" THEN DlqBatch ELSE SourceBatch

Busy(w)    == batch[w] # {}
Handled(m) == \E w \in Worker : m \in done[w]
InHands(m) == \E w \in Worker : m \in batch[w]

TypeOK ==
  /\ accepted \subseteq Event
  /\ async \in [Event -> 0 .. AsyncAttempts]
  /\ stored \subseteq Message
  /\ visible \subseteq stored
  /\ sent \in Nat
  /\ batch \in [Worker -> SUBSET Message]
  /\ done \in [Worker -> SUBSET Message]
  /\ failing \in [Worker -> SUBSET Message]
  /\ shipped \subseteq Event
  /\ archived \subseteq Event
  /\ replays \in [Event -> Nat]
  /\ faults \in 0 .. MaxFaults

Init ==
  /\ accepted = {}
  /\ async = [e \in Event |-> 0]
  /\ stored = {} /\ visible = {} /\ sent = 0
  /\ batch = [w \in Worker |-> {}]
  /\ done = [w \in Worker |-> {}]
  /\ failing = [w \in Worker |-> {}]
  /\ shipped = {} /\ archived = {}
  /\ replays = [e \in Event |-> 0]
  /\ faults = 0

-----------------------------------------------------------------------------
(* Helpers: a new message is not receivable until its delay has passed; a  *)
(* worker whose invocation ends, well or badly, lets go of its batch.      *)
Write(e, q, r) ==
  /\ stored' = stored \cup {[id |-> sent, event |-> e, queue |-> q, retry |-> r]}
  /\ sent' = sent + 1
  /\ UNCHANGED visible

LetGo(w) ==
  /\ batch' = [batch EXCEPT ![w] = {}]
  /\ done' = [done EXCEPT ![w] = {}]
  /\ failing' = [failing EXCEPT ![w] = {}]

Fault == faults < MaxFaults /\ faults' = faults + 1

-----------------------------------------------------------------------------
(* The Lambda service's side of an asynchronous invocation.                *)
ArriveAsync(e) ==
  /\ e \notin accepted
  /\ accepted' = accepted \cup {e}
  /\ async' = [async EXCEPT ![e] = AsyncAttempts]
  /\ UNCHANGED <<queues, workers, shipped, archived, replays, faults>>

AsyncShip(e) ==
  /\ async[e] > 0 /\ e \notin Poison
  /\ shipped' = shipped \cup {e}
  /\ async' = [async EXCEPT ![e] = 0]
  /\ UNCHANGED <<accepted, queues, workers, archived, replays, faults>>

(* The attempt fails; after the last one the event goes to the DLQ. *)
AsyncFail(e) ==
  /\ async[e] > 0
  /\ async' = [async EXCEPT ![e] = @ - 1]
  /\ IF async[e] = 1 THEN Write(e, "dlq", 0) ELSE UNCHANGED queues
  /\ UNCHANGED <<accepted, workers, shipped, archived, replays, faults>>

(* The user's source queue gets a message. *)
ArriveSource(e) ==
  /\ e \notin accepted
  /\ accepted' = accepted \cup {e}
  /\ Write(e, "source", 0)
  /\ UNCHANGED <<async, workers, shipped, archived, replays, faults>>

(* A delay or a visibility timeout ends.  DelaySeconds and the timeout are *)
(* set so that this finds no worker with the message; if it does (the      *)
(* timeout equals the function's own), that is a fault.                    *)
BecomeVisible(m) ==
  /\ m \in stored \ visible
  /\ visible' = visible \cup {m}
  /\ IF InHands(m) THEN Fault ELSE UNCHANGED faults
  /\ UNCHANGED <<accepted, async, stored, sent, workers, shipped, archived, replays>>

(* The event source mapping of one queue invokes an idle worker. *)
Receive(w, B) ==
  /\ ~ Busy(w)
  /\ B # {}
  /\ \E q \in Queue : /\ \A m \in B : m.queue = q
                      /\ Cardinality(B) <= BatchSize(q)
  /\ batch' = [batch EXCEPT ![w] = B]
  /\ visible' = visible \ B
  /\ UNCHANGED <<accepted, async, stored, sent, done, failing, shipped, archived,
                 replays, faults>>

-----------------------------------------------------------------------------
(* The handler, record by record.                                          *)
ToDo(w) == IF failing[w] = {} THEN batch[w] \ done[w] ELSE {}

Replayed(m) ==
  replays' = [replays EXCEPT ![m.event] = IF m.queue = "dlq" THEN @ + 1 ELSE @]

(* The body parses and the nested handler returns Ok. *)
Ship(w, m) ==
  /\ m \in ToDo(w) /\ m.event \notin Poison
  /\ shipped' = shipped \cup {m.event}
  /\ done' = [done EXCEPT ![w] = @ \cup {m}]
  /\ Replayed(m)
  /\ UNCHANGED <<accepted, async, queues, batch, failing, archived, faults>>

(* The body parses and the nested handler returns Err. *)
Fail(w, m) ==
  /\ m \in ToDo(w) /\ m.event \notin Poison
  /\ failing' = [failing EXCEPT ![w] = {m}]
  /\ Replayed(m)
  /\ UNCHANGED <<accepted, async, queues, batch, done, shipped, archived, faults>>

(* serde_json::from_str(message)? fails: the invocation returns Err before *)
(* any of the DLQ bookkeeping.                                             *)
RejectBody(w, m) ==
  /\ m \in ToDo(w) /\ m.event \in Poison
  /\ LetGo(w)
  /\ UNCHANGED <<accepted, async, queues, shipped, archived, replays, faults>>

(* Variant: the failure is swallowed. *)
ReturnOk(w) ==
  /\ \E m \in failing[w] : m.queue # "dlq" /\ done' = [done EXCEPT ![w] = @ \cup {m}]
  /\ failing' = [failing EXCEPT ![w] = {}]
  /\ UNCHANGED <<accepted, async, queues, batch, shipped, archived, replays, faults>>

(* A failure on a message that is not from the DLQ fails the invocation. *)
ReturnErr(w) ==
  /\ \E m \in failing[w] : m.queue # "dlq"
  /\ LetGo(w)
  /\ UNCHANGED <<accepted, async, queues, shipped, archived, replays, faults>>

(* Variants: one retry early; the result of s3_store_failed_event is not   *)
(* looked at, and it has stored nothing.                                   *)
ArchiveEarly(w) ==
  /\ \E m \in failing[w] :
       /\ m.queue = "dlq" /\ m.retry + 1 >= RetryLimit
       /\ archived' = archived \cup {m.event}
       /\ done' = [done EXCEPT ![w] = @ \cup {m}]
  /\ failing' = [failing EXCEPT ![w] = {}]
  /\ UNCHANGED <<accepted, async, queues, batch, shipped, replays, faults>>

ArchiveUnchecked(w) ==
  /\ \E m \in failing[w] :
       /\ m.queue = "dlq" /\ m.retry >= RetryLimit
       /\ done' = [done EXCEPT ![w] = @ \cup {m}]
  /\ failing' = [failing EXCEPT ![w] = {}]
  /\ UNCHANGED <<accepted, async, queues, batch, shipped, archived, replays, faults>>

(* Retries are exhausted: s3_store_failed_event succeeds. *)
Archive(w) ==
  /\ \E m \in failing[w] :
       /\ m.queue = "dlq" /\ m.retry >= RetryLimit
       /\ archived' = archived \cup {m.event}
       /\ done' = [done EXCEPT ![w] = @ \cup {m}]
  /\ failing' = [failing EXCEPT ![w] = {}]
  /\ UNCHANGED <<accepted, async, queues, batch, shipped, replays, faults>>

(* Variants: the copy is sent and the invocation fails all the same; the   *)
(* copy keeps the old count.                                               *)
ResendAndFail(w) ==
  /\ \E m \in failing[w] :
       /\ m.queue = "dlq" /\ m.retry < RetryLimit
       /\ Write(m.event, "dlq", m.retry + 1)
  /\ LetGo(w)
  /\ UNCHANGED <<accepted, async, shipped, archived, replays, faults>>

ResendUncounted(w) ==
  /\ \E m \in failing[w] :
       /\ m.queue = "dlq" /\ m.retry < RetryLimit
       /\ Write(m.event, "dlq", m.retry)
       /\ done' = [done EXCEPT ![w] = @ \cup {m}]
  /\ failing' = [failing EXCEPT ![w] = {}]
  /\ UNCHANGED <<accepted, async, batch, shipped, archived, replays, faults>>

(* Retries are left: a copy with the next retry count goes to the DLQ. *)
Resend(w) ==
  /\ \E m \in failing[w] :
       /\ m.queue = "dlq" /\ m.retry < RetryLimit
       /\ Write(m.event, "dlq", m.retry + 1)
       /\ done' = [done EXCEPT ![w] = @ \cup {m}]
  /\ failing' = [failing EXCEPT ![w] = {}]
  /\ UNCHANGED <<accepted, async, batch, shipped, archived, replays, faults>>

(* Variant: the refusal is logged and the next record taken. *)
RescueRefusedIgnored(w) ==
  /\ \E m \in failing[w] : m.queue = "dlq" /\ done' = [done EXCEPT ![w] = @ \cup {m}]
  /\ Fault
  /\ failing' = [failing EXCEPT ![w] = {}]
  /\ UNCHANGED <<accepted, async, queues, batch, shipped, archived, replays>>

(* put_object or send_message is refused: the invocation returns Err. *)
RescueRefused(w) ==
  /\ \E m \in failing[w] : m.queue = "dlq"
  /\ Fault
  /\ LetGo(w)
  /\ UNCHANGED <<accepted, async, queues, shipped, archived, replays>>

(* Every record is dealt with: Ok, and the mapping deletes the batch. *)
Complete(w) ==
  /\ Busy(w) /\ batch[w] = done[w]
  /\ stored' = stored \ batch[w]
  /\ visible' = visible \ batch[w]
  /\ LetGo(w)
  /\ UNCHANGED <<accepted, async, sent, shipped, archived, replays, faults>>

(* The invocation runs into its timeout, or the environment dies. *)
Crash(w) ==
  /\ Busy(w)
  /\ Fault
  /\ LetGo(w)
  /\ UNCHANGED <<accepted, async, queues, shipped, archived, replays>>

-----------------------------------------------------------------------------
Step(w) == \E m \in batch[w] : Ship(w, m) \/ Fail(w, m) \/ RejectBody(w, m)
Dispose(w) == ReturnErr(w) \/ Archive(w) \/ Resend(w)

Next ==
  \/ \E e \in Event : ArriveAsync(e) \/ ArriveSource(e) \/ AsyncShip(e) \/ AsyncFail(e)
  \/ \E m \in stored : BecomeVisible(m)
  \/ \E w \in Worker : \/ \E B \in SUBSET visible : Receive(w, B)
                       \/ Step(w) \/ Dispose(w)
                       \/ RescueRefused(w) \/ Complete(w) \/ Crash(w)

Spec == Init /\ [][Next]_vars

(* The Lambda service keeps trying; delays and visibility timeouts end; a  *)
(* message that is receivable again and again is received; an invocation   *)
(* that does not crash proceeds.  No fairness makes the exporter succeed.  *)
Fairness ==
  /\ \A e \in Event :
       /\ WF_vars(AsyncShip(e) \/ AsyncFail(e))
       /\ WF_vars(\E m \in stored : m.event = e /\ ~ InHands(m) /\ BecomeVisible(m))
       /\ SF_vars(\E w \in Worker, B \in SUBSET visible :
                    (\E m \in B : m.event = e) /\ Receive(w, B))
  /\ \A w \in Worker : WF_vars(Step(w)) /\ WF_vars(Dispose(w)) /\ WF_vars(Complete(w))

FairSpec == Spec /\ Fairness

-----------------------------------------------------------------------------
Settled == shipped \cup archived
Held    == {e \in Event : async[e] > 0 \/ \E m \in stored : m.event = e}

(* No interleaving of attempts, redeliveries, crashes and refused calls    *)
(* loses an event: until it is shipped or archived, the Lambda service or  *)
(* a queue still has it.                                                   *)
NoEventLost == accepted \subseteq Settled \cup Held

(* An event is archived only after the nested handler has failed on it     *)
(* more than DLQ_RETRY_LIMIT times since it entered the DLQ.               *)
ArchivedOnlyExhausted == \A e \in archived : replays[e] > RetryLimit

(* As long as nothing crashes, no call is refused and no message comes     *)
(* back early, the retry loop keeps one live copy of an event: sending the *)
(* next copy and deleting the last one behave like one move.  It relies on *)
(* the DLQ's mapping having batches of one message (configure_dlq).        *)
OneLiveCopy ==
  faults = 0 => \A m, n \in stored :
    m.event = n.event => m = n \/ Handled(m) \/ Handled(n)

(* Under the same conditions an event of the DLQ is tried once more than   *)
(* the configured limit, and no more.                                      *)
ReplaysBounded == faults = 0 => \A e \in Event : replays[e] <= RetryLimit + 1

(* The README's reading of DLQ_RETRY_LIMIT: the number of times a failed   *)
(* event is retried before it is saved in S3.                              *)
RetriesAsDocumented == faults = 0 => \A e \in Event : replays[e] <= RetryLimit

InDlq(e) == \E m \in stored : m.event = e /\ m.queue = "dlq"

(* Every event of the DLQ that the shipper can parse is shipped or         *)
(* archived in the end, however long the exporter stays down and whatever  *)
(* else, unparsable messages included, keeps the workers busy.             *)
ParsableEventsSettle == \A e \in Event \ Poison : InDlq(e) ~> e \in Settled

(* The README's reading: an event that fails is retried a number of times  *)
(* and then saved in the bucket, whatever made it fail.                    *)
FailedEventsSettle == \A e \in Event : InDlq(e) ~> e \in Settled

(* The queues and the handler together keep custody of every event. *)
Custody == INSTANCE EventCustody WITH held <- Held, settled <- Settled

KeepsCustody == Custody!Spec
=============================================================================
