# Coralogix AWS Shipper in TLA+

A verification development kept beside the code of the shipper: TLA+ modules
translated from `src/`, TLC runs over small instances, and theorems that TLAPS
checks for every value of the constants. `PROJECT.json` ties every definition
to the lines it models, every property to a run and to a mutant that breaks
it, and lists the hazards the properties are for.

Contents: [The system](#the-system) ·
[The modules](#the-modules) ·
[What the runs check](#what-the-runs-check) ·
[Findings](#findings) ·
[Other disagreements](#other-disagreements-seen-while-modelling) ·
[What is proved](#what-is-proved) ·
[Not modelled](#not-modelled) ·
[Plan](#plan)

## The system

The shipper is one Lambda function (Rust, `src/src`) with a custom resource
(Python, `src/custom-resource`) that wires it to its triggers. It runs in one of
three modes (logs, metrics, traces). A Lambda environment handles one
invocation at a time; what is concurrent is the I/O inside an invocation, the
environments among themselves, and the queues.

| Component | State it keeps | Operations | What makes it correct | Module |
|---|---|---|---|---|
| Event dispatch (`events.rs`, `logs/mod.rs`) | none | try the event kinds in turn, call a processing function, send a failed event of the DLQ again or file it | an event gets its own processing, an S3 object under its own name, or is saved; unknown events are refused, lists of records apart | `EventDispatch` |
| SQS handler and DLQ (`logs/mod.rs`, `configure_dlq`) | retry count in a message attribute; messages in SQS; objects in the bucket | per record: parse, call the handler, then resend with the next count, or store in S3, or fail | no event lost between queue, handler and bucket; stored only when retries are exhausted; the retry loop is bounded and does not multiply messages; every event settles | `DlqRedrive` |
| Record metadata (`logs/process.rs`) | `MetadataContext` shared by the records of an invocation | write a record's keys, snapshot or read them, ship at the end | a log carries what its own record wrote and nothing of a later one; all records are shipped or none | `RecordMetadata` |
| Log group tags (`logs/process.rs`) | cache for the life of the environment | look up, drop when expired, fetch, store | tags are recent; a failure is not remembered; the API is spared | `TagCache` |
| S3 objects (`logs/process.rs`) | none | download, decompress, split, parse, block, sample | the right logs, whatever the kind and wherever an archive breaks off | `S3Object` |
| ECR scans (`logs/ecr.rs`) | none | fetch the findings, loop over attributes | findings do not leak into each other; a page is reported completely | `EcrScan` |
| Names, envelope, severity (`logs/coralogix.rs`) | none | resolve templates, attach metadata and tags, grade | nothing of the log is lost; metadata exactly as configured | `LogEnvelope` |
| Batching (`into_batches_by_estimated_size_limit`) | open batch and its size | cut a list of logs by estimated size | complete, in order, within the target | `LogBatching` |
| Export pipeline (`process_batches*`, `send_transformed_batch`) | pending batch futures, one semaphore | convert, transform, cut again for REST, send, collect | bounded number of calls, no deadlock, truthful answer | `ExportPipeline` |
| Script source (`logs/config.rs`) | none | tell the form, assume a role, download | whole, of bounded size, read as the right identity | `ScriptSource` |
| Script cache (`resolve_cached_transformer`) | `CACHED_TRANSFORMER` behind a mutex, for the life of the environment | fetch, compile, remember success or failure | one fetch at a time, bounded waiting, bounded fetch rate, success is final | `TransformerCache` |
| Script results (`logs/transform.rs`, `logs/coralogix.rs`) | cache of compiled patterns, for the life of the environment | parse, evaluate, collect | each log its own results; a failure leaves the log as it is | `ScriptTransform`, `RegexCache` |
| OTLP exporter (`exporter/otlp.rs`) | none between calls | halve until each request fits, then send one after the other | nothing sent unless everything can be; truthful answer | `OtlpExport` |
| REST exporter (`exporter/rest.rs`) | none | one SDK call | error passed on | in `ExportPipeline` |
| Metrics (`metrics/process.rs`) | open batch | split records, transform, batch by encoded size, flush | every message posted, once and in order, before Firehose is answered Ok | `MetricsFirehose` |
| Tag enrichment (`metrics/tag_enrichment.rs`) | a file per namespace with a TTL, a cache per event | fetch, cache, associate metric to resource | right resource's tags; stale only as a fallback; whole files | `ResourceCache`, `Associator` |
| Traces (`traces/mod.rs`) | none | map records to spans, halve, send | no span lost or put under another resource, partial rejection is an error | `TraceExport` |
| S3 notifications (`custom-resource/index.py`) | notification configurations, permissions | create, update, delete | its own entries added and removed, others' left alone | `BucketNotifications` |
| Start-up (`main.rs`, the configurations, `clients.rs`) | none | read the environment, resolve the key, assume the role, build the exporter | credentials go where they belong, or nothing runs | `StartUp` |

How they interact. Lambda, or an event source mapping, invokes the handler;
the handler decodes the event, collects logs with their metadata and gives them
to the pipeline; the pipeline cuts them into batches, asks the script cache for
the transformer and sends through an exporter; the pipeline's `Result` is the
handler's. Only that answer is visible outside: on `Err` Lambda tries an
asynchronous invocation again and finally writes the event to the DLQ, whose
mapping invokes the same function again. So the modules form three layers, each
relying on the promise of the one below: `DlqRedrive` on "the nested handler
returns Ok having shipped everything, or Err", which is `Shipment`;
`ExportPipeline` implements `Shipment` given exports that succeed or fail; and
`OtlpExport`, one such export, implements `Shipment` again. So do the two other
modes, `MetricsFirehose` for the posts of an event and `TraceExport` for the
spans of a batch.

What is hard here: completions of concurrent calls in any order under a nested
concurrency limit; early returns in loops with effects already made; crashes between a
send and a delete; redelivery; a mutex held across a fetch that can hang; state that
outlives an invocation; one mutable context behind many records; a configuration that
is read, changed and written back. `PROJECT.json` lists each hazard at its line.

## The modules

**`Shipment`** (abstract). What one run of the log pipeline promises: it learns
what it owes, the exporter acknowledges part of it, and it answers once, `ok`
if and only if everything owed has been acknowledged.

**`ExportPipeline`** (`logs/coralogix.rs`). `pulled`, `batch` are the stream and
its futures, `chunk` the export calls, `permits` the semaphore, `answer` the
result. `Pull` is `buffer_unordered` polling for another batch, `Convert`
everything up to the permits, `Acquire` and `Return` an export call,
`FinishBatch` the inner and `Collect` the outer collection of results.
`process_batches` and `process_batches_with_meta` share this code line by line;
the module stands for both. The script's failure passes a log through, so
converting cannot fail; it can leave a batch without logs, which is sent
nowhere.

**`LogBatching`** (`logs/coralogix.rs`). One step per iteration of the loop that
cuts the list, over every list and target of the instance; logs are known by
position. `FewestBatches` compares the greedy cut with every in-order cut.

**`OtlpExport`** (`exporter/otlp.rs`). The deque of the halving loop as stretches
of the list of logs (`pending`, `requests`), then the sequential sends. A
request's encoded size is the sum of its logs and of one header per distinct
resource, so halving does not halve the size exactly. The SDK's retries inside
one send are external: a send is accepted, or it is not.

**`EventCustody`** (abstract). Somebody holds every event until it is shipped or
archived; delivery is at least once.

**`DlqRedrive`** (`logs/mod.rs`, with Lambda and SQS). `stored`/`visible` are the
messages of the source queue and the DLQ with their `retry` attribute; `batch`,
`done`, `failing` are the loop over records of each environment; `async` counts
Lambda's attempts of an asynchronous invocation. `Ship`, `Fail`, `RejectBody`
are the three outcomes of a record; `ReturnErr`, `Archive`, `Resend`,
`RescueRefused` the branches after a failure; `Complete` is `Ok(())` and the
mapping's deletion of the batch. `Crash` is the invocation's timeout or a lost
environment at any point. Actions of AWS are external, from the template and the
documented behaviour of an event source mapping (`template.yaml`, DLQ and SQS
sections; `configure_dlq` creates the DLQ's mapping with `BatchSize=1`). `replays`
counts nested handler calls for the properties.

**`TransformerCache`** (`logs/transform.rs`). `queue` and `holder` are the mutex (Tokio's
is fair), `cache`/`failedAt` the `CacheState`, `now` a bounded clock. `UseCache`
answers from the cache, `BeginResolve` keeps the lock across fetch and
compilation, `Fetched` is the border between the two, `CompileOk`, `ResolveErr`,
`ResolveTimeout` end them. Only the fetch is under the timer; the compilation
takes up to `MaxCompile`, which stands for the time of the script's top level. Time
does not pass while a free lock is waited for or an expired timer is pending:
those take no time in comparison with the 30 and 60 seconds of the constants.

**`EventDispatch`** (`events.rs`, the three handlers). `payload` is what an
invocation carries, a tree of events in topics and queues; `hand` and `pos` are
the event being processed and its place in a queue. `Detect` is
`Combined::deserialize`: the first of its types that accepts the payload.
`OnS3` to `OnSqs` are the branches of the handler, `KeyOf` the two passes in
which it decodes a key. A nested event that fails ends the invocation, or, if the queue
is the dead-letter queue (`dlq`), leads to `SendAgain` or, for a record whose retries are
used up (`spent`), to `FileFailed`, which is `s3_store_failed_event`; then the loop goes
on and the invocation may still answer ok. `failed` is a history of those records.
How the retry count gets from one copy of a message to the next is `DlqRedrive`'s part.
The kind `Records` is a list of records of a service the shipper does not know: all
fields of a queue record are optional, so it parses as a queue event without bodies. The
logs mode answers it with ok and ships nothing, on its own or nested; the other modes
refuse it. The property says so.

**`RecordMetadata`** (`process.rs`). `mctx` is the shared context, a value named by
the record it describes; `ReadKinesis`, `ReadSqs`, `ReadKafka` write it, the
first two take the snapshot, `TransformSqs`, `TransformKafka` and `Fail` are the
script's turn, `Ship` the hand-over after all records.

**`TagCache`** (`process.rs`, `fetch_log_group_tags`). Invocations of one environment,
one after the other. Tags may change at any tick, so they are named by the time
they were read. The check, the API call and the storing are steps of their own,
as the code's two locks are.

**`S3Object`** (`process.rs`, `s3`). A text is a sequence of marks; a log is the part
of the text it was made of, with its place. `Download` to `Unreadable` get the
text, `ParseLines`, `ParseRows`, `ParseCloudTrail` take it apart, `Select` blocks
and samples. A broken archive gives any prefix of its text.

**`EcrScan`** (`ecr.rs`). One attribute per step, since a finding's package is
searched among its attributes in variables outside the loop.

**`LogEnvelope`** (`coralogix.rs`, `MetadataContext::evaluate`). `Name` resolves the
configured name, `Wrap` builds the body and attaches metadata and tags in the
order of the code, `Grade` finds the severity. Values are known by where they
come from, a regular expression by how it fares.

**`ScriptSource`** (`config.rs`). Forms of `STARLARK_SCRIPT`, the assumed role, the
download in chunks, whose end is told by a length, by a last chunk, or only by the
connection being closed: in the last case a part cannot be told from the whole.
What it gives is what `TransformerCache` remembers.

**`ScriptTransform`** (`transform.rs`, `coralogix.rs`). `Evaluate` runs the script on
one log after the other; `Collect` makes bodies of the results at either stage,
before the metadata from texts or after it from bodies. The interpreter is a
choice among what a script may do.

**`RegexCache`** (`transform.rs`). The map `entries` and the list `order` of compiled
patterns; `newer` is history, the patterns compiled since.

**`MetricsFirehose`** (`metrics/process.rs`). `rec` and `msg` are the loops, `batch` is
`aggregated_opt`, `posts` what the endpoint answered. A message either transforms
(to a size), is garbled, or fails for its tags.

**`ResourceCache`** (`tag_enrichment.rs`). `tags` is the cache of the event, `file` and
`tmp` are the files of the environment, which survive events; the write of a file
is three steps, and `CutOff` may come between any two. A list of resources is
named by the time its first page was read.

**`Associator`** (`tag_enrichment.rs`). One lookup, over every service, list of
resources and metric of the instance, with the signature the code computes and the
suffix of an Amazon MQ broker's instance. The hash of a string stands for the string.

**`TraceExport`** (`traces/mod.rs`). `Map` is `to_resource_spans` with the counts of
unmappable records, `Prepare` and `Halve` the loop of `split_requests`,
`SendOk`, `SendErr` the sends.

**`BucketNotifications`** (`index.py`, `ConfigureS3Integration`). One step per AWS call,
each of which may fail; invocations that are repeated from the start; requests that
are skipped because a topic or queue feeds the shipper; other owners who write at any
time. `got` is the configuration in hand between read and write,
`kept` what the other owners want.

**`StartUp`** (`main.rs`, `config.rs`, `metrics/config.rs`, `traces/mod.rs`,
`clients.rs`, `exporter/mod.rs`). The three loaders, the headers one by one, the key,
the role, the exporter. A value of the environment is known by what the code
distinguishes: unset, blank, padded, valid, invalid; the API key as a key or an ARN,
padded or not. `ArnIsNoKey` says what each mode makes of a blank or padded key.

**`MC*`** instantiate the modules for TLC. `MCDlqRedrive` adds worker symmetry for
the safety run, `MCExportPipeline` a second pipeline with the limit zero. The
other five extend the compositions below: a variable chooses the component that
runs, and the others stay in an initial state. Nothing is lost by that: between
two calls these components share no variable, and where one calls another the
caller's module has the callee's outcomes.

**`Sending`, `Scripting`, `LogsMode`, `MetricsMode`, `Deployment`** put the
components of one stage of the shipper together: what is cut to size and sent, the
script from its source to its results, from an event to its logs, the metrics
mode, the custom resource and the start. Each extends the component whose state
lasts longest, has the others as instances, states their assumptions
(`ConstantsOK` of the instance) and names the properties that the runs check and
the theorems prove: both mean the same definition.

**`*Proofs`** hold the theorems, one module per stage: `ExportPipelineProofs`,
`SendingProofs`, `DlqRedriveProofs`, `ScriptProofs`, `LogsProofs`, `MetricsProofs`,
`DeploymentProofs`. `DataFacts` holds the lemmas about data they share. Operators
whose comment says *Variant* are the mutants: a plausible slip in the definition that
follows, which no specification uses. A property of several conjuncts has a mutant for
each.

## What the runs check

| Run | Instance | Shows |
|---|---|---|
| `export_rest` | 3 batches, 2 chunks, limit 2, REST after metadata; the same with limit 0, script first | send budget, nothing abandoned, every run answers, implements `Shipment` |
| `sending` | up to 5 logs of weights 1, 2, 5 and targets 0, 3, 5, 9; OTLP calls of up to 4 logs, 3 sizes, 2 resources; batches of up to 4 spans, 3 sizes, 2 resources, or of up to 2 records of any kind, spans or with any combination of the fields that make them none | the cut is complete, in order, within the target, fewest batches; halving covers logs and spans and keeps them under their resource; nothing of a log request is sent before all is known to fit; no record is dropped unreported; the loops end; both exporters implement `Shipment` |
| `dlq_custody` | 3 events (1 unparsable), 2 environments, 1 fault, retry limit 1 | no event lost, none archived early, implements `EventCustody`; as long as the fault has not happened, one live copy and bounded replays |
| `dlq_liveness` | 2 events (1 unparsable), 1 fault | a parsable event of the DLQ settles |
| `dlq_readme_retries` | 1 event, retry limit 3 | *violated*: see findings |
| `dlq_unparsable` | 2 events (1 unparsable) | *violated*: see findings |
| `script` | 3 callers, timeout 2, compilation 1, retry 3, horizon 9, with a script and without; 6 patterns (1 invalid) in a cache of 3; 2 logs in up to 2 quotes; scripts of up to 5 bytes, 3 allowed | single flight, bounded wait, fetch rate, success is final, calls return; the map and the list of patterns agree, and one is compiled again only after as many others; each log has its own results, the body it would have without a script if it fails, and the documented form; scripts are whole, of bounded size and read as the right identity |
| `logs` | 2 log groups, TTL 2, invocations of up to 2, clock to 6; texts of up to 4 marks, sampling 0, 1, 2; up to 3 records; scans of up to 3 findings, 2 on a page; payloads of every kind, nested in topics and in queues of 2, which are the dead-letter queue or not, with any of the records out of retries or about an unreadable object; logs of 2 fields, one of them `cw.tags`, and one custom key named like the tags, the log or one of its metadata | tags are at most TTL + one invocation old and asked for once per TTL; the right logs of an object; a log has the metadata that stood when its record had been read; a scan is reported; each event gets its own processing, or is sent again or filed on the DLQ; nothing of a log is lost in its envelope |
| `metrics` | events of up to 2 records of up to 2 messages, sizes 0, 1, 3, posts of 2; 2 namespaces, 2 pages, TTL 2, invocations of up to 2, clock to 5; services of 2 regexes and 2 resources over 2 dimensions that share values | posts are complete, in order, as full as they may be, and hold metrics; the event implements `Shipment`; one fetch per event and namespace; files are whole, tags fresh unless their fetch failed, and never older than before; the most specific matching resource is found, as far as its signature tells it |
| `metrics_status` | sizes 1, 3, otherwise as above | *violated*: see findings |
| `deployment` | 2 buckets with any other notifications, 3 requests, 1 write by another owner; every environment with up to 2 headers | requests that are not raced keep others' notifications, a created stack is notified by every bucket; credentials go where they belong, keys are resolved, roles assumed, headers complete, or nothing runs |
| `bucket_notifications_delete` | the same without other writers | *violated*: see findings |

The properties of a component whose name the table of theorems or the hazards
use may be conjunctions: `TightBatches` is `WithinTarget` and `FewestBatches`,
`CacheIsSound` is `NeverTorn` and `FreshUnlessFetchFailed`, `NothingDroppedSilently`
of the traces speaks of batches that yield spans and of batches that yield none,
and so on. The
conjuncts are stated and commented one by one at the end of each module; some
take in the module's type invariant.

Bounds and why they are enough. *Pipeline*: three batches over two permits with
two chunks each let a batch wait in the stream, another wait for permits and a
third finish, and let an early, a middle and a last batch fail. *Cutting and
halving*: five logs make up to five batches, with logs that fit, fill and exceed
a target; four logs or spans of two resources are halved twice, at a border and
within a resource. *DLQ*: `MaxFaults` bounds crashes, refused calls and early
redeliveries; one fault, at any moment, already makes two copies of an event
travel, and the theorems have no bound. A retry limit of 1 makes both an archive
and a resend happen; three events of which two can share a source batch make a
batch fail in its middle. *Script*: the horizon spans three retry intervals, so a
failure is remembered, forgotten and remembered again; five valid patterns in a
cache of three evict and return; a script is below, at and above the limit.
*Logs*: the clock spans three TTLs; four marks are a version line, a header and a
row, or a line on either side of a break; three records let one be read between
two others; a page of two findings has one whose package could leak into the
next, and a third that is cut off. *Metrics*: messages fit, fill and overflow a
post, alone and across the border of records; a fetch can fail on either page and
in two events in a row. *Deployment*: a failure can hit the first or the last
bucket, of a create, an update or a deletion that follows either.

`CHECK_DEADLOCK FALSE` appears where the system really comes to rest (the
function returns, every event is settled, the stack gets no more requests) or
where the clock of the model ends.

Fairness. *Pipeline*: the runtime polls every ready future, and each export call
returns, because both SDK clients have a retry budget; nothing says it returns
successfully. `MCExportPipeline` assumes no more than that some step is taken
while one can be. *Sending*: the same for the loops. *DLQ*: Lambda keeps trying,
delays and visibility timeouts end, a message that becomes receivable again and
again is received (strong fairness: other messages may take the environments in
between), and an invocation that does not crash proceeds. No fairness favours
success, or `Crash` and the other faults. *Script cache*: time passes, timers fire
and a free lock is taken; no fetch need ever come back. A compilation ends: the
dialect has neither `while` nor recursion.

## Findings

Disagreements between the code and what the repository says of it. Each is a run
whose property is violated.

- **One retry more than configured** (`dlq_readme_retries`). README line 508:
  "The number of times a failed event should be retried before being saved in
  S3." The first DLQ delivery has no retry attribute and counts as 0, and the
  handler archives when the count it *arrived* with has reached the limit. An
  event that keeps failing is tried limit + 1 times from the DLQ (4 by default).
  `ReplaysBounded` and `ArchivedOnlyExhausted` state what the code does.
- **An unparsable DLQ message never reaches the bucket** (`dlq_unparsable`).
  README line 507 describes the bucket as the place for "all failure events
  that have exhausted retries". An event of an unknown kind fails its
  asynchronous invocations and is written to the DLQ; there
  `serde_json::from_str(message)?` (`logs/mod.rs:134`) returns before any of the
  retry bookkeeping, so it is never counted or stored. It comes back after every
  visibility timeout until SQS drops it at the end of its retention.
- **Refused metrics are dropped as delivered** (`metrics_status`).
  `coralogix_send` (`metrics/process.rs:214`) makes an error of a transport
  failure and only logs a status. An event whose posts were answered 401, 413 or
  500 succeeds, and Firehose drops its records; README line 776 describes the
  bucket as the place for "records that have failed processing".
- **Deletion stops at the first clean bucket** (`bucket_notifications_delete`).
  `delete` returns from the loop (`index.py:303`) at a bucket without Lambda
  notifications; those of the buckets behind it stay, and the answer is SUCCESS.
  CHANGELOG line 207 says that deletion removes the shipper's notification.

## Other disagreements seen while modelling

The modules have these behaviours, and no run states the opposite as its
property.

- *Untagged events are partly delivered*. README line 783 says that without
  `MetricsContinueOnResourceFailure` an invocation fails with "no Coralogix delivery
  for that batch"; messages before the one that fails may have been posted
  already (`metrics/process.rs:350`).
- *Strict mode takes stale tags*. By the same line the invocation fails if resources
  cannot be had; a cache file of any age is used first
  (`tag_enrichment.rs:443`).
- *A parent that is no string is no parent*. A comment says that an unparsable
  parent makes the record unmappable (`traces/mod.rs:171`); a `parentSpanId` that is
  a number counts as absent, and the span is sent as a root.
- *Sampling counts blank lines*. Lines of a text object are sampled before blank
  ones are left out (`process.rs:1214`), so more than one in N of the logs sent may be
  kept; README line 343 says 1 of every N.
- *The timeout covers the fetch only*. A comment says that it bounds "the whole
  resolution (S3/STS fetch + compile)" (`transform.rs:121`). It is put around
  `resolve_starlark_script` alone; `StarlarkTransformer::new` (`transform.rs:161`) runs
  after it, synchronously and with the mutex held, and evaluates the script's top level
  with no limit on steps. `WaitBounded` states what the code does: a timeout and one
  compilation.
- *Metadata is inherited within a Kinesis batch*. A comment says that "each log carries
  the metadata of the specific record that produced it" (`coralogix.rs:27`). The
  records of a batch share one context, only a CloudWatch record writes `cw.*` keys into
  it, and nothing takes them out: the snapshot of a raw record behind one
  (`process.rs:547`) still has the other record's log group and stream.
  `MetadataIsLatest` states what the code does.
- *Different labels have the same signature*. A comment calls the signature
  Prometheus's `LabelsToSignature`, "matching YACE associator" (`tag_enrichment.rs:15`).
  `hash_add` (`tag_enrichment.rs:38`) is an exclusive or without the multiplication of
  FNV: values that two dimensions share cancel out, and swapped ones are not told
  apart. An ECS service `api` of the cluster `api` is found for a metric of the service
  `web` of the cluster `web`. `BestResource` states what the code does: a resource
  known by one dimension, or by dimensions that share no value, is the right one.
- *A static name may be a path*. README line 473 says that a static name is used
  exactly; it is first looked up as a field of a JSON log (`coralogix.rs:684`).
- *Custom metadata named `message`* replaces the log it is attached to
  (`coralogix.rs:548`; README line 573).
- *Spaces around `OTLP_ENDPOINT`* are trimmed for traces and refused for logs; a comment
  says both accept the same endpoints (`traces/mod.rs:340`).
- *Spaces in `CORALOGIX_API_KEY`*. A comment says that an empty value has to mean
  "unset" everywhere and that a stray space must not select a different code path
  (`traces/mod.rs:300`). Logs and metrics take the value as it is
  (`logs/config.rs:255`, `:273`, `metrics/config.rs:38`): a blank one starts the
  function without a credential, and an ARN behind a space is not resolved
  (`main.rs:81`, `:106`) but sent as the key. The template refuses an empty `ApiKey`,
  not one of spaces. Only traces keep the promise; `StartIsSound` says so.
- *The assumed role reads log group tags, too* (`clients.rs:72`); README line 229
  says it affects only S3 and ECR.
- *Records of an unknown service are passed over* (`events.rs:57`). A list of `Records`
  that is neither of S3, SNS nor Kinesis is taken for a queue event, and its records
  have no body: the logs mode answers ok with nothing shipped, where any other unknown
  object fails with "unsupported event type".
- *A failed notification is filed under its encoded key* (`logs/mod.rs:331`), where the
  handler decodes it: the object is not found, or another one is filed.
- *Raced notifications are lost*. A comment says that other configurations are
  preserved (`index.py:309`); what another owner writes between the read and the
  write is overwritten (`index.py:234`).

## What is proved

Every safety property that a passing run checks, invariants, action properties and
refinements, is a theorem, for every value of the constants: no bound on events,
batches, workers, retries, faults, namespaces, log groups, patterns, buckets, records,
logs, spans, findings, headers or sizes. What the theorems assume of the constants is
an `ASSUME` of the module (`ConstantsAssumption`, `RegexAssumption`) or, for an
instance, of the composition (`OtlpAssumption` and the like): sizes and limits are
naturals, batch sizes and attempts positive, the buckets of a list differ, a name is a
sequence of pieces. Two theorems assume more, in their statement:
`OneLiveCopyHolds` and `ReplaysBoundedHolds` take `DlqBatch = 1`. That is the code:
`configure_dlq` creates the mapping of the DLQ with `BatchSize=1`
(`custom-resource/index.py`). With two messages in a batch, one that is handled
comes back with its neighbour that failed, and the properties are false.

**Export pipeline** (`ExportPipelineProofs`): `TypeCorrect`, `SendBudgetHolds`,
`NothingAbandonedHolds`, `AnswerIsTruthfulHolds`, `ImplementsShipment`. `SendBudget` is
not inductive: a permit could be free while `Limit` calls are outstanding. The
strengthening says that permits are conserved,
`permits + Cardinality(InFlight) = Limit`; the other parts relate a batch's state
to that of its chunks (chunks exist only from conversion on; a finished batch has
only finished chunks and is `err` exactly if one was refused) and the answer to
the batches.

**Cutting and halving** (`SendingProofs`).
- `TypeCorrect`, `InOrderHolds`, `BatchesAreTight`. A batch is closed only if the next
  log does not fit. From the first log of one batch to the first of the next the
  logs are more than fit, so every other cut begins a batch on that stretch: it
  has an element on every stair (lemma `Staircase`), hence as many batches.
- `OtlpRequestsAreSound`, `OtlpImplementsShipment`. `OtlpInv`: requests, then what is
  still to be measured, are stretches that follow each other and cover the list; a
  request fits or is one log; nothing is sent while something is unmeasured; an
  answer `ok` means that all of it was sent.
- `SpansAreKeptHolds`. `TraceInv`: the requests and what is still to be measured,
  one behind the other, have all spans of the batch, by resource and then by
  record; each group holds spans of its own resource; no list to be measured is
  empty. A
  split in the middle of a list of groups, or of the only group, keeps the
  flattening (`TwoParts`, `FlattenedConcat`).
- `SendingImplementsShipment`: the OTLP call and the batch of spans implement
  `Shipment`, each with its own account of what is owed.

**Dead-letter queue** (`DlqRedriveProofs`): `TypeCorrect`, `NoEventLostHolds`,
`ArchivedOnlyExhaustedHolds`, `KeepsCustodyHolds`, `OneLiveCopyHolds`,
`ReplaysBoundedHolds`. `NoEventLost` alone breaks at `Complete`: the batch it
deletes may hold the last copy of an event unless one knows that each handled
message was shipped, archived, or replaced by a message with a greater retry
count. With several copies alive that replacement may itself be handled, so the
argument takes, of an unsettled event's messages, one with the greatest count
(lemma `GreatestElement`): it cannot have been replaced, hence is not in the batch
(lemma `Survivor`). `ArchivedOnlyExhausted` follows from `retry <= replays`,
strictly while the message is `failing`. As long as no fault has happened
(`Calm`) the invariant `LInv` says that an event still with the Lambda service has no
message, that of two messages of an event one has been handled, that a message is
in one hand at a time, and that the live one counts as many retries as the event
has been replayed, or one less when it has just failed.

**Script** (`ScriptProofs`).
- `TypeCorrect`, `SingleFlightHolds`, `ReadyIsFinalHolds`. The caller that resolves is
  the one that holds the mutex, and it does so only while there is no compiled
  script.
- `WaitBoundedHolds`. Whoever is in the queue came after the resolution in progress
  began, and neither its fetch nor its compilation has run out; if the mutex is
  free and a resolution is needed, everybody in the queue has just come.
- `FetchRateHolds`. A resolution begins with nothing cached, an interval after the
  last failure.
- `PatternsAreKeptHolds`. The list is the age order of the
  map: whatever stands behind a pattern was compiled after it, so a pattern that
  leaves a full list has seen as many others come.
- `SourceIsSoundHolds`. The property and, step by step: nothing is returned before the
  end, only what has to be downloaded is located, and the identity is settled
  before the request.
- `ResultsAreOwnHolds`. `TransformInv`: every log evaluated has the slot its script
  makes of it, and the results are those of the slots, log by log. What parsing
  and serializing do to a text in any number of quotes is lemma `ParseFacts`;
  `FlattenedCount` counts a log's results among all of them.

**Logs mode** (`LogsProofs`).
- Tags: `TypeCorrect`, `ShippedTagsAreRecent`, `FailuresAreRetried`, `ApiIsSpared`. An
  entry is stored at most one invocation after it was read; a fetch within the TTL
  is still in the cache.
- `MetadataIsLatestHolds`. `RecordInv`: the logs, then what is collected, then what is
  still to be read follow each other in the order of records; the shared context has
  of each key what the last record read so far wrote that writes it; and a snapshot
  has what it had then.
- `EnvelopeIsFaithfulHolds`. The property is nearly inductive as it stands; the work is in
  the step that wraps: which key of the body comes from the log, from the metadata
  configured, from the tags, when their names coincide.
- `ScanIsReportedHolds`. `ScanInv`: the package in hand is one of the attributes already
  passed of this finding, and the logs are those of the findings passed, in order.
- `KeyIsDecoded`, `EventsAreProcessedHolds`. `DispatchInv`: the event in hand is the record
  before `pos`; what was done is what was to be done for the records taken before it,
  in order, which for a failed one is what has to save it; failed ones are among those
  taken, and there are none outside of the dead-letter queue; and none of those taken
  was of an unknown kind. The key's two passes undo
  the encoding of every name, with any characters that need it.
- `RightLogsHolds`. `ObjectInv`: the text is a part of the object; what was found in it
  is in the order of its lines and says the truth about its place; and once it is
  selected, a log found is shipped exactly if it is unblocked and the number of
  unblocked ones before it is a multiple of the sampling. Lines are counted by their
  newlines (`UpTo` and `UpToPlaces`), filters are the places kept (`KeptFacts`), and
  `step_by` is the multiples up to the length (`EveryNthPlaces`).

**Metrics mode** (`MetricsProofs`).
- `TypeCorrect`, `FetchedOnce`, `CacheStaysSound`, `TagsGoForward`. The properties relate
  files, tags and the event in progress, so the invariant says what the event knows
  in the middle of a fetch: its namespace is not tagged yet, the file of the
  namespace is not fresh, and what was read is no older than the event. Every file
  was written within one event of its reading, and a fresh one is no older than
  the tags in use.
- `PostsAreSoundHolds`, `EventImplementsShipment`. `FireInv`: posts and batch, one after
  the other, are the messages transformed so far; the batch fits or is a single
  message; the last post had no room for the first metrics gathered since.
- `BestResourceHolds`. `LookupInv`: a resource found is a hit of a candidate that
  precedes all others; none is found only if there is no candidate. Where no two
  dimensions share a value, equal signatures mean equal labels.

**Deployment** (`DeploymentProofs`): `TypeCorrect`, `OthersAreKept`, `CreationIsComplete`;
`StartIsSoundHolds`. The configuration in hand has what the other owners want,
unless the request was raced; the buckets the loop has passed are notified and
permitted. `StartInv` says, step by step, where telemetry goes and with what, which
headers have been read, and that nobody has assumed a role before its turn.

The lemmas on data are in `DataFacts`: least and greatest numbers, induction over
numbers, finite sets and sequences, sums over finite sets, sequences of sequences
and their flattening, quotients. The library's induction theorems take an operator
as a parameter, which these provers cannot instantiate; the lemmas here take the
*set* of the data that have the property instead (`InductionOnNat`, `InductionOnSets`,
`InductionOnSeq`, from the well-foundedness of the naturals), so inductions over data
are proved like any other. The folds and `FlattenSeq` of the community modules
and the recursive functions of the modules expand to definitions of `DataFacts`,
whose facts carry over. `SelectSeq` and `SetToSortSeq` do not (their definitions are
closed to the provers), which is why the filters a proof looks into are written with
`FlattenSeq`.

Only model-checked: the liveness properties `EveryRunAnswers`, `LoopsEnd`,
`ParsableEventsSettle` and `CallsReturn`, since fairness and `ENABLED` are outside the
prover's reach. The violated runs have counterexamples,
not theorems.

## Not modelled

- Text itself: timestamps, JSON, CSV, CloudTrail and the aws_lambda_events formats.
  `EventDispatch` has which type accepts which payload and no empty list of records (the
  handlers index the first one, `logs/mod.rs:59`, `:280`), `S3Object` marks instead of
  characters, `LogEnvelope` sources instead of values.
- The Starlark interpreter and its bounds on steps; `ScriptTransform` has what a
  script may return.
- The content of metrics (`summary` conversion, units); `MetricsFirehose` has their
  size and whether they transform.
- The retry loops inside the SDK clients (REST, OTLP) and AWS SDK, FIPS and proxies
  (`aws_runtime.rs`): external; a call succeeds or fails. For that reason the REST
  exporter is `partly` modelled. Start-up is `partly` modelled because the numbers it
  reads are constants of the other modules.
- The custom resource's SNS, SQS, Kinesis, CloudWatch and Kafka integrations: each is
  one independent AWS call per topic, stream or log group with nothing read and
  written back. The govcloud variant differs in constants.
- A DLQ message without `event_source_arn`, an unparsable `DLQ_RETRY_LIMIT` and a
  missing bucket name: errors of deployment. They fail the invocation like
  `RescueRefused`.
- SQS retention (14 days): events that stay unsettled that long are dropped by
  the queue. `NoEventLost` is about the time before.
- A failure of Lambda's own write to the DLQ.
- Hazards outside the models: credentials of an assumed role, taken once at the
  start, expire while the environment lives (`clients.rs:46`); only the first record of
  an S3 or SNS event is processed (`logs/mod.rs:280`); ECR findings behind the first
  page are not asked for (`ecr.rs:86`); a bucket that an update drops from the list
  keeps its notification, the old properties being unread (`index.py:295`); a Create
  that is repeated fails at the permission the first attempt made (`index.py:219`).

## Plan

What is left, in the order of importance.

1. `DlqRedrive` over the events of `EventDispatch`, so that which nested event fails
   its invocation is decided by the dispatch and not chosen.
2. Two custom resources of one bucket, instead of an owner who writes once.
3. Termination measures of the loops as theorems (each halving makes the lists
   shorter, each retry the distance to the limit), from which `LoopsEnd` and
   `ParsableEventsSettle` follow under the fairness stated.
