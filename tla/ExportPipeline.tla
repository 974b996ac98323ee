--------------------------- MODULE ExportPipeline ---------------------------
(***************************************************************************)
(* The concurrent part of process_batches and process_batches_with_meta    *)
(* (src/src/logs/coralogix.rs): the batches of one invocation are streamed *)
(* through buffer_unordered, each one is converted, transformed and sent,  *)
(* and every export call takes a permit of one semaphore shared by the     *)
(* whole pipeline.  When the script runs after the metadata step and the   *)
(* exporter is REST, a transformed batch is cut again into chunks that are *)
(* sent concurrently; otherwise a batch is one chunk, or none if the       *)
(* script dropped all of its logs.                                         *)
(*                                                                         *)
(* A chunk is one export call.  The pipeline is a single future, so the    *)
(* interleaving is that of the I/O completions, which may come in any      *)
(* order.                                                                  *)
(***************************************************************************)
EXTENDS Naturals, FiniteSets

CONSTANTS
  MaxBatches,        (* most batches an invocation is cut into              *)
  MaxChunks,         (* most chunks one transformed batch is cut into       *)
  Concurrency,       (* BATCHES_MAX_CONCURRENCY                             *)
  AfterMetadata,     (* STARLARK_TRANSFORM_AFTER_METADATA with a script set *)
  Rest               (* the exporter is the REST one                        *)

ASSUME ConstantsAssumption ==
  /\ MaxBatches \in Nat
  /\ MaxChunks \in Nat \ {0}
  /\ Concurrency \in Nat
  /\ AfterMetadata \in BOOLEAN
  /\ Rest \in BOOLEAN

VARIABLES
  total,     (* number of batches of this invocation                        *)
  pulled,    (* batches 1..pulled have been taken from the stream           *)
  batch,     (* state of each batch's future                                *)
  chunk,     (* state of each export call                                   *)
  permits,   (* free permits of the shared semaphore                        *)
  answer     (* result of the pipeline                                      *)

vars == <<total, pulled, batch, chunk, permits, answer>>

Batch == 1 .. MaxBatches
Chunk == Batch \X (1 .. MaxChunks)

BatchState == {"queued", "converting", "sending", "ok", "err"}
ChunkState == {"none", "waiting", "inflight", "acked", "refused"}

(* Variant: the configured limit as it is, zero included. *)
LimitAsConfigured == Concurrency

(* The configured limit, never below one: batches_max_concurrency.max(1). *)
Limit == IF Concurrency = 0 THEN 1 ELSE Concurrency

(* post_metadata_rebatch_for_rest *)
Rebatch == AfterMetadata /\ Rest

(* How many chunks a converted batch may become.  Only a script that runs  *)
(* here can empty a batch, and only the REST path cuts it further.         *)
ChunkCounts ==
  (IF AfterMetadata THEN {0} ELSE {}) \cup (IF Rebatch THEN 1 .. MaxChunks ELSE {1})

Open     == {b \in Batch : batch[b] \in {"converting", "sending"}}
InFlight == {c \in Chunk : chunk[c] = "inflight"}
ChunksOf(b) == {c \in Chunk : c[1] = b /\ chunk[c] # "none"}

TypeOK ==
  /\ total \in 0 .. MaxBatches
  /\ pulled \in 0 .. total
  /\ batch \in [Batch -> BatchState]
  /\ chunk \in [Chunk -> ChunkState]
  /\ permits \in 0 .. Limit
  /\ answer \in {"none", "ok", "err"}

-----------------------------------------------------------------------------
(* Blank logs are filtered, the pre-metadata script has run and the logs   *)
(* are batched; an invocation with nothing left has no batch at all.       *)
Init ==
  /\ total \in 0 .. MaxBatches
  /\ pulled = 0
  /\ batch = [b \in Batch |-> "queued"]
  /\ chunk = [c \in Chunk |-> "none"]
  /\ permits = Limit
  /\ answer = "none"

(* buffer_unordered polls the stream for another batch only while fewer    *)
(* than Limit futures are pending.                                         *)
Pull ==
  /\ answer = "none"
  /\ pulled < total
  /\ Cardinality(Open) < Limit
  /\ pulled' = pulled + 1
  /\ batch' = [batch EXCEPT ![pulled + 1] = "converting"]
  /\ UNCHANGED <<total, chunk, permits, answer>>

(* convert_to_processed_log, transform_processed_logs_after_metadata (a    *)
(* failing script passes its log through, so this cannot fail) and the     *)
(* cut of send_transformed_batch: every chunk queues for a permit.         *)
Convert(b) ==
  /\ batch[b] = "converting"
  /\ \E k \in ChunkCounts :
       /\ batch' = [batch EXCEPT ![b] = IF k = 0 THEN "ok" ELSE "sending"]
       /\ chunk' = [c \in Chunk |->
                      IF c[1] = b /\ c[2] <= k THEN "waiting" ELSE chunk[c]]
  /\ UNCHANGED <<total, pulled, permits, answer>>

(* Variant: every batch has a semaphore of its own. *)
AcquireOwnBudget(c) ==
  /\ chunk[c] = "waiting"
  /\ Cardinality({d \in InFlight : d[1] = c[1]}) < Limit
  /\ chunk' = [chunk EXCEPT ![c] = "inflight"]
  /\ UNCHANGED <<total, pulled, batch, permits, answer>>

(* acquire_owned of the shared semaphore, then the export call starts. *)
Acquire(c) ==
  /\ chunk[c] = "waiting"
  /\ permits > 0
  /\ permits' = permits - 1
  /\ chunk' = [chunk EXCEPT ![c] = "inflight"]
  /\ UNCHANGED <<total, pulled, batch, answer>>

(* Variant: the permit is given back on success only. *)
ReturnKeepingPermit(c, result) ==
  /\ chunk[c] = "inflight"
  /\ permits' = IF result = "acked" THEN permits + 1 ELSE permits
  /\ chunk' = [chunk EXCEPT ![c] = result]
  /\ UNCHANGED <<total, pulled, batch, answer>>

(* The export call returns, with success or with an error; the permit is   *)
(* dropped either way.                                                     *)
Return(c, result) ==
  /\ chunk[c] = "inflight"
  /\ permits' = permits + 1
  /\ chunk' = [chunk EXCEPT ![c] = result]
  /\ UNCHANGED <<total, pulled, batch, answer>>

(* All calls of a batch have returned: its own results are collected, and  *)
(* one error makes the batch an error.                                     *)
FinishBatch(b) ==
  /\ batch[b] = "sending"
  /\ \A c \in ChunksOf(b) : chunk[c] \in {"acked", "refused"}
  /\ batch' = [batch EXCEPT ![b] =
                 IF \E c \in ChunksOf(b) : chunk[c] = "refused" THEN "err" ELSE "ok"]
  /\ UNCHANGED <<total, pulled, chunk, permits, answer>>

(* Variant: the first error ends the pipeline (try_collect). *)
CollectEarly ==
  /\ answer = "none"
  /\ \/ pulled = total /\ Open = {} /\ answer' = "ok"
     \/ (\E b \in Batch : batch[b] = "err") /\ answer' = "err"
  /\ UNCHANGED <<total, pulled, batch, chunk, permits>>

(* Variant: only the last batch's result is looked at. *)
CollectLast ==
  /\ answer = "none"
  /\ pulled = total
  /\ Open = {}
  /\ answer' = IF total > 0 /\ batch[total] = "err" THEN "err" ELSE "ok"
  /\ UNCHANGED <<total, pulled, batch, chunk, permits>>

(* The stream is exhausted and every result collected: fail if at least    *)
(* one operation failed.                                                   *)
Collect ==
  /\ answer = "none"
  /\ pulled = total
  /\ Open = {}
  /\ answer' = IF \E b \in Batch : batch[b] = "err" THEN "err" ELSE "ok"
  /\ UNCHANGED <<total, pulled, batch, chunk, permits>>

Next ==
  \/ Pull
  \/ \E b \in Batch : Convert(b) \/ FinishBatch(b)
  \/ \E c \in Chunk : Acquire(c) \/ Return(c, "acked") \/ Return(c, "refused")
  \/ Collect

Spec == Init /\ [][Next]_vars

(* The runtime polls every ready future, and each export call comes back:  *)
(* both SDK clients bound a call by a request timeout and a retry budget.  *)
Fairness ==
  /\ WF_vars(Pull)
  /\ \A b \in Batch : WF_vars(Convert(b)) /\ WF_vars(FinishBatch(b))
  /\ \A c \in Chunk : /\ WF_vars(Acquire(c))
                      /\ WF_vars(Return(c, "acked") \/ Return(c, "refused"))
  /\ WF_vars(Collect)

FairSpec == Spec /\ Fairness

-----------------------------------------------------------------------------
(* At most BATCHES_MAX_CONCURRENCY export calls are outstanding at any     *)
(* time, however batches and chunks nest (the send-budget comment of       *)
(* process_batches).                                                       *)
SendBudget == Cardinality(InFlight) <= Limit

(* The pipeline answers only when nothing is left behind: every batch was  *)
(* tried even if an earlier one failed, and no call is still queued or     *)
(* outstanding.                                                            *)
NothingAbandoned ==
  answer # "none" =>
    /\ \A b \in 1 .. total : batch[b] \in {"ok", "err"}
    /\ \A c \in Chunk : chunk[c] \notin {"waiting", "inflight"}

(* Success means that every chunk of every batch was acknowledged; an      *)
(* error means that some chunk was not.                                    *)
AnswerIsTruthful ==
  /\ answer = "ok"  => \A c \in Chunk : chunk[c] \in {"none", "acked"}
  /\ answer = "err" => \E c \in Chunk : chunk[c] = "refused"

(* Every invocation is answered, so no waiting chunk is starved of permits *)
(* and no batch future waits for another one.                              *)
EveryRunAnswers == <>(answer # "none")

(* The pipeline implements the promise of module Shipment. *)
Ship == INSTANCE Shipment WITH
  owed  <- {c \in Chunk : chunk[c] # "none"},
  acked <- {c \in Chunk : chunk[c] = "acked"}

Shipped == Ship!Spec
=============================================================================
