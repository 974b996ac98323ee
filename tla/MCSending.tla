----------------------------- MODULE MCSending -----------------------------
(***************************************************************************)
(* The loops that cut a list to size, for TLC in one run: one of them      *)
(* runs, the others stay in an initial state.                              *)
(***************************************************************************)
EXTENDS Sending

VARIABLE loop                                 (* the one that runs           *)

(* Spans of two resources, small, large and oversized. *)
Spans ==
  [ json : {TRUE}, end : {"time"}, ids : {"good"}, parent : {"none"},
    resource : 1 .. 2, size : {1, 2, 5} ]

(* Every combination of the fields that decide what a record is. *)
Records ==
  [ json : BOOLEAN, end : {"none", "time", "other"}, ids : {"good", "bad"},
    parent : {"none", "good", "bad", "other"}, resource : {1}, size : {1} ]

TraceInput == Spans \cup Records

MCInit ==
  /\ loop \in {"batching", "otlp", "traces"}
  /\ IF loop = "batching" THEN Init ELSE size = <<>> /\ target = 0 /\ Init
  /\ IF loop = "otlp" THEN O!Init ELSE log = <<>> /\ O!Init
  /\ IF loop = "traces" THEN Trace!Init ELSE records = <<>> /\ Trace!Init
  (* Records that are no spans come in batches of at most two. *)
  /\ Len(records) > 2 => \A i \in 1 .. Len(records) : records[i] \in Spans

MCVars == <<loop, vars, otlp, traces>>

Batching == loop = "batching" /\ Next /\ UNCHANGED <<loop, otlp, traces>>
Otlp     == loop = "otlp" /\ O!Next /\ UNCHANGED <<loop, vars, traces>>
Traces   == loop = "traces" /\ Trace!Next /\ UNCHANGED <<loop, vars, otlp>>

MCNext == Batching \/ Otlp \/ Traces

(* The loop runs on; the transport's retry budget ends every send. *)
MCSpec == MCInit /\ [][MCNext]_MCVars /\ WF_MCVars(MCNext)

-----------------------------------------------------------------------------
(* Halving and cutting come to an end, and what was asked for is answered: *)
(* a list of one log or span, however large, is not halved for ever.       *)
LoopsEnd ==
  <> CASE loop = "batching" -> returned
       [] loop = "otlp"     -> answer # "none"
       [] loop = "traces"   -> spansAnswer # "none"
=============================================================================
