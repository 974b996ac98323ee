------------------------------ MODULE MCMetrics ------------------------------
(***************************************************************************)
(* The metrics mode, for TLC in one run: the cache of tagged resources,    *)
(* the lookup of a metric among them, and the Firehose event.  One of them *)
(* runs, the others stay in an initial state.                              *)
(***************************************************************************)
EXTENDS MetricsMode

VARIABLE part                                 (* the one that runs           *)

(* A broker, an instance of it, and another dimension that shares names.   *)
DimensionValues == [Broker |-> {"b", "b-1"}, Zone |-> {"b", "b-1", "z"}]
Stems == [v \in {"b", "b-1", "z"} |-> IF v = "b-1" THEN "b" ELSE v]

MCInit ==
  /\ part \in {"cache", "firehose", "lookup"}
  /\ IF part = "cache" THEN Init
     ELSE enabled = FALSE /\ lenient = FALSE /\ ns = (CHOOSE n \in Namespace : TRUE) /\ Init
  /\ IF part = "firehose" THEN F!Init ELSE batching = FALSE /\ event = <<>> /\ F!Init
  /\ IF part = "lookup" THEN A!Init ELSE mq = FALSE /\ regexes = <<>> /\ resources = <<>> /\ metric = <<>> /\ A!Init

MCVars == <<part, vars, firehose, lookup>>

Enriching == part = "cache" /\ Next /\ UNCHANGED <<part, firehose, lookup>>
Event     == part = "firehose" /\ F!Next /\ UNCHANGED <<part, vars, lookup>>
LookingUp == part = "lookup" /\ A!Next /\ UNCHANGED <<part, vars, firehose>>

MCNext == Enriching \/ Event \/ LookingUp

MCSpec == MCInit /\ [][MCNext]_MCVars
=============================================================================
