------------------------------- MODULE MCLogs -------------------------------
(***************************************************************************)
(* One environment of the logs mode, for TLC: one of its parts runs, the   *)
(* others stay in an initial state.                                        *)
(***************************************************************************)
EXTENDS LogsMode, FiniteSets

VARIABLE processing                          (* the one that runs           *)

(* Names of at most two pieces next to a name that looks like an escape.   *)
ObjectNames ==
  {<<"a">>, <<"a", " ">>, <<"+">>, <<"%", "2B">>, <<"%", "25", "2B">>, <<" ", "+">>}

AnObject ==
  /\ kind = "S3" /\ zipped = FALSE /\ customHeader = FALSE /\ blocking = FALSE
  /\ sampling = 1 /\ object = <<>>

(* Those at rest come first: TLC finds their one state once. *)
MCInit ==
  /\ processing \in {"cloudwatch", "s3", "stream", "scan", "dispatch", "envelope"}
  /\ processing # "dispatch" =>
       /\ mode = "logs" /\ lines = FALSE /\ payload = [kind |-> "Text"] /\ dlq = FALSE
       /\ D!Init
  /\ processing # "envelope" =>
       /\ log = [kind |-> "text", fields |-> [f \in {} |-> "scalar"]]
       /\ configured = [form |-> "static", key |-> "app", regex |-> "none"]
       /\ logMctx = {} /\ add = {} /\ customKeys = {} /\ detect = FALSE
       /\ E!Init
  /\ processing # "cloudwatch" => group = (CHOOSE g \in LogGroup : TRUE) /\ Init
  /\ processing # "s3" => AnObject /\ S3!Init
  /\ processing # "stream" =>
       source = "sqs" /\ deferred = FALSE /\ records = <<[form |-> "raw", logs |-> 1]>> /\ R!Init
  /\ processing # "scan" => findings = <<>> /\ listed = FALSE /\ counted = FALSE /\ Ecr!Init
  /\ CASE processing = "dispatch"   -> D!Init
       [] processing = "envelope"   -> E!Init /\ Cardinality(customKeys) <= 1
       [] processing = "cloudwatch" -> Init
       [] processing = "s3"         -> S3!Init
       [] processing = "stream"     -> R!Init
       [] processing = "scan"       -> Ecr!Init

MCVars == <<processing, vars, s3, stream, scan, dispatch, envelope>>

CloudWatch == processing = "cloudwatch" /\ Next /\ UNCHANGED <<processing, s3, stream, scan, dispatch, envelope>>
Object     == processing = "s3" /\ S3!Next /\ UNCHANGED <<processing, vars, stream, scan, dispatch, envelope>>
Stream     == processing = "stream" /\ R!Next /\ UNCHANGED <<processing, vars, s3, scan, dispatch, envelope>>
Scan       == processing = "scan" /\ Ecr!Next /\ UNCHANGED <<processing, vars, s3, stream, dispatch, envelope>>
Dispatch   == processing = "dispatch" /\ D!Next /\ UNCHANGED <<processing, vars, s3, stream, scan, envelope>>
Envelope   == processing = "envelope" /\ E!Next /\ UNCHANGED <<processing, vars, s3, stream, scan, dispatch>>

MCNext == CloudWatch \/ Object \/ Stream \/ Scan \/ Dispatch \/ Envelope

MCSpec == MCInit /\ [][MCNext]_MCVars
=============================================================================
