----------------------------- MODULE OtlpExport -----------------------------
(***************************************************************************)
(* OtlpGrpcExporter::export (src/src/logs/exporter/otlp.rs): one export    *)
(* call of module ExportPipeline when the exporter is OTLP.  The logs are  *)
(* halved until every request fits the size limit; only then are the       *)
(* requests sent, one after the other, and the first failure ends the      *)
(* call.  A log that is too large on its own fails the call before         *)
(* anything is sent.                                                       *)
(*                                                                         *)
(* A stretch of the list of logs stands for a batch of it.  The transport  *)
(* with its own retries is external: a send comes back accepted (with or   *)
(* without a warning), partially rejected, or failed.                      *)
(***************************************************************************)
EXTENDS Naturals, Sequences, FiniteSets, FiniteSetsExt, SequencesExt

CONSTANTS
  MaxLogs,    (* bound: most logs of one call                               *)
  Size,       (* encoded sizes of a log                                     *)
  Resource,   (* application and subsystem pairs                            *)
  Header,     (* encoded size of a resource                                 *)
  MaxRequest  (* max_request_bytes                                          *)

(* To be stated as an assumption where the module is instantiated. *)
ConstantsOK ==
  MaxLogs \in Nat /\ Size \subseteq Nat /\ Header \in Nat /\ MaxRequest \in Nat

VARIABLES
  log,       (* the logs of the call                                        *)
  pending,   (* stretches still to be measured, front first                 *)
  requests,  (* stretches that became requests                              *)
  sent,      (* number of requests accepted                                 *)
  answer     (* result of the call                                          *)

vars == <<log, pending, requests, sent, answer>>

Stretch == [from : 1 .. MaxLogs, to : 1 .. MaxLogs]
Record  == [size : Size, resource : Resource]

LogsOf(s) == s.from .. s.to

ResourcesOf(s) == {log[i].resource : i \in LogsOf(s)}

(* encoded_len of build_export_request: the logs are grouped by resource.  *)
EncodedLen(s) ==
  SumFunctionOnSet([i \in 1 .. Len(log) |-> log[i].size], LogsOf(s))
    + Header * Cardinality(ResourcesOf(s))

TooLarge(s) == EncodedLen(s) > MaxRequest

TypeOK ==
  /\ log \in Seq(Record) /\ Len(log) <= MaxLogs
  /\ pending \in Seq(Stretch)
  /\ requests \in Seq(Stretch)
  /\ sent \in 0 .. Len(requests)
  /\ answer \in {"none", "ok", "err"}

Init ==
  /\ \E n \in 0 .. MaxLogs : log \in [1 .. n -> Record]
  /\ pending = IF log = <<>> THEN <<>> ELSE <<[from |-> 1, to |-> Len(log)]>>
  /\ requests = <<>>
  /\ sent = 0
  /\ answer = "none"

-----------------------------------------------------------------------------
Measuring == answer = "none" /\ pending # <<>>

(* Variant: a request is sent as soon as it is prepared. *)
SendingEagerly == answer = "none"

Sending == answer = "none" /\ pending = <<>>

(* The front stretch fits: it is a request. *)
Prepare ==
  /\ Measuring
  /\ ~ TooLarge(Head(pending))
  /\ requests' = Append(requests, Head(pending))
  /\ pending' = Tail(pending)
  /\ UNCHANGED <<log, sent, answer>>

Left(s)  == [s EXCEPT !.to = s.from + (s.to - s.from + 1) \div 2 - 1]
Right(s) == [s EXCEPT !.from = Left(s).to + 1]

(* Variant: the halves change places. *)
HalveBackwards ==
  /\ Measuring
  /\ TooLarge(Head(pending))
  /\ Head(pending).from # Head(pending).to
  /\ pending' = <<Right(Head(pending)), Left(Head(pending))>> \o Tail(pending)
  /\ UNCHANGED <<log, requests, sent, answer>>

(* It does not, and is halved: the left half is measured next. *)
Halve ==
  /\ Measuring
  /\ TooLarge(Head(pending))
  /\ Head(pending).from # Head(pending).to
  /\ pending' = <<Left(Head(pending)), Right(Head(pending))>> \o Tail(pending)
  /\ UNCHANGED <<log, requests, sent, answer>>

(* Variants: the log is put back for later; it is left out.                *)
OversizedRequeued ==
  /\ Measuring
  /\ TooLarge(Head(pending))
  /\ Head(pending).from = Head(pending).to
  /\ pending' = Append(Tail(pending), Head(pending))
  /\ UNCHANGED <<log, requests, sent, answer>>

OversizedSkipped ==
  /\ Measuring
  /\ TooLarge(Head(pending))
  /\ Head(pending).from = Head(pending).to
  /\ pending' = Tail(pending)
  /\ UNCHANGED <<log, requests, sent, answer>>

(* One log exceeds the limit: OversizedRecord. *)
Oversized ==
  /\ Measuring
  /\ TooLarge(Head(pending))
  /\ Head(pending).from = Head(pending).to
  /\ answer' = "err"
  /\ UNCHANGED <<log, pending, requests, sent>>

(* The next request is accepted. *)
SendOk ==
  /\ Sending
  /\ sent < Len(requests)
  /\ sent' = sent + 1
  /\ UNCHANGED <<log, pending, requests, answer>>

(* It fails, or some of its logs are rejected. *)
SendErr ==
  /\ Sending
  /\ sent < Len(requests)
  /\ answer' = "err"
  /\ UNCHANGED <<log, pending, requests, sent>>

(* All are accepted. *)
Return ==
  /\ Sending
  /\ sent = Len(requests)
  /\ answer' = "ok"
  /\ UNCHANGED <<log, pending, requests, sent>>

Next == Prepare \/ Halve \/ Oversized \/ SendOk \/ SendErr \/ Return

Spec == Init /\ [][Next]_vars

-----------------------------------------------------------------------------
Stretches == requests \o pending

(* Halving neither loses, repeats nor reorders a log: what is prepared and *)
(* what is still to be measured make up the list of logs.                  *)
HalvesCoverLogs ==
  /\ Len(Stretches) = 0 <=> Len(log) = 0
  /\ \A k \in 1 .. Len(Stretches) :
       /\ LogsOf(Stretches[k]) # {}
       /\ Stretches[k].from = IF k = 1 THEN 1 ELSE Stretches[k - 1].to + 1
       /\ k = Len(Stretches) => Stretches[k].to = Len(log)

(* Nothing is sent of a batch that cannot be sent whole: with an oversized *)
(* log anywhere in it the call fails, and the retry will not duplicate the *)
(* logs before that one.  No request exceeds the limit.                    *)
ValidatedBeforeSent ==
  sent > 0 =>
    /\ \A i \in 1 .. Len(log) : \E k \in 1 .. Len(requests) : i \in LogsOf(requests[k])
    /\ \A k \in 1 .. Len(requests) : ~ TooLarge(requests[k])
    /\ \A i \in 1 .. Len(log) : ~ TooLarge([from |-> i, to |-> i])

(* Halving is complete, and nothing is sent before it is known to fit.     *)
RequestsAreSound == TypeOK /\ HalvesCoverLogs /\ ValidatedBeforeSent

(* The call implements the promise of module Shipment: it answers Ok if    *)
(* and only if every log is in a request that was accepted.                *)
Ship == INSTANCE Shipment WITH
  owed  <- 1 .. Len(log),
  acked <- UNION {LogsOf(requests[k]) : k \in 1 .. sent}

Shipped == Ship!Spec
=============================================================================
