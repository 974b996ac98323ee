---------------------------- MODULE TraceExport ----------------------------
(***************************************************************************)
(* handler (src/src/traces/mod.rs): one CloudWatch batch of the aws/spans  *)
(* log group.  Records become spans, grouped by resource; the groups are   *)
(* halved until every request fits the size limit or holds one span; the   *)
(* requests are sent one after the other and the first failure ends the    *)
(* batch.                                                                  *)
(*                                                                         *)
(* A record is abstracted to the fields that decide whether it becomes a   *)
(* span, to its resource and to the encoded size of its span; a span is    *)
(* the index of its record.  The transport with its own retries is         *)
(* external.                                                               *)
(***************************************************************************)
EXTENDS Naturals, Sequences, FiniteSets, FiniteSetsExt, SequencesExt

CONSTANTS
  Input,       (* the records a batch may hold                              *)
  MaxRecords,  (* bound: most records of a batch                            *)
  MaxResource, (* bound: number of resources, in the order of their keys    *)
  Header,      (* encoded size of a resource                                *)
  MaxRequest   (* MAX_REQUEST_BYTES                                         *)

Record ==
  [ json     : BOOLEAN,                     (* the message parses           *)
    end      : {"none", "time", "other"},   (* endTimeUnixNano              *)
    ids      : {"good", "bad"},             (* its start, trace and span id *)
    parent   : {"none", "good", "bad", "other"},   (* parentSpanId          *)
    resource : 1 .. MaxResource,            (* resource_attributes          *)
    size     : Nat ]

(* To be stated as an assumption where the module is instantiated. *)
ConstantsOK == Input \subseteq Record /\ MaxRecords \in Nat /\ MaxResource \in Nat

VARIABLES
  records,     (* the batch                                                 *)
  unmappable,  (* number of records reported as not mapped                  *)
  pending,     (* lists of groups still to be measured, front first         *)
  requests,    (* lists of groups that became requests                      *)
  sent,        (* number of requests accepted                               *)
  step,        (* "map", "split" or "send"                                  *)
  answer       (* result of the batch                                       *)

vars == <<records, unmappable, pending, requests, sent, step, answer>>

Group == [resource : 1 .. MaxResource, spans : Seq(1 .. MaxRecords)]

TypeOK ==
  /\ records \in Seq(Input) /\ Len(records) <= MaxRecords
  /\ unmappable \in 0 .. Len(records)
  /\ pending \in Seq(Seq(Group))
  /\ requests \in Seq(Seq(Group))
  /\ sent \in 0 .. Len(requests)
  /\ step \in {"map", "split", "send"}
  /\ answer \in {"none", "ok", "err"}

Init ==
  /\ \E n \in 0 .. MaxRecords : records \in [1 .. n -> Input]
  /\ unmappable = 0
  /\ pending = <<>>
  /\ requests = <<>>
  /\ sent = 0
  /\ step = "map"
  /\ answer = "none"

-----------------------------------------------------------------------------
Parsed == {i \in 1 .. Len(records) : records[i].json}

(* Variant: a record without a usable end time is in progress. *)
InProgressOrOther(i) == records[i].end # "time"

(* AWS emits a span once without its end. *)
InProgress(i) == records[i].end = "none"

(* to_span; a parent that is no string counts as none. *)
BecomesSpan(i) ==
  /\ records[i].end = "time"
  /\ records[i].ids = "good"
  /\ records[i].parent # "bad"

Spans == {i \in Parsed : BecomesSpan(i)}

(* The spans of a resource, in the order of the records. *)
SpansAt(r) ==
  FlattenSeq([i \in 1 .. Len(records) |->
                IF i \in Spans /\ records[i].resource = r THEN <<i>> ELSE <<>>])

(* A group, if it has spans. *)
Part(resource, spans) ==
  IF spans = <<>> THEN <<>> ELSE <<[resource |-> resource, spans |-> spans]>>

(* to_resource_spans: a group for each resource, in their order. *)
Groups == FlattenSeq([r \in 1 .. MaxResource |-> Part(r, SpansAt(r))])

(* Records become spans; those that do not are in progress or reported. *)
Map ==
  /\ answer = "none"
  /\ step = "map"
  /\ unmappable' =
       Cardinality(Parsed) - Cardinality({i \in Parsed : InProgress(i)}) - Cardinality(Spans)
  /\ IF Spans = {}
       THEN answer' = "ok" /\ UNCHANGED <<pending, step>>
       ELSE pending' = <<Groups>> /\ step' = "split" /\ UNCHANGED answer
  /\ UNCHANGED <<records, requests, sent>>

SpansOf(groups) == FlattenSeq([g \in DOMAIN groups |-> groups[g].spans])

EncodedLen(groups) ==
  Header * Len(groups)
    + SumFunctionOnSet([i \in 1 .. Len(records) |-> records[i].size], ToSet(SpansOf(groups)))

(* Variant: a single span must fit as well. *)
FitsWhole(groups) == EncodedLen(groups) <= MaxRequest

Fits(groups) ==
  Len(SpansOf(groups)) <= 1 \/ EncodedLen(groups) <= MaxRequest

(* split_at: how many of the first n spans are in group g. *)
Taken(groups, n, g) ==
  LET before == Len(SpansOf(SubSeq(groups, 1, g - 1))) IN
  Min({Len(groups[g].spans), IF n > before THEN n - before ELSE 0})

First(groups, n) ==
  FlattenSeq([g \in DOMAIN groups |->
                Part(groups[g].resource, SubSeq(groups[g].spans, 1, Taken(groups, n, g)))])

Remaining(groups, n, g) ==
  SubSeq(groups[g].spans, Taken(groups, n, g) + 1, Len(groups[g].spans))

(* Variant: the rest of a group that is split goes to the next resource.   *)
RestMisplaced(groups, n) ==
  FlattenSeq([g \in DOMAIN groups |->
                Part(groups[IF g < Len(groups) /\ Taken(groups, n, g) > 0 THEN g + 1 ELSE g].resource,
                     Remaining(groups, n, g))])

Rest(groups, n) ==
  FlattenSeq([g \in DOMAIN groups |-> Part(groups[g].resource, Remaining(groups, n, g))])

Middle(groups) == Len(SpansOf(groups)) \div 2

Splitting == answer = "none" /\ step = "split"

(* split_requests: the front list fits, or is a single span. *)
Prepare ==
  /\ Splitting
  /\ pending # <<>>
  /\ Fits(Head(pending))
  /\ requests' = Append(requests, Head(pending))
  /\ pending' = Tail(pending)
  /\ UNCHANGED <<records, unmappable, sent, step, answer>>

(* It is halved; the first half is measured next. *)
Halve ==
  /\ Splitting
  /\ pending # <<>>
  /\ ~ Fits(Head(pending))
  /\ LET groups == Head(pending)
         n == Middle(groups) IN
     pending' = <<First(groups, n), Rest(groups, n)>> \o Tail(pending)
  /\ UNCHANGED <<records, unmappable, requests, sent, step, answer>>

StartSending ==
  /\ Splitting
  /\ pending = <<>>
  /\ step' = "send"
  /\ UNCHANGED <<records, unmappable, pending, requests, sent, answer>>

Sending == answer = "none" /\ step = "send"

(* The next request is accepted whole. *)
SendOk ==
  /\ Sending
  /\ sent < Len(requests)
  /\ sent' = sent + 1
  /\ UNCHANGED <<records, unmappable, pending, requests, step, answer>>

(* Variants: a request that fails is tried again behind the others;        *)
(* rejected spans are only warned about.                                   *)
SendErrRequeued ==
  /\ Sending
  /\ sent < Len(requests)
  /\ requests' = Append(RemoveAt(requests, sent + 1), requests[sent + 1])
  /\ UNCHANGED <<records, unmappable, pending, sent, step, answer>>

SendErrIgnored ==
  /\ Sending
  /\ sent < Len(requests)
  /\ requests' = RemoveAt(requests, sent + 1)
  /\ UNCHANGED <<records, unmappable, pending, sent, step, answer>>

(* It fails, or some of its spans are rejected. *)
SendErr ==
  /\ Sending
  /\ sent < Len(requests)
  /\ answer' = "err"
  /\ UNCHANGED <<records, unmappable, pending, requests, sent, step>>

Return ==
  /\ Sending
  /\ sent = Len(requests)
  /\ answer' = "ok"
  /\ UNCHANGED <<records, unmappable, pending, requests, sent, step>>

Next == Map \/ Prepare \/ Halve \/ StartSending \/ SendOk \/ SendErr \/ Return

Spec == Init /\ [][Next]_vars

-----------------------------------------------------------------------------
Split == FlattenSeq(requests \o pending)

(* However often it was halved, within a group or between two, the batch   *)
(* has every span once, under its own resource, resource by resource and   *)
(* in the order of its records.                                            *)
SpansKeepTheirResource ==
  step # "map" =>
    /\ ToSet(SpansOf(Split)) = Spans
    /\ \A g \in DOMAIN Split : \A k \in DOMAIN Split[g].spans :
         records[Split[g].spans[k]].resource = Split[g].resource
    /\ LET s == SpansOf(Split) IN
       \A j, k \in DOMAIN s : j < k =>
         \/ records[s[j]].resource < records[s[k]].resource
         \/ records[s[j]].resource = records[s[k]].resource /\ s[j] < s[k]

(* A request exceeds the limit only with a single span that does so by     *)
(* itself (mod.rs:459-484).                                                *)
RequestsFit ==
  \A k \in DOMAIN requests :
    /\ SpansOf(requests[k]) # <<>>
    /\ EncodedLen(requests[k]) <= MaxRequest \/ Len(SpansOf(requests[k])) = 1

(* Every record that parses is a span, is in progress because it has no    *)
(* end, or is reported: an end of another type is a format change that     *)
(* must not pass for an expected duplicate (mod.rs:148-153).               *)
NothingDroppedSilently ==
  step # "map" \/ answer # "none" =>
    unmappable = Cardinality({i \in Parsed \ Spans : records[i].end # "none"})

(* A record is a span in one request that fits, under its own resource and *)
(* in order, or it is no span and known as such.                           *)
SpansAreKept ==
  TypeOK /\ SpansKeepTheirResource /\ RequestsFit /\ NothingDroppedSilently

(* The batch implements the promise of module Shipment: it succeeds if and *)
(* only if every span is in a request that was accepted whole.             *)
Ship == INSTANCE Shipment WITH
  owed  <- Spans,
  acked <- ToSet(SpansOf(FlattenSeq(SubSeq(requests, 1, sent))))

Shipped == Ship!Spec
=============================================================================
