------------------------------ MODULE Sending ------------------------------
(***************************************************************************)
(* The loops that cut a list to size before it is sent, put together:      *)
(* batching of the logs (this module extends it), the call of the OTLP     *)
(* exporter with one of those batches, and a batch of spans of the traces  *)
(* mode.                                                                   *)
(***************************************************************************)
EXTENDS LogBatching

CONSTANTS
  CallLogs, CallSize, Resource, Header, MaxRequest,     (* OtlpExport        *)
  Input, MaxRecords, MaxResource, SpanHeader, MaxSpanRequest   (* TraceExport *)

VARIABLES
  log, pending, requests, sent, answer,
  records, unmappable, spansPending, spanRequests, spansSent, step, spansAnswer

otlp   == <<log, pending, requests, sent, answer>>
traces == <<records, unmappable, spansPending, spanRequests, spansSent, step, spansAnswer>>

O == INSTANCE OtlpExport WITH MaxLogs <- CallLogs, Size <- CallSize

Trace == INSTANCE TraceExport WITH
  Header <- SpanHeader, MaxRequest <- MaxSpanRequest,
  pending <- spansPending, requests <- spanRequests, sent <- spansSent, answer <- spansAnswer

ASSUME OtlpAssumption == O!ConstantsOK
ASSUME TraceAssumption == Trace!ConstantsOK

-----------------------------------------------------------------------------
(* OTLP: halving is complete, and nothing is sent before all is known to   *)
(* fit.                                                                    *)
RequestsAreSound == O!RequestsAreSound

(* Traces: a record is a span in one request, or known to be none.         *)
SpansAreKept == Trace!SpansAreKept

(* Both implement the promise of module Shipment.                          *)
Shipped == O!Shipped /\ Trace!Shipped
=============================================================================
