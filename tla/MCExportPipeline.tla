------------------------- MODULE MCExportPipeline -------------------------
(***************************************************************************)
(* Module ExportPipeline for TLC, under the configuration of the cfg and,  *)
(* beside it, with BATCHES_MAX_CONCURRENCY = 0 and the script before the   *)
(* metadata.                                                               *)
(***************************************************************************)
EXTENDS ExportPipeline

VARIABLE zero  (* the run is one with limit zero *)

Zero == INSTANCE ExportPipeline WITH Concurrency <- 0, AfterMetadata <- FALSE

MCInit == zero \in BOOLEAN /\ IF zero THEN Zero!Init ELSE Init

MCNext ==
  \/ ~ zero /\ Next /\ UNCHANGED zero
  \/ zero /\ Zero!Next /\ UNCHANGED zero

(* The runtime polls what is ready and every export call comes back; no    *)
(* step is ever taken back, so that this weakest form of it suffices.      *)
MCSpec == MCInit /\ [][MCNext]_<<zero, vars>> /\ WF_<<zero, vars>>(MCNext)
=============================================================================
