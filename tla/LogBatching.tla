---------------------------- MODULE LogBatching ----------------------------
(***************************************************************************)
(* into_batches_by_estimated_size_limit (src/src/logs/coralogix.rs), the   *)
(* greedy cut of a list of logs into batches for the exporter.  It is run  *)
(* over the raw logs of an invocation, and once more over the logs of a    *)
(* batch that the script has just enlarged when the exporter is REST.      *)
(* One step is one iteration of its loop.                                  *)
(*                                                                         *)
(* A log is known by its position in the list and has an estimated size.   *)
(***************************************************************************)
EXTENDS Naturals, Sequences, FiniteSets, FiniteSetsExt, Functions

CONSTANTS
  MaxLogs,   (* bound: most logs in a list                                  *)
  Size,      (* estimated sizes of a log                                    *)
  Target,    (* target batch sizes; BATCHES_MAX_SIZE = 0 makes it 0         *)
  Overhead   (* OVERHEAD_PER_LOG_ESTIMATION                                 *)

ASSUME ConstantsAssumption ==
  /\ MaxLogs \in Nat
  /\ Size \subseteq Nat
  /\ Target \subseteq Nat
  /\ Overhead \in Nat

VARIABLES
  size,        (* estimated size of each log of the list                    *)
  target,      (* target_batch_size                                         *)
  next,        (* the log the loop is at                                    *)
  batch,       (* the open batch                                            *)
  batch_size,  (* its accounted size                                        *)
  batches,     (* the batches closed so far                                 *)
  returned     (* the loop is over and the last batch closed                *)

vars == <<size, target, next, batch, batch_size, batches, returned>>

Log == 1 .. Len(size)

TypeOK ==
  /\ size \in Seq(Size) /\ Len(size) <= MaxLogs
  /\ target \in Target
  /\ next \in 1 .. Len(size) + 1
  /\ batch \in Seq(Log)
  /\ batch_size \in Nat
  /\ batches \in Seq(Seq(Log))
  /\ returned \in BOOLEAN

Init ==
  /\ \E n \in 0 .. MaxLogs : size \in [1 .. n -> Size]
  /\ target \in Target
  /\ next = 1
  /\ batch = <<>>
  /\ batch_size = 0
  /\ batches = <<>>
  /\ returned = FALSE

ItemSize(i) == size[i] + Overhead

(* Variant: the size of the log at hand is not counted. *)
OverflowsLate == batch # <<>> /\ batch_size > target

Overflows == batch # <<>> /\ batch_size + ItemSize(next) > target

(* The log joins the open batch. *)
Push ==
  /\ next \in Log
  /\ ~ Overflows
  /\ batch' = Append(batch, next)
  /\ batch_size' = batch_size + ItemSize(next)
  /\ next' = next + 1
  /\ UNCHANGED <<size, target, batches, returned>>

(* Variants: the log at hand is dropped with the batch it closes; the      *)
(* accounted size is not reset.                                            *)
CutDropping ==
  /\ next \in Log
  /\ Overflows
  /\ batches' = Append(batches, batch)
  /\ batch' = <<>>
  /\ batch_size' = 0
  /\ next' = next + 1
  /\ UNCHANGED <<size, target, returned>>

CutKeepingSize ==
  /\ next \in Log
  /\ Overflows
  /\ batches' = Append(batches, batch)
  /\ batch' = <<next>>
  /\ batch_size' = batch_size + ItemSize(next)
  /\ next' = next + 1
  /\ UNCHANGED <<size, target, returned>>

(* The log does not fit: the open batch is closed, the log opens the next. *)
Cut ==
  /\ next \in Log
  /\ Overflows
  /\ batches' = Append(batches, batch)
  /\ batch' = <<next>>
  /\ batch_size' = ItemSize(next)
  /\ next' = next + 1
  /\ UNCHANGED <<size, target, returned>>

(* The list is exhausted; what is still open becomes the last batch. *)
Return ==
  /\ next \notin Log
  /\ ~ returned
  /\ returned' = TRUE
  /\ batches' = IF batch = <<>> THEN batches ELSE Append(batches, batch)
  /\ UNCHANGED <<size, target, next, batch, batch_size>>

Next == Push \/ Cut \/ Return

Spec == Init /\ [][Next]_vars

-----------------------------------------------------------------------------
(* The batches with the open one, while there is one. *)
Cuts == IF returned \/ batch = <<>> THEN batches ELSE Append(batches, batch)

(* C cuts the logs before n into batches: put one after the other, they    *)
(* are 1, 2, ..., n - 1.                                                   *)
IsCutUpTo(C, n) ==
  /\ \A k \in 1 .. Len(C) :
       /\ C[k] # <<>>
       /\ \A p \in 1 .. Len(C[k]) : C[k][p] = C[k][1] + p - 1
       /\ C[k][1] = IF k = 1 THEN 1 ELSE C[k - 1][Len(C[k - 1])] + 1
  /\ n = IF C = <<>> THEN 1 ELSE C[Len(C)][Len(C[Len(C)])] + 1

(* No log is lost, sent twice or put out of order by the cut: at every     *)
(* moment the batches are the list as far as the loop has come, and when   *)
(* the function returns they are the whole list.                           *)
InOrder ==
  /\ IsCutUpTo(Cuts, next)
  /\ returned => next = Len(size) + 1

(* Estimated size of a set of logs, with their overhead. *)
Weight(S) == SumFunctionOnSet([i \in Log |-> ItemSize(i)], S)

Fits(S) == Weight(S) <= target \/ Cardinality(S) <= 1

(* A batch keeps within the target, unless it is one single log that is    *)
(* too large on its own; such a log is neither split nor dropped.          *)
WithinTarget == \A k \in 1 .. Len(batches) : Fits(Range(batches[k]))

(* An in-order cut is the set of the logs that open a batch. *)
Openers == {S \in SUBSET Log : Log = {} \/ 1 \in S}
Opened(S, s) == {i \in Log : i >= s /\ S \cap (s + 1 .. i) = {}}

(* The greedy cut is a best one: no in-order cut whose batches keep within *)
(* the target makes fewer requests.                                        *)
FewestBatches ==
  returned => \A S \in Openers :
    (\A s \in S : Fits(Opened(S, s))) => Len(batches) <= Cardinality(S)

(* The cut keeps within the target, with as few batches as any cut can.    *)
TightBatches == WithinTarget /\ FewestBatches
=============================================================================
