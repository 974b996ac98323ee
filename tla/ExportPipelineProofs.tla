------------------------ MODULE ExportPipelineProofs ------------------------
(***************************************************************************)
(* Proofs about ExportPipeline, for every number of batches and chunks,    *)
(* every concurrency limit and both script modes: type correctness, the    *)
(* three safety invariants, and that the pipeline implements Shipment.     *)
(***************************************************************************)
EXTENDS ExportPipeline, FiniteSetTheorems, TLAPS

(* A permit is free or is held by exactly one outstanding call. *)
PermitsConserved == permits + Cardinality(InFlight) = Limit

(* Exactly the batches taken from the stream have left "queued". *)
Frontier == \A b \in Batch : batch[b] = "queued" <=> b > pulled

(* What a batch's state says of its chunks. *)
ChunksFollowBatch ==
  \A c \in Chunk :
    /\ batch[c[1]] \in {"queued", "converting"} => chunk[c] = "none"
    /\ batch[c[1]] = "ok"  => chunk[c] \in {"none", "acked"}
    /\ batch[c[1]] = "err" => chunk[c] \in {"none", "acked", "refused"}

(* A failed batch has a refused chunk to show for it. *)
ErrHasCause ==
  \A b \in Batch : batch[b] = "err" => \E c \in Chunk : c[1] = b /\ chunk[c] = "refused"

(* The answer is given once every batch is finished, and from their results. *)
AnswerFollowsBatches ==
  answer # "none" =>
    /\ pulled = total
    /\ Open = {}
    /\ answer = "err" <=> \E b \in Batch : batch[b] = "err"

IInv ==
  /\ TypeOK
  /\ PermitsConserved
  /\ Frontier
  /\ ChunksFollowBatch
  /\ ErrHasCause
  /\ AnswerFollowsBatches
-----------------------------------------------------------------------------
(* There are finitely many export calls. *)
LEMMA ChunkFinite == IsFiniteSet(Chunk)
<1>1. IsFiniteSet(Batch) /\ IsFiniteSet(1 .. MaxChunks)
  BY FS_Interval, ConstantsAssumption DEF Batch
<1> QED
  BY <1>1, FS_Product DEF Chunk

\* There is at least one permit.
LEMMA LimitType == Limit \in Nat \ {0}
BY ConstantsAssumption DEF Limit

\* The outstanding calls can be counted.
LEMMA InFlightFinite == IsFiniteSet(InFlight) /\ Cardinality(InFlight) \in Nat
<1>1. InFlight \subseteq Chunk
  BY DEF InFlight
<1> QED
  BY <1>1, ChunkFinite, FS_Subset, FS_CardinalityType

(* The initial states satisfy the inductive invariant. *)
LEMMA InitInv == Init => IInv
<1> SUFFICES ASSUME Init PROVE IInv
  OBVIOUS
<1>1. TypeOK
  BY LimitType DEF Init, TypeOK, BatchState, ChunkState
<1>2. InFlight = {}
  BY DEF Init, InFlight
<1>3. PermitsConserved
  BY <1>2, FS_EmptySet, LimitType DEF Init, PermitsConserved
<1>4. Frontier
  BY DEF Init, Frontier, Batch
<1>5. ChunksFollowBatch /\ ErrHasCause /\ AnswerFollowsBatches
  <2>1. \A c \in Chunk : c[1] \in Batch
    BY DEF Chunk
  <2> QED
    BY <2>1 DEF Init, ChunksFollowBatch, ErrHasCause, AnswerFollowsBatches
<1> QED
  BY <1>1, <1>3, <1>4, <1>5 DEF IInv
-----------------------------------------------------------------------------
(* One lemma per action: it preserves the inductive invariant. *)
LEMMA PullInv == IInv /\ Pull => IInv'
<1> SUFFICES ASSUME IInv, Pull PROVE IInv'
  OBVIOUS
<1> USE DEF IInv
<1>1. pulled + 1 \in Batch /\ batch[pulled + 1] = "queued"
  BY ConstantsAssumption DEF Pull, TypeOK, Batch, Frontier
<1>2. TypeOK'
  BY <1>1 DEF Pull, TypeOK, BatchState
<1>3. PermitsConserved'
  BY DEF Pull, PermitsConserved, InFlight
<1>4. Frontier'
  BY <1>1, ConstantsAssumption DEF Pull, TypeOK, Frontier, Batch
<1>5. ChunksFollowBatch' /\ ErrHasCause'
  <2>1. \A c \in Chunk : c[1] \in Batch
    BY DEF Chunk
  <2> QED
    BY <1>1, <2>1 DEF Pull, TypeOK, ChunksFollowBatch, ErrHasCause
<1>6. AnswerFollowsBatches'
  BY DEF Pull, AnswerFollowsBatches
<1> QED
  BY <1>2, <1>3, <1>4, <1>5, <1>6

\* A converted batch has its chunks, none of them sent.
LEMMA ConvertInv ==
  ASSUME NEW b \in Batch, IInv, Convert(b)
  PROVE  IInv'
<1> USE DEF IInv
<1>1. PICK k \in ChunkCounts :
        /\ batch' = [batch EXCEPT ![b] = IF k = 0 THEN "ok" ELSE "sending"]
        /\ chunk' = [c \in Chunk |->
                       IF c[1] = b /\ c[2] <= k THEN "waiting" ELSE chunk[c]]
  BY DEF Convert
<1>2. k \in Nat
  BY <1>1, ConstantsAssumption DEF ChunkCounts
<1>3. batch[b] = "converting" /\ UNCHANGED <<total, pulled, permits, answer>>
  BY DEF Convert
<1>4. \A c \in Chunk : c[1] \in Batch /\ c[2] \in Nat \ {0}
  BY DEF Chunk
<1>5. \A c \in Chunk : c[1] = b => chunk[c] = "none"
  BY <1>3 DEF ChunksFollowBatch
<1>6. TypeOK'
  BY <1>1, <1>3 DEF TypeOK, BatchState, ChunkState
<1>7. PermitsConserved'
  <2>1. InFlight' = InFlight
    BY <1>1, <1>5 DEF InFlight
  <2> QED
    BY <2>1, <1>3 DEF PermitsConserved
<1>8. Frontier'
  BY <1>1, <1>3 DEF Frontier, TypeOK
<1>9. ChunksFollowBatch'
  BY <1>1, <1>2, <1>3, <1>4, <1>5 DEF ChunksFollowBatch, TypeOK
<1>10. ErrHasCause'
  BY <1>1, <1>3, <1>5 DEF ErrHasCause, TypeOK
<1>11. AnswerFollowsBatches'
  BY <1>3 DEF AnswerFollowsBatches, Open
<1> QED
  BY <1>6, <1>7, <1>8, <1>9, <1>10, <1>11

\* A call takes one permit.
LEMMA AcquireInv ==
  ASSUME NEW c \in Chunk, IInv, Acquire(c)
  PROVE  IInv'
<1> USE DEF IInv
<1>1. chunk[c] = "waiting" /\ c[1] \in Batch
  BY DEF Acquire, Chunk
<1>2. batch[c[1]] = "sending"
  BY <1>1 DEF ChunksFollowBatch, TypeOK, BatchState
<1>3. TypeOK'
  BY LimitType DEF Acquire, TypeOK, ChunkState
<1>4. PermitsConserved'
  <2>1. InFlight' = InFlight \cup {c} /\ c \notin InFlight
    BY <1>1 DEF Acquire, InFlight, TypeOK
  <2>2. Cardinality(InFlight') = Cardinality(InFlight) + 1
    BY <2>1, FS_AddElement, InFlightFinite
  <2> QED
    BY <2>2, InFlightFinite, LimitType DEF Acquire, PermitsConserved, TypeOK
<1>5. Frontier'
  BY DEF Acquire, Frontier
<1>6. ChunksFollowBatch' /\ ErrHasCause'
  BY <1>1, <1>2 DEF Acquire, ChunksFollowBatch, ErrHasCause, TypeOK
<1>7. AnswerFollowsBatches'
  BY DEF Acquire, AnswerFollowsBatches, Open
<1> QED
  BY <1>3, <1>4, <1>5, <1>6, <1>7

\* A call that returns gives its permit back.
LEMMA ReturnInv ==
  ASSUME NEW c \in Chunk, NEW result \in {"acked", "refused"}, IInv, Return(c, result)
  PROVE  IInv'
<1> USE DEF IInv
<1>1. chunk[c] = "inflight" /\ c[1] \in Batch
  BY DEF Return, Chunk
<1>2. batch[c[1]] = "sending"
  BY <1>1 DEF ChunksFollowBatch, TypeOK, BatchState
<1>3. PermitsConserved' /\ permits + 1 <= Limit
  <2>1. InFlight' = InFlight \ {c} /\ c \in InFlight
    BY <1>1 DEF Return, InFlight, TypeOK
  <2>2. Cardinality(InFlight') = Cardinality(InFlight) - 1
    BY <2>1, FS_RemoveElement, InFlightFinite
  <2>3. Cardinality(InFlight) # 0
    BY <2>1, FS_EmptySet, InFlightFinite
  <2> QED
    BY <2>2, <2>3, InFlightFinite, LimitType DEF Return, PermitsConserved, TypeOK
<1>4. TypeOK'
  BY <1>3, LimitType DEF Return, TypeOK, ChunkState
<1>5. Frontier'
  BY DEF Return, Frontier
<1>6. ChunksFollowBatch' /\ ErrHasCause'
  BY <1>1, <1>2 DEF Return, ChunksFollowBatch, ErrHasCause, TypeOK
<1>7. AnswerFollowsBatches'
  BY DEF Return, AnswerFollowsBatches, Open
<1> QED
  BY <1>3, <1>4, <1>5, <1>6, <1>7

\* A batch ends with all its calls.
LEMMA FinishBatchInv ==
  ASSUME NEW b \in Batch, IInv, FinishBatch(b)
  PROVE  IInv'
<1> USE DEF IInv
<1>1. batch[b] = "sending" /\ UNCHANGED <<total, pulled, chunk, permits, answer>>
  BY DEF FinishBatch
<1>2. \A c \in Chunk : c[1] = b => chunk[c] \in {"none", "acked", "refused"}
  BY DEF FinishBatch, ChunksOf
<1>3. TypeOK'
  BY DEF FinishBatch, TypeOK, BatchState
<1>4. PermitsConserved'
  BY <1>1 DEF PermitsConserved, InFlight
<1>5. Frontier'
  BY <1>1 DEF FinishBatch, Frontier, TypeOK
<1>6. CASE \E c \in ChunksOf(b) : chunk[c] = "refused"
  <2>1. batch' = [batch EXCEPT ![b] = "err"]
    BY <1>6 DEF FinishBatch
  <2>2. ChunksFollowBatch' /\ ErrHasCause'
    BY <1>1, <1>2, <1>6, <2>1 DEF ChunksFollowBatch, ErrHasCause, ChunksOf, Chunk, TypeOK
  <2>3. AnswerFollowsBatches'
    BY <1>1 DEF AnswerFollowsBatches, Open
  <2> QED
    BY <1>3, <1>4, <1>5, <2>2, <2>3
<1>7. CASE ~ \E c \in ChunksOf(b) : chunk[c] = "refused"
  <2>1. batch' = [batch EXCEPT ![b] = "ok"]
    BY <1>7 DEF FinishBatch
  <2>2. ChunksFollowBatch' /\ ErrHasCause'
    BY <1>1, <1>2, <1>7, <2>1 DEF ChunksFollowBatch, ErrHasCause, ChunksOf, Chunk, TypeOK
  <2>3. AnswerFollowsBatches'
    BY <1>1 DEF AnswerFollowsBatches, Open
  <2> QED
    BY <1>3, <1>4, <1>5, <2>2, <2>3
<1> QED
  BY <1>6, <1>7

\* Results are collected from batches that have ended.
LEMMA CollectInv == IInv /\ Collect => IInv'
<1> SUFFICES ASSUME IInv, Collect PROVE IInv'
  OBVIOUS
<1> USE DEF IInv
<1>1. TypeOK'
  BY DEF Collect, TypeOK
<1>2. PermitsConserved' /\ Frontier' /\ ChunksFollowBatch' /\ ErrHasCause'
  BY DEF Collect, PermitsConserved, InFlight, Frontier, ChunksFollowBatch, ErrHasCause
<1>3. AnswerFollowsBatches'
  BY DEF Collect, AnswerFollowsBatches, Open
<1> QED
  BY <1>1, <1>2, <1>3
\* The invariant depends on the variables alone.
LEMMA StutterInv == IInv /\ UNCHANGED vars => IInv'
BY DEF vars, IInv, TypeOK, PermitsConserved, InFlight, Frontier, ChunksFollowBatch,
       ErrHasCause, AnswerFollowsBatches, Open

\* Every step keeps the invariant.
LEMMA NextInv == IInv /\ [Next]_vars => IInv'
BY PullInv, ConvertInv, AcquireInv, ReturnInv, FinishBatchInv, CollectInv, StutterInv
   DEF Next

(* The strengthened invariant holds in every reachable state. *)
THEOREM Inductive == Spec => []IInv
BY InitInv, NextInv, PTL DEF Spec

-----------------------------------------------------------------------------
(* Every variable of the pipeline keeps its type: in particular the free   *)
(* permits never leave 0 .. Limit.                                         *)
THEOREM TypeCorrect == Spec => []TypeOK
<1>1. IInv => TypeOK
  BY DEF IInv
<1> QED
  BY <1>1, Inductive, PTL

(* No more than BATCHES_MAX_CONCURRENCY export calls are ever outstanding, *)
(* for every number of batches, chunks and every configured limit.         *)
THEOREM SendBudgetHolds == Spec => []SendBudget
<1>1. IInv => SendBudget
  BY InFlightFinite, LimitType DEF IInv, TypeOK, PermitsConserved, SendBudget
<1> QED
  BY <1>1, Inductive, PTL

(* When the pipeline answers, every batch has been tried and no call is    *)
(* queued or outstanding.                                                  *)
THEOREM NothingAbandonedHolds == Spec => []NothingAbandoned
<1>1. IInv => NothingAbandoned
  <2> SUFFICES ASSUME IInv, answer # "none" PROVE NothingAbandoned
    BY DEF NothingAbandoned
  <2>1. pulled = total /\ Open = {}
    BY DEF IInv, AnswerFollowsBatches
  <2>2. \A b \in Batch : batch[b] \in {"queued", "ok", "err"}
    BY <2>1 DEF IInv, TypeOK, BatchState, Open
  <2>3. \A b \in 1 .. total : b \in Batch /\ batch[b] # "queued"
    BY <2>1, ConstantsAssumption DEF IInv, TypeOK, Frontier, Batch
  <2>4. \A c \in Chunk : chunk[c] \notin {"waiting", "inflight"}
    BY <2>2 DEF IInv, ChunksFollowBatch, Chunk
  <2> QED
    BY <2>2, <2>3, <2>4 DEF NothingAbandoned
<1> QED
  BY <1>1, Inductive, PTL

(* What a finished pipeline knows of its chunks: all are settled, and one  *)
(* was refused exactly if some batch failed.                               *)
LEMMA SettledChunks ==
  ASSUME IInv, Open = {}
  PROVE  /\ \A c \in Chunk : chunk[c] \in {"none", "acked", "refused"}
         /\ (\E b \in Batch : batch[b] = "err")
              <=> \E c \in Chunk : chunk[c] = "refused"
<1>1. \A b \in Batch : batch[b] \in {"queued", "ok", "err"}
  BY DEF IInv, TypeOK, BatchState, Open
<1>2. \A c \in Chunk : c[1] \in Batch
  BY DEF Chunk
<1> QED
  BY <1>1, <1>2 DEF IInv, ChunksFollowBatch, ErrHasCause

(* The answer is success only if every chunk was acknowledged, and an      *)
(* error only if one was refused.                                          *)
THEOREM AnswerIsTruthfulHolds == Spec => []AnswerIsTruthful
<1>1. IInv => AnswerIsTruthful
  <2> SUFFICES ASSUME IInv, answer # "none" PROVE AnswerIsTruthful
    BY DEF AnswerIsTruthful
  <2>1. Open = {} /\ (answer = "err" <=> \E b \in Batch : batch[b] = "err")
    BY DEF IInv, AnswerFollowsBatches
  <2> QED
    BY <2>1, SettledChunks DEF IInv, TypeOK, AnswerIsTruthful
<1> QED
  BY <1>1, Inductive, PTL

-----------------------------------------------------------------------------
(* Refinement: owed are the chunks cut so far. *)
Owed  == {c \in Chunk : chunk[c] # "none"}
Acked == {c \in Chunk : chunk[c] = "acked"}

\* The pipeline begins as Shipment does.
LEMMA InitRefines == Init => Ship!Init
BY DEF Init, Ship!Init

\* Every step is one of Shipment, or none.
LEMMA NextRefines == IInv /\ [Next]_vars => [Ship!Next]_(Ship!vars)
<1> SUFFICES ASSUME IInv, [Next]_vars PROVE [Ship!Next]_(Ship!vars)
  OBVIOUS
<1> USE DEF Ship!Next, Ship!vars
<1>1. CASE Pull
  BY <1>1 DEF Pull
<1>2. ASSUME NEW b \in Batch, Convert(b) PROVE Ship!Owe
  <2>1. answer = "none"
    BY <1>2 DEF Convert, IInv, AnswerFollowsBatches, Open
  <2>2. \A c \in Chunk : c[1] = b => chunk[c] = "none"
    BY <1>2 DEF Convert, IInv, ChunksFollowBatch
  <2>3. Owed \subseteq Owed' /\ Acked' = Acked
    BY <1>2, <2>2 DEF Convert, Owed, Acked
  <2> QED
    BY <1>2, <2>1, <2>3 DEF Convert, Ship!Owe, Owed, Acked
<1>3. ASSUME NEW c \in Chunk, Acquire(c) PROVE UNCHANGED Ship!vars
  BY <1>3 DEF Acquire, IInv, TypeOK
<1>4. ASSUME NEW c \in Chunk, Return(c, "acked") PROVE Ship!Ack
  <2>1. answer = "none"
    BY <1>4 DEF Return, IInv, AnswerFollowsBatches, Open, ChunksFollowBatch, Chunk,
                TypeOK, BatchState
  <2>2. Owed' = Owed /\ Acked' = Acked \cup {c} /\ c \in Owed
    BY <1>4 DEF Return, IInv, TypeOK, Owed, Acked
  <2> QED
    BY <1>4, <2>1, <2>2 DEF Return, Ship!Ack, Owed, Acked
<1>5. ASSUME NEW c \in Chunk, Return(c, "refused") PROVE UNCHANGED Ship!vars
  BY <1>5 DEF Return, IInv, TypeOK
<1>6. ASSUME NEW b \in Batch, FinishBatch(b) PROVE UNCHANGED Ship!vars
  BY <1>6 DEF FinishBatch
<1>7. CASE Collect
  <2>1. Owed = Acked <=> ~ \E b \in Batch : batch[b] = "err"
    BY <1>7, SettledChunks DEF Collect, Owed, Acked
  <2>2. answer = "none" /\ answer' = (IF Owed = Acked THEN "ok" ELSE "err")
    BY <1>7, <2>1 DEF Collect
  <2>3. Ship!Answer
    BY <1>7, <2>2 DEF Collect, Ship!Answer, Owed, Acked
  <2> QED
    BY <2>3
<1>8. CASE UNCHANGED vars
  BY <1>8 DEF vars
<1> QED
  BY <1>1, <1>2, <1>3, <1>4, <1>5, <1>6, <1>7, <1>8 DEF Next

(* The concurrent, re-batching pipeline implements the one-line promise of *)
(* Shipment: it answers once, with success if and only if everything owed  *)
(* was acknowledged.                                                       *)
THEOREM ImplementsShipment == Spec => Shipped
<1>1. Init => Ship!Init
  BY InitRefines
<1>2. IInv /\ [Next]_vars => [Ship!Next]_(Ship!vars)
  BY NextRefines
<1> QED
  BY <1>1, <1>2, Inductive, PTL DEF Spec, Shipped, Ship!Spec
=============================================================================
