---------------------------- MODULE SendingProofs ----------------------------
(***************************************************************************)
(* Proofs about what is cut to size and sent, modules LogBatching,         *)
(* OtlpExport and TraceExport: for lists, sizes and limits of any size,    *)
(* the cut into batches neither loses, repeats nor reorders a log, keeps   *)
(* within the target and makes as few batches as any cut can; the halving  *)
(* of an OTLP request is complete, nothing is sent before all is known to  *)
(* fit, and the call answers Ok if and only if every log was accepted; and *)
(* a batch of spans is sent without losing one or moving it to another     *)
(* resource. The call and the batch of spans implement Shipment.           *)
(***************************************************************************)
EXTENDS Sending, DataFacts

-----------------------------------------------------------------------------
(* Module LogBatching: the cut is in order and complete.                   *)

(* What InOrder needs to be inductive: the loop has only just begun if no  *)
(* batch is open, and the list is exhausted once the function returns.     *)
OpenUntilDone ==
  /\ batch = <<>> => next = 1 /\ batches = <<>>
  /\ ~ returned \/ next = Len(size) + 1

Inv == TypeOK /\ InOrder /\ OpenUntilDone

-----------------------------------------------------------------------------
(* A batch opened by the log at n takes a cut up to n one log further.     *)
LEMMA OpenNext ==
  ASSUME NEW C \in Seq(Seq(Nat)), NEW n \in Nat, IsCutUpTo(C, n)
  PROVE  IsCutUpTo(Append(C, <<n>>), n + 1)
<1> DEFINE D == Append(C, <<n>>)
<1>1. /\ Len(D) = Len(C) + 1
      /\ \A k \in 1 .. Len(C) : D[k] = C[k]
      /\ D[Len(C) + 1] = <<n>>
  BY SMT
<1>2. ASSUME NEW k \in 1 .. Len(D)
      PROVE  /\ D[k] # <<>>
             /\ \A p \in 1 .. Len(D[k]) : D[k][p] = D[k][1] + p - 1
             /\ D[k][1] = IF k = 1 THEN 1 ELSE D[k - 1][Len(D[k - 1])] + 1
  <2>1. CASE k \in 1 .. Len(C)
    <3>1. k = 1 \/ k - 1 \in 1 .. Len(C)
      BY <2>1, SMT
    <3>2. D[k] = C[k] /\ (k = 1 \/ D[k - 1] = C[k - 1])
      BY <1>1, <2>1, <3>1
    <3>3. /\ C[k] # <<>>
          /\ \A p \in 1 .. Len(C[k]) : C[k][p] = C[k][1] + p - 1
          /\ C[k][1] = IF k = 1 THEN 1 ELSE C[k - 1][Len(C[k - 1])] + 1
      BY <2>1 DEF IsCutUpTo
    <3> HIDE DEF D
    <3> QED
      BY <3>2, <3>3
  <2>2. CASE k = Len(C) + 1
    <3>1. CASE C = <<>>
      BY <1>1, <2>2, <3>1, SMT DEF IsCutUpTo
    <3>2. CASE C # <<>>
      <4>1. Len(C) \in 1 .. Len(C) /\ k # 1 /\ k - 1 = Len(C)
        BY <2>2, <3>2, SMT
      <4> QED
        BY <1>1, <2>2, <3>2, <4>1, SMT DEF IsCutUpTo
    <3> QED
      BY <3>1, <3>2
  <2> QED
    BY <1>1, <2>1, <2>2, SMT
<1>3. D # <<>> /\ D[Len(D)][Len(D[Len(D)])] = n
  BY <1>1, SMT
<1> HIDE DEF D
<1>4. IsCutUpTo(D, n + 1)
  BY <1>2, <1>3, SMT DEF IsCutUpTo
<1> QED
  BY <1>4 DEF D

(* So does the log at n joining the last batch.                            *)
LEMMA JoinLast ==
  ASSUME NEW C \in Seq(Seq(Nat)), NEW b \in Seq(Nat), b # <<>>,
         NEW n \in Nat, IsCutUpTo(Append(C, b), n)
  PROVE  IsCutUpTo(Append(C, Append(b, n)), n + 1)
<1> DEFINE B == Append(C, b)
           c == Append(b, n)
           D == Append(C, c)
<1>1. IsCutUpTo(B, n)
  OBVIOUS
<1>2. c \in Seq(Nat) /\ Len(c) = Len(b) + 1 /\ c[Len(b) + 1] = n
  BY SMT
<1>3. Len(b) \in Nat \ {0} /\ \A p \in 1 .. Len(b) : c[p] = b[p] /\ b[p] \in Nat
  BY SMT
<1> HIDE DEF c
<1>4. Len(C) \in Nat /\ Len(B) = Len(C) + 1 /\ Len(D) = Len(C) + 1
  BY <1>2, SMT
<1>5. B[Len(C) + 1] = b /\ D[Len(C) + 1] = c
  BY <1>2, SMT
<1>6. \A k \in 1 .. Len(C) : B[k] = C[k] /\ D[k] = C[k]
  BY <1>2, SMT
<1>7. B # <<>> /\ D # <<>> /\ c # <<>>
  <2> HIDE DEF B, D
  <2>1. Len(B) # 0 /\ Len(D) # 0 /\ Len(c) # 0
    BY <1>2, <1>3, <1>4, SMT
  <2> QED
    BY <2>1, SMT
<1> HIDE DEF B, D
<1>8. n = b[Len(b)] + 1 /\ \A p \in 1 .. Len(b) : b[p] = b[1] + p - 1
  <2>1. B[Len(B)] = b /\ Len(B) \in 1 .. Len(B)
    BY <1>4, <1>5, SMT
  <2>2. n = b[Len(b)] + 1
    BY <1>1, <1>7, <2>1 DEF IsCutUpTo
  <2>3. \A p \in 1 .. Len(b) : b[p] = b[1] + p - 1
    BY <1>1, <2>1 DEF IsCutUpTo
  <2> QED
    BY <2>2, <2>3
<1>9. \A p \in 1 .. Len(c) : c[p] = c[1] + p - 1
  <2> TAKE p \in 1 .. Len(c)
  <2>1. Len(b) \in 1 .. Len(b) /\ 1 \in 1 .. Len(b)
    BY <1>3, SMT
  <2>2. c[1] = b[1] /\ b[1] \in Nat /\ n = b[1] + Len(b) - 1 + 1
    BY <1>3, <1>8, <2>1
  <2>3. CASE p \in 1 .. Len(b)
    BY <1>3, <1>8, <2>2, <2>3
  <2>4. CASE p = Len(b) + 1
    <3>1. c[p] = n
      BY <1>2, <2>4
    <3> QED
      BY <1>3, <2>2, <2>4, <3>1, SMT
  <2>5. p \in 1 .. Len(b) \/ p = Len(b) + 1
    BY <1>2, <1>3, SMT
  <2> QED
    BY <2>3, <2>4, <2>5
<1>10. ASSUME NEW k \in 1 .. Len(D)
       PROVE  /\ D[k] # <<>>
              /\ \A p \in 1 .. Len(D[k]) : D[k][p] = D[k][1] + p - 1
              /\ D[k][1] = IF k = 1 THEN 1 ELSE D[k - 1][Len(D[k - 1])] + 1
  <2>1. k \in 1 .. Len(B) /\ (k \in 1 .. Len(C) \/ k = Len(C) + 1)
    BY <1>4, SMT
  <2>2. k = 1 \/ k - 1 \in 1 .. Len(C)
    BY <1>4, SMT
  <2>3. B[k][1] = IF k = 1 THEN 1 ELSE B[k - 1][Len(B[k - 1])] + 1
    BY <1>1, <2>1 DEF IsCutUpTo
  <2>4. D[k][1] = B[k][1]
    <3>1. 1 \in 1 .. Len(b)
      BY <1>3, SMT
    <3> QED
      BY <1>3, <1>5, <1>6, <2>1, <3>1
  <2>5. D[k] # <<>> /\ \A p \in 1 .. Len(D[k]) : D[k][p] = D[k][1] + p - 1
    <3>1. CASE k \in 1 .. Len(C)
      <4>1. D[k] = B[k]
        BY <1>6, <3>1
      <4> QED
        BY <1>1, <2>1, <4>1 DEF IsCutUpTo
    <3>2. CASE k = Len(C) + 1
      BY <1>5, <1>7, <1>9, <3>2
    <3> QED
      BY <2>1, <3>1, <3>2
  <2> QED
    BY <1>6, <2>2, <2>3, <2>4, <2>5
<1>11. n + 1 = IF D = <<>> THEN 1 ELSE D[Len(D)][Len(D[Len(D)])] + 1
  BY <1>2, <1>4, <1>5, <1>7
<1>12. IsCutUpTo(D, n + 1)
  BY <1>10, <1>11 DEF IsCutUpTo
<1> QED
  BY <1>12 DEF D, c
-----------------------------------------------------------------------------
\* The loop begins with nothing cut.
LEMMA InitInv == Init => Inv
<1> SUFFICES ASSUME Init
             PROVE  Inv
  OBVIOUS
<1>1. PICK n \in 0 .. MaxLogs : size \in [1 .. n -> Size]
  BY DEF Init
<1>2. size \in Seq(Size) /\ Len(size) = n
  BY <1>1, ConstantsAssumption, SMT DEF ConstantsAssumption
<1>3. TypeOK
  <2>1. n \in Nat /\ n <= MaxLogs
    BY <1>1, ConstantsAssumption, SMT DEF ConstantsAssumption
  <2>2. next \in 1 .. Len(size) + 1
    BY <1>2, <2>1, SMT DEF Init
  <2>3. batch \in Seq(Log) /\ batches \in Seq(Seq(Log))
    BY SMT DEF Init
  <2> QED
    BY <1>2, <2>1, <2>2, <2>3 DEF Init, TypeOK
<1>4. InOrder
  BY SMT DEF Init, InOrder, Cuts, IsCutUpTo
<1> QED
  BY <1>3, <1>4 DEF Init, Inv, OpenUntilDone

(* The invariant is inductive: the loop's two ways to take a log are the   *)
(* lemmas above, and closing the last batch changes no cut.                *)
LEMMA NextInv == Inv /\ [Next]_vars => Inv'
<1> SUFFICES ASSUME Inv, [Next]_vars
             PROVE  Inv'
  OBVIOUS
<1> USE DEF Inv, Log
<1>1. /\ size \in Seq(Size) /\ Len(size) \in Nat /\ Len(size) <= MaxLogs
      /\ next \in 1 .. Len(size) + 1 /\ batch_size \in Nat
      /\ batch \in Seq(Log) /\ batches \in Seq(Seq(Log))
  BY DEF TypeOK
<1>2. batch \in Seq(Nat) /\ batches \in Seq(Seq(Nat)) /\ next \in Nat
  BY <1>1, SMT
<1>3. IsCutUpTo(Cuts, next)
  BY DEF InOrder
<1>4. \A i \in Log : ItemSize(i) \in Nat
  <2> TAKE i \in Log
  <2>1. size[i] \in Size
    BY <1>1, SMT
  <2>2. size[i] \in Nat /\ Overhead \in Nat
    BY <2>1, ConstantsAssumption DEF ConstantsAssumption
  <2> QED
    BY <2>2, SMT DEF ItemSize
<1>5. CASE Push
  <2>1. /\ batch' = Append(batch, next) /\ next' = next + 1 /\ batches' = batches
        /\ batch_size' = batch_size + ItemSize(next) /\ next \in Log
        /\ size' = size /\ target' = target /\ returned' = returned /\ ~ returned
    BY <1>1, <1>5, SMT DEF Push, OpenUntilDone
  <2>2. batch' \in Seq(Log) /\ batch' # <<>>
    <3> HIDE DEF Log
    <3>1. batch' \in Seq(Log) /\ Len(batch') = Len(batch) + 1 /\ Len(batch) \in Nat
      BY <1>1, <2>1, SMT
    <3>2. Len(batch') # 0
      BY <3>1, SMT
    <3> QED
      BY <3>1, <3>2, SMT
  <2>3. TypeOK'
    BY <1>1, <1>4, <2>1, <2>2, SMT DEF TypeOK
  <2>4. Cuts' = Append(batches, Append(batch, next))
    BY <2>1, <2>2 DEF Cuts
  <2>5. IsCutUpTo(Cuts', next + 1)
    <3>1. CASE batch = <<>>
      <4>1. batches = <<>> /\ Cuts = <<>> /\ Append(batch, next) = <<next>>
        BY <3>1, SMT DEF OpenUntilDone, Cuts
      <4>2. IsCutUpTo(Append(batches, <<next>>), next + 1)
        BY <1>2, <1>3, <4>1, OpenNext
      <4> QED
        BY <2>4, <4>1, <4>2
    <3>2. CASE batch # <<>>
      <4>1. Cuts = Append(batches, batch)
        BY <2>1, <3>2 DEF Cuts
      <4> QED
        BY <1>2, <1>3, <2>4, <3>2, <4>1, JoinLast
    <3> QED
      BY <3>1, <3>2
  <2>6. OpenUntilDone'
    BY <2>1, <2>2 DEF OpenUntilDone
  <2>7. IsCutUpTo(Cuts, next)'
    BY <2>1, <2>5 DEF IsCutUpTo
  <2> QED
    BY <2>1, <2>3, <2>6, <2>7 DEF InOrder
<1>6. CASE Cut
  <2>1. /\ batches' = Append(batches, batch) /\ batch' = <<next>> /\ next' = next + 1
        /\ batch_size' = ItemSize(next) /\ next \in Log /\ batch # <<>>
        /\ size' = size /\ target' = target /\ returned' = returned /\ ~ returned
    BY <1>1, <1>6, SMT DEF Cut, Overflows, OpenUntilDone
  <2>2. batch' \in Seq(Log) /\ batch' # <<>> /\ batches' \in Seq(Seq(Log))
    BY <1>1, <2>1, SMT
  <2>3. TypeOK'
    BY <1>1, <1>4, <2>1, <2>2, SMT DEF TypeOK
  <2>4. Cuts = batches' /\ Cuts' = Append(batches', <<next>>)
    BY <2>1, <2>2 DEF Cuts
  <2>5. batches' \in Seq(Seq(Nat))
    BY <1>2, <2>1, SMT
  <2>6. IsCutUpTo(Cuts', next + 1)
    BY <1>2, <1>3, <2>4, <2>5, OpenNext
  <2>7. OpenUntilDone'
    BY <2>1, <2>2 DEF OpenUntilDone
  <2>8. IsCutUpTo(Cuts, next)'
    BY <2>1, <2>6 DEF IsCutUpTo
  <2> QED
    BY <2>1, <2>3, <2>7, <2>8 DEF InOrder
<1>7. CASE Return
  <2>1. /\ returned' = TRUE /\ next = Len(size) + 1 /\ ~ returned
        /\ batches' = IF batch = <<>> THEN batches ELSE Append(batches, batch)
        /\ UNCHANGED <<size, target, next, batch, batch_size>>
    BY <1>1, <1>7, SMT DEF Return
  <2>2. batches' \in Seq(Seq(Log))
    <3> HIDE DEF Log
    <3>1. Append(batches, batch) \in Seq(Seq(Log))
      BY <1>1, SMT
    <3> QED
      BY <1>1, <2>1, <3>1
  <2>3. TypeOK'
    BY <1>1, <2>1, <2>2 DEF TypeOK
  <2>4. Cuts' = Cuts
    BY <2>1 DEF Cuts
  <2>5. OpenUntilDone'
    <3>1. batch = <<>> => batches' = <<>> /\ next' = 1
      BY <2>1 DEF OpenUntilDone
    <3> QED
      BY <2>1, <3>1 DEF OpenUntilDone
  <2>6. IsCutUpTo(Cuts, next)'
    BY <1>3, <2>1, <2>4 DEF IsCutUpTo
  <2> QED
    BY <2>1, <2>3, <2>5, <2>6 DEF InOrder
<1>8. CASE UNCHANGED vars
  BY <1>8 DEF vars, TypeOK, InOrder, Cuts, IsCutUpTo, OpenUntilDone
<1> QED
  BY <1>5, <1>6, <1>7, <1>8 DEF Next

(* Every reachable state satisfies the invariant. *)
THEOREM Inductive == Spec => []Inv
  BY InitInv, NextInv, PTL DEF Spec

(* Every variable keeps its type. *)
THEOREM TypeCorrect == Spec => []TypeOK
<1>1. Inv => TypeOK
  BY DEF Inv
<1> QED
  BY <1>1, Inductive, PTL

(* The batches are the list, in order and complete, for every list of logs *)
(* and every target size.                                                  *)
THEOREM InOrderHolds == Spec => []InOrder
<1>1. Inv => InOrder
  BY DEF Inv
<1> QED
  BY <1>1, Inductive, PTL

-----------------------------------------------------------------------------
(* Module LogBatching: the cut is tight.                                   *)

(* What TightBatches needs to be inductive: the accounted size is that of  *)
(* the open batch, which fits, and no batch could have taken the first log *)
(* of the next one.                                                        *)
Accounted == batch_size = Weight(Range(batch)) /\ Fits(Range(batch))

Full == \A k \in 2 .. Len(Cuts) : ~ Fits(Range(Cuts[k - 1]) \union {Cuts[k][1]})

Tight == Inv /\ Accounted /\ WithinTarget /\ Full

Sized == [i \in Log |-> ItemSize(i)]

\* Logs are finitely many and their sizes naturals.
LEMMA SizedType == TypeOK => Sized \in [Log -> Nat] /\ IsFiniteSet(Log) /\ target \in Nat /\ Len(size) \in Nat
<1> SUFFICES ASSUME TypeOK PROVE Sized \in [Log -> Nat] /\ IsFiniteSet(Log) /\ target \in Nat /\ Len(size) \in Nat
  OBVIOUS
<1>1. \A i \in Log : size[i] \in Nat /\ Overhead \in Nat
  <2>1. size \in Seq(Size) /\ Size \subseteq Nat /\ Overhead \in Nat
    BY ConstantsAssumption DEF ConstantsAssumption, TypeOK
  <2>2. \A i \in 1 .. Len(size) : size[i] \in Size
    BY <2>1
  <2> QED
    BY <2>1, <2>2 DEF Log
<1>2. Sized \in [Log -> Nat]
  BY <1>1 DEF Sized, ItemSize
<1>3. IsFiniteSet(1 .. Len(size)) /\ Len(size) \in Nat
  BY FS_Interval DEF TypeOK
<1> QED
  BY <1>2, <1>3, ConstantsAssumption DEF ConstantsAssumption, TypeOK, Log

\* The weight of a batch is a sum of estimated sizes.
LEMMA WeightFacts ==
  ASSUME TypeOK
  PROVE  /\ Weight({}) = 0
         /\ \A S \in SUBSET Log : Weight(S) \in Nat /\ IsFiniteSet(S) /\ Cardinality(S) \in Nat
         /\ \A S \in SUBSET Log : \A i \in Log \ S : Weight(S \union {i}) = Weight(S) + ItemSize(i)
         /\ \A S \in SUBSET Log : \A T \in SUBSET S : Weight(T) <= Weight(S) /\ Cardinality(T) <= Cardinality(S)
<1>0. Sized \in [Log -> Nat] /\ IsFiniteSet(Log)
  BY SizedType
<1>1. \A S : Weight(S) = SumFunctionOnSet(Sized, S)
  BY DEF Weight, Sized
<1>2. ASSUME NEW S \in SUBSET Log PROVE IsFiniteSet(S) /\ Cardinality(S) \in Nat
  BY <1>0, FS_Subset, FS_CardinalityType
<1>3. ASSUME NEW S \in SUBSET Log PROVE Weight(S) \in Nat
  <2>1. SumFunctionOnSet(Sized, S) \in Nat
    BY <1>0, <1>2, SumRemove
  <2> QED
    BY <1>1, <2>1
<1>4. ASSUME NEW S \in SUBSET Log, NEW i \in Log \ S
      PROVE Weight(S \union {i}) = Weight(S) + ItemSize(i)
  <2> DEFINE U == S \union {i}
  <2>1. U \in SUBSET Log /\ i \in U /\ U \ {i} = S
    OBVIOUS
  <2> HIDE DEF U
  <2>2. SumFunctionOnSet(Sized, U) = Sized[i] + SumFunctionOnSet(Sized, U \ {i})
    BY <1>0, <1>2, <2>1, SumRemove
  <2>3. Sized[i] = ItemSize(i) /\ Sized[i] \in Nat
    BY <1>0 DEF Sized
  <2>4. Weight(U) = Sized[i] + Weight(S)
    BY <1>1, <2>1, <2>2
  <2>5. Weight(U) = Weight(S) + ItemSize(i)
    BY <1>3, <2>3, <2>4
  <2> QED
    BY <2>5 DEF U
<1>5. ASSUME NEW S \in SUBSET Log, NEW T \in SUBSET S
      PROVE Weight(T) <= Weight(S) /\ Cardinality(T) <= Cardinality(S)
  <2>1. SumFunctionOnSet(Sized, T) <= SumFunctionOnSet(Sized, S)
    BY <1>0, <1>2, SumMonotonic
  <2>2. Cardinality(T) <= Cardinality(S)
    BY <1>2, FS_Subset
  <2> QED
    BY <1>1, <2>1, <2>2
<1>6. Weight({}) = 0
  BY <1>1, SumEmpty
<1> QED
  BY <1>2, <1>3, <1>4, <1>5, <1>6

\* A part of a batch that fits, fits.
LEMMA FitsPart ==
  ASSUME TypeOK, NEW S \in SUBSET Log, NEW T \in SUBSET S, Fits(S) PROVE Fits(T)
<1>1. target \in Nat
  BY SizedType
<1>2. /\ Weight(T) \in Nat /\ Weight(S) \in Nat /\ Cardinality(T) \in Nat /\ Cardinality(S) \in Nat
      /\ Weight(T) <= Weight(S) /\ Cardinality(T) <= Cardinality(S)
  BY WeightFacts
<1> QED
  BY <1>1, <1>2 DEF Fits

\* The positions of a cut with one more log.
LEMMA RangeAppend ==
  ASSUME NEW S, NEW b \in Seq(S), NEW i \in S
  PROVE  Range(Append(b, i)) = Range(b) \union {i}
<1>2. /\ DOMAIN b = 1 .. Len(b) /\ DOMAIN Append(b, i) = 1 .. Len(b) + 1 /\ Len(b) \in Nat
      /\ \A k \in 1 .. Len(b) : Append(b, i)[k] = b[k]
      /\ Append(b, i)[Len(b) + 1] = i
  OBVIOUS
<1>3. Range(Append(b, i)) = Range(b) \union {i}
  <2> DEFINE c == Append(b, i)
  <2> HIDE DEF c
  <2>1. /\ DOMAIN c = 1 .. Len(b) + 1 /\ \A k \in 1 .. Len(b) : c[k] = b[k]
        /\ c[Len(b) + 1] = i
    BY <1>2 DEF c
  <2>2. 1 .. Len(b) + 1 = (1 .. Len(b)) \union {Len(b) + 1}
    BY <1>2
  <2>3. Range(c) = Range(b) \union {i}
    BY <1>2, <2>1, <2>2 DEF Range
  <2> QED
    BY <2>3 DEF c
<1> QED
  BY <1>3

(* The logs of the open batch are behind the loop. *)
LEMMA OpenIsBehind == ASSUME Inv, batch # <<>>, ~ returned PROVE next \notin Range(batch)
<1>1. /\ batch \in Seq(Log) /\ batches \in Seq(Seq(Log)) /\ Cuts = Append(batches, batch)
      /\ Len(size) \in Nat
  BY DEF Inv, TypeOK, Cuts
<1>2. Cuts[Len(Cuts)] = batch /\ Len(Cuts) \in 1 .. Len(Cuts) /\ Cuts # <<>>
  BY <1>1
<1>3. (\A p \in 1 .. Len(batch) : batch[p] = batch[1] + p - 1) /\ next = batch[Len(batch)] + 1
  BY <1>2 DEF Inv, InOrder, IsCutUpTo
<1>4. batch[1] \in Nat /\ Len(batch) \in Nat /\ Len(batch) > 0 /\ DOMAIN batch = 1 .. Len(batch)
  BY <1>1 DEF Log
<1>5. next = batch[1] + Len(batch)
  BY <1>3, <1>4
<1>6. ASSUME NEW p \in 1 .. Len(batch) PROVE batch[p] # next
  <2>1. batch[p] = batch[1] + p - 1
    BY <1>3
  <2> QED
    BY <1>4, <1>5, <2>1
<1> QED
  BY <1>4, <1>6 DEF Range

\* A log by itself may be a batch, whatever its size.
LEMMA SingleFits == ASSUME NEW i PROVE Fits({i})
<1>1. Cardinality({i}) = 1
  BY FS_Singleton
<1> QED
  BY <1>1 DEF Fits

\* With nothing cut, nothing is wasted.
LEMMA InitTight == Init => Tight
<1> SUFFICES ASSUME Init PROVE Tight
  OBVIOUS
<1>1. Inv
  BY InitInv
<1>2. /\ batch = <<>> /\ batches = <<>> /\ batch_size = 0 /\ Cuts = <<>>
  BY DEF Init, Cuts
<1>3. Range(batch) = {} /\ TypeOK
  BY <1>1, <1>2 DEF Range, Inv
<1>4. Weight({}) = 0
  BY <1>3, WeightFacts
<1>5. Cardinality({}) = 0
  BY FS_EmptySet
<1>6. Accounted
  BY <1>2, <1>3, <1>4, <1>5 DEF Accounted, Fits
<1>7. WithinTarget /\ Full
  BY <1>2 DEF WithinTarget, Full
<1> QED
  BY <1>1, <1>6, <1>7 DEF Tight

(* A batch more at the end of the list. *)
LEMMA FullAppend ==
  ASSUME TypeOK, NEW C \in Seq(Seq(Log)), NEW b \in Seq(Log), b # <<>>,
         \A k \in 2 .. Len(C) : ~ Fits(Range(C[k - 1]) \union {C[k][1]}),
         C # <<>> => ~ Fits(Range(C[Len(C)]) \union {b[1]})
  PROVE  \A k \in 2 .. Len(Append(C, b)) :
           ~ Fits(Range(Append(C, b)[k - 1]) \union {Append(C, b)[k][1]})
<1> DEFINE D == Append(C, b)
<1>1. Len(D) = Len(C) + 1 /\ Len(C) \in Nat /\ D[Len(C) + 1] = b /\ \A k \in 1 .. Len(C) : D[k] = C[k]
  OBVIOUS
<1> HIDE DEF D
<1>2. ASSUME NEW k \in 2 .. Len(D) PROVE ~ Fits(Range(D[k - 1]) \union {D[k][1]})
  <2>1. CASE k \in 2 .. Len(C)
    <3>1. k \in 1 .. Len(C) /\ k - 1 \in 1 .. Len(C)
      BY <1>1, <2>1
    <3>2. D[k] = C[k] /\ D[k - 1] = C[k - 1]
      BY <1>1, <3>1
    <3> QED
      BY <2>1, <3>2
  <2>2. CASE k = Len(C) + 1
    <3>1. k - 1 = Len(C) /\ k - 1 \in 1 .. Len(C) /\ D[k] = b /\ C # <<>>
      BY <1>1, <2>2
    <3>2. D[k - 1] = C[Len(C)]
      BY <1>1, <3>1
    <3> QED
      BY <3>1, <3>2
  <2> QED
    BY <1>1, <2>1, <2>2
<1> QED
  BY <1>2 DEF D

\* Each iteration opens a batch only where one must end.
LEMMA NextTight == Tight /\ [Next]_vars => Tight'
<1> SUFFICES ASSUME Tight, [Next]_vars PROVE Tight'
  OBVIOUS
<1>0. Inv' /\ Inv /\ TypeOK /\ TypeOK'
  BY NextInv DEF Tight, Inv
<1>1. /\ batch \in Seq(Log) /\ batches \in Seq(Seq(Log)) /\ target \in Nat /\ batch_size \in Nat
  BY <1>0, SizedType DEF TypeOK
<1>2. Range(batch) \subseteq Log
  BY <1>1 DEF Range
<1>3. CASE Push
  <2>1. /\ next \in Log /\ ~ returned /\ batch' = Append(batch, next)
        /\ batch_size' = batch_size + ItemSize(next)
        /\ UNCHANGED <<size, target, batches, returned>>
        /\ batch # <<>> => batch_size + ItemSize(next) <= target
    <3>1. ~ returned /\ next \in Log /\ ~ Overflows
      BY <1>0, <1>3 DEF Push, Inv, OpenUntilDone, Log, TypeOK
    <3>2. ItemSize(next) \in Nat
      BY <1>0, <3>1, SizedType DEF Sized
    <3> QED
      BY <1>1, <1>3, <3>1, <3>2 DEF Push, Overflows
  <2>2. Log' = Log /\ (\A S : Weight(S)' = Weight(S)) /\ \A S : Fits(S)' <=> Fits(S)
    BY <2>1 DEF Log, Weight, Fits, ItemSize
  <2>3. next \notin Range(batch)
    BY <1>0, <2>1, OpenIsBehind DEF Range
  <2>4. Range(batch)' = Range(batch) \union {next}
    <3>0. batch \in Seq(Log) /\ next \in Log
      BY <1>1, <2>1
    <3>1. Range(Append(batch, next)) = Range(batch) \union {next}
      BY <3>0, RangeAppend
    <3> QED
      BY <2>1, <3>1
  <2>5. Weight(Range(batch) \union {next}) = batch_size'
    BY <1>0, <1>2, <2>1, <2>3, WeightFacts DEF Tight, Accounted
  <2>6. Fits(Range(batch) \union {next})
    <3>1. CASE batch = <<>>
      <4>1. Range(batch) \union {next} = {next}
        BY <3>1 DEF Range
      <4> QED
        BY <4>1, SingleFits
    <3>2. CASE batch # <<>>
      BY <2>1, <2>5, <3>2 DEF Fits
    <3> QED
      BY <3>1, <3>2
  <2>7. Accounted'
    <3>1. Weight(Range(batch))' = Weight(Range(batch)')
      BY <2>2, <2>1 DEF Weight, Log, ItemSize
    <3>2. Fits(Range(batch))' <=> Fits(Range(batch)')
      BY <2>1, <3>1 DEF Fits
    <3> QED
      BY <2>4, <2>5, <2>6, <3>1, <3>2 DEF Accounted
  <2>8. WithinTarget'
    <3>1. \A k \in 1 .. Len(batches') : Fits(Range(batches'[k]))
      BY <2>1 DEF Tight, WithinTarget
    <3> QED
      BY <2>1, <3>1 DEF WithinTarget, Fits, Weight, Log, ItemSize
  <2>9. Full'
    <3>1. Cuts' = Append(batches, Append(batch, next))
      BY <1>1, <2>1 DEF Cuts
    <3>2. \A k \in 2 .. Len(Cuts') : ~ Fits(Range(Cuts'[k - 1]) \union {Cuts'[k][1]})
      <4> DEFINE c == Append(batch, next)
      <4>1. c \in Seq(Log) /\ c # <<>> /\ (batch # <<>> => c[1] = batch[1])
        BY <1>1, <2>1
      <4>2. CASE batch = <<>>
        <5>1. batches = <<>>
          BY <1>0, <4>2 DEF Inv, OpenUntilDone
        <5> HIDE DEF c
        <5> QED
          BY <1>0, <1>1, <3>1, <4>1, <5>1, FullAppend DEF c
      <4>3. CASE batch # <<>>
        <5>1. Cuts = Append(batches, batch)
          BY <2>1, <4>3 DEF Cuts
        <5>2. \A k \in 2 .. Len(batches) : ~ Fits(Range(batches[k - 1]) \union {batches[k][1]})
          <6> TAKE k \in 2 .. Len(batches)
          <6>1. k \in 2 .. Len(Cuts) /\ Cuts[k] = batches[k] /\ Cuts[k - 1] = batches[k - 1]
            BY <1>1, <5>1
          <6> QED
            BY <6>1 DEF Tight, Full
        <5>3. batches # <<>> => ~ Fits(Range(batches[Len(batches)]) \union {batch[1]})
          <6> HAVE batches # <<>>
          <6> DEFINE k == Len(batches) + 1
          <6>1. k \in 2 .. Len(Cuts) /\ Cuts[k] = batch /\ k - 1 = Len(batches)
            BY <1>1, <5>1
          <6>2. Cuts[k - 1] = batches[Len(batches)]
            BY <1>1, <5>1
          <6> HIDE DEF k
          <6> QED
            BY <6>1, <6>2 DEF Tight, Full
        <5>4. batches # <<>> => ~ Fits(Range(batches[Len(batches)]) \union {c[1]})
          BY <4>1, <4>3, <5>3
        <5> HIDE DEF c
        <5>5. \A k \in 2 .. Len(Append(batches, c)) :
                ~ Fits(Range(Append(batches, c)[k - 1]) \union {Append(batches, c)[k][1]})
          BY <1>0, <1>1, <4>1, <5>2, <5>4, FullAppend
        <5> QED
          BY <3>1, <5>5 DEF c
      <4> QED
        BY <4>2, <4>3
    <3> QED
      BY <2>1, <3>2 DEF Full, Fits, Weight, Log, ItemSize
  <2> QED
    BY <1>0, <2>7, <2>8, <2>9 DEF Tight
<1>4. CASE Cut
  <2>1. /\ next \in Log /\ ~ returned /\ batch # <<>> /\ batch' = <<next>>
        /\ batches' = Append(batches, batch) /\ batch_size' = ItemSize(next)
        /\ UNCHANGED <<size, target, returned>>
        /\ batch_size + ItemSize(next) > target /\ ItemSize(next) \in Nat
    <3>1. ~ returned /\ next \in Log
      BY <1>0, <1>4 DEF Cut, Inv, OpenUntilDone, Log, TypeOK
    <3>2. ItemSize(next) \in Nat
      BY <1>0, <3>1, SizedType DEF Sized
    <3> QED
      BY <1>4, <3>1, <3>2 DEF Cut, Overflows
  <2>2. next \notin Range(batch)
    BY <1>0, <2>1, OpenIsBehind
  <2>3. ~ Fits(Range(batch) \union {next})
    <3>1. Weight(Range(batch) \union {next}) = batch_size + ItemSize(next)
      BY <1>0, <1>2, <2>1, <2>2, WeightFacts DEF Tight, Accounted
    <3>2. Cardinality(Range(batch) \union {next}) > 1
      <4>1. batch[1] \in Range(batch)
        BY <1>1, <2>1 DEF Range
      <4>2. {batch[1], next} \in SUBSET (Range(batch) \union {next}) /\ Range(batch) \union {next} \in SUBSET Log
        BY <1>2, <2>1, <4>1
      <4>3. Cardinality({batch[1], next}) = 2
        <5>1. batch[1] # next
          BY <2>2, <4>1
        <5>2. Cardinality({batch[1]} \union {next}) = Cardinality({batch[1]}) + 1
          BY <5>1, FS_AddElement, FS_Singleton
        <5>3. Cardinality({batch[1]}) = 1 /\ {batch[1]} \union {next} = {batch[1], next}
          BY FS_Singleton
        <5> QED
          BY <5>2, <5>3
      <4>4. Cardinality({batch[1], next}) <= Cardinality(Range(batch) \union {next})
            /\ Cardinality(Range(batch) \union {next}) \in Nat
        BY <1>0, <4>2, WeightFacts
      <4> QED
        BY <4>3, <4>4
    <3>3. Cardinality(Range(batch) \union {next}) \in Nat
      BY <1>0, <1>2, <2>1, WeightFacts
    <3>4. ~ (Weight(Range(batch) \union {next}) <= target)
      BY <1>1, <2>1, <3>1
    <3>5. ~ (Cardinality(Range(batch) \union {next}) <= 1)
      BY <3>2, <3>3
    <3> QED
      BY <3>4, <3>5 DEF Fits
  <2>4. Accounted'
    <3>1. Range(batch') = {next}
      BY <2>1 DEF Range
    <3>2. Weight({next}) = ItemSize(next)
      <4>1. Weight({} \union {next}) = Weight({}) + ItemSize(next)
        BY <1>0, <2>1, WeightFacts
      <4> QED
        BY <1>0, <2>1, <4>1, WeightFacts
    <3>3. Weight(Range(batch')) = batch_size' /\ Fits(Range(batch'))
      BY <2>1, <3>1, <3>2, SingleFits
    <3> QED
      BY <2>1, <3>3 DEF Accounted, Weight, Fits, Log, ItemSize
  <2>5. WithinTarget'
    <3>1. \A k \in 1 .. Len(batches') : Fits(Range(batches'[k]))
      <4> TAKE k \in 1 .. Len(batches')
      <4>1. CASE k \in 1 .. Len(batches)
        <5>1. batches'[k] = batches[k]
          BY <1>1, <2>1, <4>1
        <5> QED
          BY <4>1, <5>1 DEF Tight, WithinTarget
      <4>2. CASE k = Len(batches) + 1
        <5>1. batches'[k] = batch
          BY <1>1, <2>1, <4>2
        <5> QED
          BY <5>1 DEF Tight, Accounted
      <4> QED
        BY <1>1, <2>1, <4>1, <4>2
    <3> QED
      BY <2>1, <3>1 DEF WithinTarget, Fits, Weight, Log, ItemSize
  <2>6. Full'
    <3>1. Cuts = Append(batches, batch) /\ Cuts' = Append(Cuts, <<next>>)
      BY <2>1 DEF Cuts
    <3>2. Cuts \in Seq(Seq(Log)) /\ Cuts # <<>> /\ Cuts[Len(Cuts)] = batch
      BY <1>1, <3>1
    <3>3. <<next>> \in Seq(Log) /\ <<next>> # <<>> /\ <<next>>[1] = next
      BY <2>1
    <3>4. \A k \in 2 .. Len(Append(Cuts, <<next>>)) :
            ~ Fits(Range(Append(Cuts, <<next>>)[k - 1]) \union {Append(Cuts, <<next>>)[k][1]})
      BY <1>0, <2>3, <3>2, <3>3, FullAppend DEF Tight, Full
    <3>5. \A k \in 2 .. Len(Cuts') : ~ Fits(Range(Cuts'[k - 1]) \union {Cuts'[k][1]})
      BY <3>1, <3>4
    <3> QED
      BY <2>1, <3>5 DEF Full, Fits, Weight, Log, ItemSize
  <2> QED
    BY <1>0, <2>4, <2>5, <2>6 DEF Tight
<1>5. CASE Return
  <2>1. /\ UNCHANGED <<size, target, batch, batch_size>> /\ ~ returned /\ returned'
        /\ batches' = IF batch = <<>> THEN batches ELSE Append(batches, batch)
    BY <1>5 DEF Return
  <2>2. Cuts' = Cuts
    BY <2>1 DEF Cuts
  <2>3. Full' /\ Accounted'
    BY <2>1, <2>2 DEF Tight, Full, Accounted, Fits, Weight, Log, ItemSize
  <2>4. WithinTarget'
    <3>1. \A k \in 1 .. Len(batches') : Fits(Range(batches'[k]))
      <4> TAKE k \in 1 .. Len(batches')
      <4>1. CASE k \in 1 .. Len(batches)
        <5>1. batches'[k] = batches[k]
          BY <1>1, <2>1, <4>1
        <5> QED
          BY <4>1, <5>1 DEF Tight, WithinTarget
      <4>2. CASE k \notin 1 .. Len(batches)
        <5>1. batches'[k] = batch
          BY <1>1, <2>1, <4>2
        <5> QED
          BY <5>1 DEF Tight, Accounted
      <4> QED
        BY <4>1, <4>2
    <3> QED
      BY <2>1, <3>1 DEF WithinTarget, Fits, Weight, Log, ItemSize
  <2> QED
    BY <1>0, <2>3, <2>4 DEF Tight
<1>6. CASE UNCHANGED vars
  BY <1>0, <1>6 DEF vars, Tight, Accounted, WithinTarget, Full, Cuts, Fits, Weight, Log, ItemSize
<1> QED
  BY <1>3, <1>4, <1>5, <1>6 DEF Next

(* Any other cut needs a batch opened by a log that the greedy cut had to leave for its next batch. *)
LEMMA NoCutIsSmaller == Tight => FewestBatches
<1> SUFFICES ASSUME Tight, returned, NEW S \in Openers, \A s \in S : Fits(Opened(S, s))
             PROVE  Len(batches) <= Cardinality(S)
  BY DEF FewestBatches
<1>0. TypeOK /\ batches \in Seq(Seq(Log)) /\ S \in SUBSET Log /\ Len(size) \in Nat /\ Len(batches) \in Nat /\ Cuts = batches
  BY SizedType DEF Tight, Inv, TypeOK, Openers, Cuts
<1>1. IsFiniteSet(S)
  BY <1>0, WeightFacts
<1> DEFINE f == [k \in 1 .. Len(batches) |-> batches[k][1]]
<1>2. ASSUME NEW k \in 1 .. Len(batches)
      PROVE  /\ batches[k] \in Seq(Log) /\ batches[k] # <<>> /\ Len(batches[k]) \in Nat \ {0}
             /\ \A p \in 1 .. Len(batches[k]) : batches[k][p] = batches[k][1] + p - 1
             /\ batches[k][1] = IF k = 1 THEN 1 ELSE batches[k - 1][Len(batches[k - 1])] + 1
             /\ batches[k][1] \in Log
  <2>1. batches[k] \in Seq(Log)
    BY <1>0
  <2>2. /\ batches[k] # <<>>
        /\ \A p \in 1 .. Len(batches[k]) : batches[k][p] = batches[k][1] + p - 1
        /\ batches[k][1] = IF k = 1 THEN 1 ELSE batches[k - 1][Len(batches[k - 1])] + 1
    BY <1>0 DEF Tight, Inv, InOrder, IsCutUpTo
  <2>3. Len(batches[k]) \in Nat \ {0} /\ batches[k][1] \in Log
    BY <2>1, <2>2
  <2> QED
    BY <2>1, <2>2, <2>3
<1>3. f \in [1 .. Len(batches) -> Nat]
  BY <1>0, <1>2 DEF Log
<1>4. ASSUME NEW k \in 1 .. Len(batches)
      PROVE  \E x \in S : x <= f[k] /\ (k > 1 => x > f[k - 1])
  <2>0. 1 \in S
    <3>1. Log # {}
      BY <1>2
    <3> QED
      BY <3>1 DEF Openers
  <2>1. CASE k = 1
    BY <1>2, <2>0, <2>1
  <2>2. CASE k # 1
    <3> SUFFICES ASSUME \A x \in S : ~ (x <= f[k] /\ x > f[k - 1]) PROVE FALSE
      BY <2>2
    <3> DEFINE j == k - 1
               c == batches[j]
               a == f[j]
               b == f[k]
    <3>1. j \in 1 .. Len(batches) /\ k \in 2 .. Len(Cuts)
      BY <1>0, <2>2
    <3>2. /\ a \in Log /\ b \in Log /\ c \in Seq(Log) /\ Len(c) \in Nat \ {0}
          /\ (\A p \in 1 .. Len(c) : c[p] = a + p - 1) /\ b = c[Len(c)] + 1
      BY <1>2, <2>2, <3>1
    <3>3. ~ Fits(Range(c) \union {b})
      BY <1>0, <3>1 DEF Tight, Full
    <3>4. \A x \in S : ~ (x <= b /\ x > a)
      OBVIOUS
    <3> HIDE DEF f, j, c, a, b
    <3>5. a \in Nat /\ b \in Nat /\ b = a + Len(c)
      <4>1. a \in Nat /\ b \in Nat
        BY <1>0, <3>2 DEF Log
      <4>2. Len(c) \in 1 .. Len(c)
        BY <3>2
      <4>3. c[Len(c)] = a + Len(c) - 1
        BY <3>2, <4>2
      <4> QED
        BY <3>2, <4>1, <4>3
    <3>6. \A i \in Range(c) \union {b} : i \in a .. b /\ i \in Log
      <4> TAKE i \in Range(c) \union {b}
      <4>1. CASE i = b
        BY <3>2, <3>5, <4>1
      <4>2. CASE i # b
        <5>1. DOMAIN c = 1 .. Len(c)
          BY <3>2
        <5>2. PICK p \in 1 .. Len(c) : i = c[p]
          BY <4>2, <5>1 DEF Range
        <5>3. i = a + p - 1 /\ i \in Log
          BY <3>2, <5>2
        <5> QED
          BY <3>5, <5>3
      <4> QED
        BY <4>1, <4>2
    <3> DEFINE T == {s \in S : s <= a}
    <3>7. T \in SUBSET Nat /\ 1 \in T
      <4>1. S \in SUBSET Nat /\ a >= 1
        BY <1>0, <3>2, <3>5 DEF Log
      <4> QED
        BY <2>0, <4>1
    <3>8. PICK s \in T : \A t \in T : t <= s
      <4>1. \A t \in T : t <= a
        OBVIOUS
      <4> HIDE DEF T
      <4> QED
        BY <3>5, <3>7, <4>1, GreatestElement
    <3>9. Range(c) \union {b} \subseteq Opened(S, s)
      <4> SUFFICES ASSUME NEW i \in Range(c) \union {b} PROVE i \in Opened(S, s)
        OBVIOUS
      <4>1. i \in Log /\ i \in a .. b /\ i >= s /\ s \in Nat
        BY <3>5, <3>6, <3>7, <3>8
      <4>2. ASSUME NEW x \in S, x \in s + 1 .. i PROVE FALSE
        <5>1. x \in Nat /\ x > s /\ x <= b
          BY <1>0, <3>5, <4>1, <4>2
        <5>2. CASE x <= a
          <6>1. x \in T
            BY <5>2
          <6> QED
            BY <3>8, <4>1, <5>1, <6>1
        <5>3. CASE x > a
          BY <3>4, <5>1, <5>3
        <5> QED
          BY <3>5, <5>1, <5>2, <5>3
      <4> QED
        BY <4>1, <4>2 DEF Opened
    <3>10. Fits(Opened(S, s)) /\ Opened(S, s) \in SUBSET Log
      BY <3>8 DEF Opened
    <3> QED
      BY <1>0, <3>3, <3>9, <3>10, FitsPart
  <2> QED
    BY <2>1, <2>2
<1>5. S \in SUBSET Nat
  BY <1>0 DEF Log
<1> HIDE DEF f
<1> QED
  BY <1>0, <1>1, <1>3, <1>4, <1>5, Staircase

(* The batches keep within the target, but for a log that exceeds it by    *)
(* itself, and no other cut of the list in order has fewer of them.        *)
THEOREM BatchesAreTight == Spec => []TightBatches
<1>1. Tight => TightBatches
  BY NoCutIsSmaller DEF TightBatches, Tight
<1> QED
  BY <1>1, InitTight, NextTight, PTL DEF Spec

-----------------------------------------------------------------------------
(* Module OtlpExport.                                                      *)

(* The halves lie within the list; requests fit; sending starts when nothing is left to halve. *)
InList ==
  \A k \in 1 .. Len(O!Stretches) :
    O!Stretches[k].from \in 1 .. Len(log) /\ O!Stretches[k].to \in O!Stretches[k].from .. Len(log)
Big(l, s) ==
  SumFunctionOnSet([i \in 1 .. Len(l) |-> l[i].size], s.from .. s.to)
    + Header * Cardinality({l[i].resource : i \in s.from .. s.to}) > MaxRequest

Prepared == \A k \in 1 .. Len(requests) : ~ Big(log, requests[k])
Ordered ==
  /\ sent > 0 => pending = <<>>
  /\ answer = "ok" => pending = <<>> /\ sent = Len(requests)

OtlpInv == O!TypeOK /\ O!HalvesCoverLogs /\ InList /\ Prepared /\ Ordered

(* The operators of a library are the same in an instance. *)
LEMMA SameSum == \A w, S : O!SumFunctionOnSet(w, S) = SumFunctionOnSet(w, S)
BY DEF O!SumFunctionOnSet, O!FoldFunctionOnSet, O!MapThenFoldSet,
       SumFunctionOnSet, FoldFunctionOnSet, MapThenFoldSet

\* The instance counts with the same Cardinality.
LEMMA SameCardinality == \A S : O!Cardinality(S) = Cardinality(S)
BY DEF O!Cardinality, Cardinality

\* The size the exporter compares is the one the proof sums.
LEMMA Measured == \A s : O!TooLarge(s) <=> Big(log, s)
BY SameSum, SameCardinality
   DEF O!TooLarge, O!EncodedLen, O!LogsOf, O!ResourcesOf, Big

\* The call begins with the whole list to be halved.
LEMMA OtlpInit == ASSUME O!ConstantsOK PROVE O!Init => OtlpInv
<1> SUFFICES ASSUME O!Init PROVE OtlpInv
  OBVIOUS
<1> USE DEF O!ConstantsOK
<1>1. PICK n \in 0 .. CallLogs : log \in [1 .. n -> O!Record]
  BY DEF O!Init
<1>2. log \in Seq(O!Record) /\ Len(log) = n /\ n \in Nat /\ n <= CallLogs
  BY <1>1
<1>3. CASE log = <<>>
  <2>1. pending = <<>> /\ requests = <<>> /\ sent = 0 /\ answer = "none" /\ Len(log) = 0
    BY <1>3 DEF O!Init
  <2> QED
    BY <1>2, <2>1 DEF OtlpInv, O!TypeOK, O!HalvesCoverLogs, InList, Prepared, Ordered, O!Stretches
<1>4. CASE log # <<>>
  <2>1. pending = <<[from |-> 1, to |-> n]>> /\ requests = <<>> /\ sent = 0 /\ answer = "none" /\ n # 0
    BY <1>2, <1>4 DEF O!Init
  <2>2. [from |-> 1, to |-> n] \in O!Stretch
    BY <1>2, <2>1 DEF O!Stretch
  <2>3. pending \in Seq(O!Stretch)
    BY <2>1, <2>2
  <2>4. Len(O!Stretches) = 1 /\ O!Stretches[1] = [from |-> 1, to |-> n]
    BY <2>1 DEF O!Stretches
  <2>5. O!HalvesCoverLogs /\ InList
    BY <1>2, <2>1, <2>4 DEF O!HalvesCoverLogs, InList, O!LogsOf
  <2> QED
    BY <1>2, <2>1, <2>3, <2>5 DEF OtlpInv, O!TypeOK, Prepared, Ordered
<1> QED
  BY <1>3, <1>4

(* What a step does to the row of stretches, by position.                  *)
LEMMA Rows ==
  ASSUME NEW S, NEW r \in Seq(S), NEW p \in Seq(S)
  PROVE  /\ r \o p \in Seq(S)
         /\ Len(r \o p) = Len(r) + Len(p)
         /\ \A k \in 1 .. Len(r) : (r \o p)[k] = r[k]
         /\ \A k \in 1 .. Len(p) : (r \o p)[Len(r) + k] = p[k]
OBVIOUS

\* A stretch that fits moves on to the requests.
LEMMA MoveHead ==
  ASSUME NEW S, NEW r \in Seq(S), NEW p \in Seq(S), p # <<>>
  PROVE  Append(r, Head(p)) \o Tail(p) = r \o p
<1> DEFINE L == Append(r, Head(p)) \o Tail(p)
           R == r \o p
<1>1. Len(L) = Len(R) /\ L \in Seq(S) /\ R \in Seq(S)
  OBVIOUS
<1>2. ASSUME NEW k \in 1 .. Len(L) PROVE L[k] = R[k]
  <2>1. CASE k <= Len(r)
    BY <2>1
  <2>2. CASE k = Len(r) + 1
    BY <2>2
  <2>3. CASE k > Len(r) + 1
    BY <2>3
  <2> QED
    BY <2>1, <2>2, <2>3
<1> HIDE DEF L, R
<1>3. L = R
  BY <1>1, <1>2, SeqEqual
<1> QED
  BY <1>3 DEF L, R

\* A stretch that does not fit is replaced by its halves.
LEMMA SplitHead ==
  ASSUME NEW S, NEW r \in Seq(S), NEW p \in Seq(S), p # <<>>, NEW a \in S, NEW b \in S,
         NEW q, q = r \o (<<a, b>> \o Tail(p))
  PROVE  /\ q \in Seq(S)
         /\ Len(q) = Len(r \o p) + 1
         /\ \A k \in 1 .. Len(r) : q[k] = (r \o p)[k]
         /\ q[Len(r) + 1] = a /\ q[Len(r) + 2] = b
         /\ \A k \in Len(r) + 3 .. Len(q) : q[k] = (r \o p)[k - 1]
<1> DEFINE t == <<a, b>> \o Tail(p)
<1>0. q = r \o t
  OBVIOUS
<1>1. /\ t \in Seq(S) /\ Len(t) = Len(p) + 1 /\ t[1] = a /\ t[2] = b
      /\ \A k \in 3 .. Len(t) : t[k] = p[k - 1]
  OBVIOUS
<1> HIDE DEF t
<1>2. q \in Seq(S) /\ Len(q) = Len(r \o p) + 1
  <2>1. Len(q) = Len(r) + Len(t) /\ q \in Seq(S)
    BY <1>0, <1>1
  <2>2. Len(r \o p) = Len(r) + Len(p)
    OBVIOUS
  <2> QED
    BY <1>1, <2>1, <2>2
<1>3. \A k \in 1 .. Len(r) : q[k] = (r \o p)[k]
  BY <1>0, <1>1
<1>4. q[Len(r) + 1] = a /\ q[Len(r) + 2] = b
  BY <1>0, <1>1
<1>5. ASSUME NEW k \in Len(r) + 3 .. Len(q) PROVE q[k] = (r \o p)[k - 1]
  <2>1. q[k] = t[k - Len(r)] /\ k - Len(r) \in 3 .. Len(t)
    BY <1>0, <1>1
  <2>2. t[k - Len(r)] = p[k - Len(r) - 1]
    BY <1>1, <2>1
  <2>3. (r \o p)[k - 1] = p[k - 1 - Len(r)]
    BY <1>0, <1>1
  <2>4. k - 1 - Len(r) = k - Len(r) - 1
    BY <1>0, <1>1
  <2> QED
    BY <2>1, <2>2, <2>3, <2>4, Zenon
<1> QED
  BY <1>2, <1>3, <1>4, <1>5

\* Every step of the call keeps the invariant.
LEMMA OtlpStep == ASSUME O!ConstantsOK PROVE OtlpInv /\ [O!Next]_O!vars => OtlpInv'
<1> SUFFICES ASSUME OtlpInv, [O!Next]_O!vars PROVE OtlpInv'
  OBVIOUS
<1> USE DEF O!ConstantsOK, OtlpInv
<1>1. /\ log \in Seq(O!Record) /\ Len(log) <= CallLogs /\ Len(log) \in Nat
      /\ pending \in Seq(O!Stretch) /\ requests \in Seq(O!Stretch)
      /\ sent \in 0 .. Len(requests) /\ answer \in {"none", "ok", "err"}
  BY DEF O!TypeOK
<1>2. CASE O!Prepare
  <2>1. /\ pending # <<>> /\ requests' = Append(requests, Head(pending))
        /\ pending' = Tail(pending) /\ ~ O!TooLarge(Head(pending))
        /\ UNCHANGED <<log, sent, answer>> /\ answer = "none"
    BY <1>2 DEF O!Prepare, O!Measuring
  <2>2. O!Stretches' = O!Stretches
    BY <1>1, <2>1, MoveHead DEF O!Stretches
  <2>3. Head(pending) \in O!Stretch /\ sent = 0
    BY <1>1, <2>1 DEF Ordered
  <2>4. requests' \in Seq(O!Stretch) /\ pending' \in Seq(O!Stretch)
    BY <1>1, <2>1, <2>3
  <2>5. O!TypeOK'
    BY <1>1, <2>1, <2>3, <2>4 DEF O!TypeOK
  <2>6. O!HalvesCoverLogs' /\ InList'
    BY <2>1, <2>2 DEF O!HalvesCoverLogs, InList, O!LogsOf
  <2>7. Prepared'
    <3>1. ASSUME NEW k \in 1 .. Len(requests') PROVE ~ Big(log, requests'[k])
      <4>1. CASE k \in 1 .. Len(requests)
        BY <1>1, <2>1, <2>3, <4>1 DEF Prepared
      <4>2. CASE k = Len(requests) + 1
        <5>1. requests'[k] = Head(pending)
          BY <1>1, <2>1, <2>3, <4>2
        <5> QED
          BY <2>1, <5>1, Measured
      <4> QED
        BY <1>1, <2>1, <4>1, <4>2
    <3>2. \A k \in 1 .. Len(requests') : ~ Big(log', requests'[k])
      BY <2>1, <3>1
    <3> QED
      BY <3>2 DEF Prepared
  <2> QED
    BY <2>1, <2>3, <2>5, <2>6, <2>7 DEF Ordered
<1>3. CASE O!Halve
  <2> DEFINE h == Head(pending)
             a == O!Left(h)
             b == O!Right(h)
             n == Len(requests) + 1
  <2>1. /\ pending # <<>> /\ h.from # h.to
        /\ pending' = <<a, b>> \o Tail(pending)
        /\ UNCHANGED <<log, requests, sent, answer>> /\ answer = "none"
    BY <1>3 DEF O!Halve, O!Measuring
  <2>2. /\ h \in O!Stretch /\ n \in 1 .. Len(O!Stretches) /\ O!Stretches[n] = h
        /\ n \in Nat /\ n = Len(requests) + 1
        /\ Len(O!Stretches) \in Nat /\ Len(requests) \in Nat
    BY <1>1, <2>1 DEF O!Stretches
  <2>3. h.from \in 1 .. Len(log) /\ h.to \in h.from + 1 .. Len(log)
    BY <1>1, <2>1, <2>2 DEF InList
  <2>4. /\ a.from = h.from /\ b.from = a.to + 1 /\ b.to = h.to
        /\ a.to \in h.from .. h.to - 1 /\ b.from \in h.from + 1 .. h.to
        /\ a \in O!Stretch /\ b \in O!Stretch
    <3> HIDE DEF h
    <3>1. h = [from |-> h.from, to |-> h.to]
      BY <2>2 DEF O!Stretch
    <3>2. a = [from |-> h.from, to |-> h.from + (h.to - h.from + 1) \div 2 - 1]
      BY <2>2, <3>1 DEF O!Left, O!Stretch
    <3>3. a.to \in h.from .. h.to - 1
      BY <2>3, <3>2
    <3>4. b = [from |-> a.to + 1, to |-> h.to]
      BY <2>2, <3>1 DEF O!Right, O!Stretch
    <3>5. a.from = h.from /\ b.from = a.to + 1 /\ b.to = h.to
      BY <3>2, <3>4
    <3>6. b.from \in h.from + 1 .. h.to
      BY <2>3, <3>3, <3>5
    <3>7. a.from \in 1 .. CallLogs /\ a.to \in 1 .. CallLogs /\ b.from \in 1 .. CallLogs /\ b.to \in 1 .. CallLogs
      BY <1>1, <2>3, <3>3, <3>5, <3>6
    <3>8. a \in O!Stretch /\ b \in O!Stretch
      <4>1. a = [from |-> a.from, to |-> a.to] /\ b = [from |-> b.from, to |-> b.to]
        BY <3>2, <3>4
      <4> QED
        BY <3>7, <4>1 DEF O!Stretch
    <3> QED
      BY <3>3, <3>5, <3>6, <3>8
  <2> HIDE DEF h, a, b, n
  <2> DEFINE q == O!Stretches'
  <2>5. /\ q \in Seq(O!Stretch) /\ Len(q) = Len(O!Stretches) + 1
        /\ \A k \in 1 .. n - 1 : q[k] = O!Stretches[k]
        /\ q[n] = a /\ q[n + 1] = b
        /\ \A k \in n + 2 .. Len(q) : q[k] = O!Stretches[k - 1]
    <3>1. q = requests \o (<<a, b>> \o Tail(pending))
      BY <2>1 DEF O!Stretches
    <3> HIDE DEF q
    <3>2. /\ q \in Seq(O!Stretch) /\ Len(q) = Len(requests \o pending) + 1
          /\ \A k \in 1 .. Len(requests) : q[k] = (requests \o pending)[k]
          /\ q[Len(requests) + 1] = a /\ q[Len(requests) + 2] = b
          /\ \A k \in Len(requests) + 3 .. Len(q) : q[k] = (requests \o pending)[k - 1]
      BY <1>1, <2>1, <2>4, <3>1, SplitHead
    <3>3. n - 1 = Len(requests) /\ n + 1 = Len(requests) + 2 /\ n + 2 = Len(requests) + 3
      BY <2>2
    <3> QED
      BY <2>2, <3>2, <3>3 DEF O!Stretches
  <2> HIDE DEF q
  <2>6. ASSUME NEW k \in 1 .. Len(q)
        PROVE  /\ q[k].from \in 1 .. Len(log) /\ q[k].to \in q[k].from .. Len(log)
               /\ q[k].from = IF k = 1 THEN 1 ELSE q[k - 1].to + 1
               /\ k = Len(q) => q[k].to = Len(log)
    <3> DEFINE s == O!Stretches
    <3>0. /\ \A j \in 1 .. Len(s) : /\ s[j].from \in 1 .. Len(log)
                                    /\ s[j].to \in s[j].from .. Len(log)
                                    /\ s[j].from = IF j = 1 THEN 1 ELSE s[j - 1].to + 1
                                    /\ j = Len(s) => s[j].to = Len(log)
      BY DEF InList, O!HalvesCoverLogs
    <3> HIDE DEF s
    <3>1. CASE k < n
      <4>1. q[k] = s[k] /\ (k # 1 => q[k - 1] = s[k - 1]) /\ k # Len(q) /\ k \in 1 .. Len(s)
        BY <2>2, <2>5, <3>1 DEF s
      <4> QED
        BY <3>0, <4>1
    <3>2. CASE k = n
      <4>1. q[k] = a /\ (k # 1 => q[k - 1] = s[k - 1]) /\ k # Len(q) /\ k \in 1 .. Len(s) /\ s[k] = h
        BY <2>2, <2>5, <3>2 DEF s
      <4>2. a.from = IF k = 1 THEN 1 ELSE s[k - 1].to + 1
        BY <2>4, <3>0, <4>1
      <4> QED
        BY <2>3, <2>4, <4>1, <4>2
    <3>3. CASE k = n + 1
      <4>1. q[k] = b /\ q[k - 1] = a /\ k # 1
        BY <2>2, <2>5, <3>3
      <4>2. k = Len(q) => b.to = Len(log)
        BY <2>2, <2>4, <2>5, <3>0, <3>3 DEF s
      <4> QED
        BY <2>3, <2>4, <4>1, <4>2
    <3>4. CASE k > n + 1
      <4>1. q[k] = s[k - 1] /\ k - 1 \in 2 .. Len(s)
        BY <2>2, <2>5, <3>4 DEF s
      <4>2. q[k - 1].to = s[k - 2].to
        <5>1. CASE k = n + 2
          <6>1. q[k - 1] = b /\ s[k - 2] = h
            BY <2>2, <2>5, <5>1 DEF s
          <6> QED
            BY <2>4, <6>1
        <5>2. CASE k > n + 2
          <6>1. q[k - 1] = s[k - 2]
            BY <2>2, <2>5, <5>2 DEF s
          <6> QED
            BY <6>1
        <5> QED
          BY <2>2, <3>4, <5>1, <5>2
      <4>3. s[k - 1].from = s[k - 2].to + 1 /\ (k = Len(q) => s[k - 1].to = Len(log))
        <5>1. k - 1 # 1 /\ (k - 1) - 1 = k - 2 /\ (k = Len(q) => k - 1 = Len(s))
          BY <2>2, <2>5, <4>1 DEF s
        <5> QED
          BY <3>0, <4>1, <5>1
      <4> QED
        BY <3>0, <4>1, <4>2, <4>3
    <3> QED
      BY <2>2, <3>1, <3>2, <3>3, <3>4
  <2>7. Len(q) # 0 /\ Len(log) # 0
    BY <1>1, <2>2, <2>3, <2>5
  <2>8. O!HalvesCoverLogs' /\ InList'
    <3>1. Len(q) = Len(O!Stretches') /\ q = O!Stretches' /\ log' = log
      BY <2>1 DEF q
    <3>2. ASSUME NEW k \in 1 .. Len(q) PROVE q[k].from .. q[k].to # {}
      BY <1>1, <2>6
    <3> QED
      BY <2>6, <2>7, <3>1, <3>2 DEF O!HalvesCoverLogs, InList, O!LogsOf
  <2>9. O!TypeOK'
    <3>1. pending' \in Seq(O!Stretch)
      BY <1>1, <2>1, <2>4
    <3> QED
      BY <1>1, <2>1, <3>1 DEF O!TypeOK
  <2>10. Prepared' /\ Ordered'
    BY <2>1 DEF Prepared, Ordered
  <2> QED
    BY <2>8, <2>9, <2>10
<1>4. CASE O!Oversized \/ O!SendErr \/ O!Return \/ O!SendOk
  <2>1. UNCHANGED <<log, pending, requests>> /\ sent' \in 0 .. Len(requests)
        /\ answer' \in {"none", "ok", "err"}
    BY <1>1, <1>4 DEF O!Oversized, O!SendErr, O!Return, O!SendOk
  <2>2. Ordered'
    BY <1>1, <1>4, <2>1 DEF O!Oversized, O!SendErr, O!Return, O!SendOk, O!Sending, O!Measuring, Ordered
  <2>3. O!HalvesCoverLogs' /\ InList' /\ Prepared'
    BY <2>1 DEF O!HalvesCoverLogs, InList, Prepared, O!Stretches, O!LogsOf
  <2>4. O!TypeOK'
    BY <1>1, <2>1 DEF O!TypeOK
  <2> QED
    BY <2>2, <2>3, <2>4
<1>5. CASE UNCHANGED O!vars
  BY <1>5 DEF O!vars, O!TypeOK, O!HalvesCoverLogs, InList, Prepared, Ordered, O!Stretches, O!LogsOf
<1> QED
  BY <1>2, <1>3, <1>4, <1>5 DEF O!Next

(* A row of stretches, each starting where the one before it ends, from 1 to e. *)
Row(r, e) ==
  \A k \in 1 .. Len(r) :
    /\ r[k].from \in 1 .. e /\ r[k].to \in r[k].from .. e
    /\ r[k].from = IF k = 1 THEN 1 ELSE r[k - 1].to + 1

\* Stretches that follow each other cover the list.
LEMMA RowCovers ==
  ASSUME NEW S, NEW r \in Seq(S), NEW e \in Nat, Row(r, e), r # <<>>, r[Len(r)].to = e,
         NEW i \in 1 .. e
  PROVE  \E k \in 1 .. Len(r) : i \in r[k].from .. r[k].to
<1> DEFINE T == {k \in 1 .. Len(r) : i <= r[k].to}
<1>1. Len(r) \in T /\ T \in SUBSET Nat
  OBVIOUS
<1>2. PICK k \in T : \A j \in T : k <= j
  <2> HIDE DEF T
  <2> QED
    BY <1>1, LeastNatural
<1>3. k \in 1 .. Len(r) /\ i <= r[k].to /\ r[k].from \in Nat /\ r[k].to \in Nat
  BY DEF Row
<1>4. CASE k = 1
  BY <1>3, <1>4 DEF Row
<1>5. CASE k # 1
  <2>1. k - 1 \in 1 .. Len(r) /\ k - 1 \notin T
    BY <1>2, <1>3, <1>5
  <2>2. r[k].from = r[k - 1].to + 1 /\ r[k - 1].to < i /\ r[k - 1].to \in Nat
    BY <1>3, <1>5, <2>1 DEF Row
  <2> QED
    BY <1>3, <2>2
<1> QED
  BY <1>4, <1>5

\* Of stretches that follow each other the later has the later logs.
LEMMA RowAscends ==
  ASSUME NEW S, NEW r \in Seq(S), NEW e \in Nat, Row(r, e),
         NEW j \in 1 .. Len(r), NEW k \in 1 .. Len(r), j < k
  PROVE  r[j].to < r[k].from
<1> DEFINE G == {n \in Nat : j + n + 1 \in 1 .. Len(r) => r[j].to < r[j + n + 1].from}
<1>0. \A m \in 1 .. Len(r) : r[m].from \in Nat /\ r[m].to \in Nat /\ r[m].from <= r[m].to
  BY DEF Row
<1>1. 0 \in G
  <2>1. j + 0 + 1 \in 1 .. Len(r) => r[j + 0 + 1].from = r[j].to + 1
    BY DEF Row
  <2> QED
    BY <1>0, <2>1
<1>2. ASSUME NEW n \in Nat, n \in G PROVE n + 1 \in G
  <2> SUFFICES ASSUME j + (n + 1) + 1 \in 1 .. Len(r) PROVE r[j].to < r[j + (n + 1) + 1].from
    OBVIOUS
  <2> DEFINE m == j + n + 1
  <2>1. m \in 1 .. Len(r) /\ m + 1 \in 1 .. Len(r) /\ m + 1 = j + (n + 1) + 1 /\ r[j].to < r[m].from
    BY <1>2
  <2>2. r[m + 1].from = r[m].to + 1
    <3> HIDE DEF m
    <3>1. m + 1 # 1 /\ (m + 1) - 1 = m
      BY <2>1
    <3> QED
      BY <2>1, <3>1 DEF Row
  <2> HIDE DEF m
  <2>3. r[m].from <= r[m].to /\ r[m].from \in Nat /\ r[m].to \in Nat /\ r[j].to \in Nat
    BY <1>0, <2>1
  <2>4. r[j].to < r[m + 1].from
    BY <2>1, <2>2, <2>3
  <2> QED
    BY <2>1, <2>4
<1>3. k - j - 1 \in G
  <2>1. k - j - 1 \in Nat
    OBVIOUS
  <2> HIDE DEF G
  <2> QED
    BY <1>1, <1>2, <2>1, InductionOnNat
<1>4. j + (k - j - 1) + 1 = k
  OBVIOUS
<1> QED
  BY <1>3, <1>4

\* The halves and the requests cover the list.
LEMMA InRow ==
  ASSUME OtlpInv
  PROVE  /\ Row(O!Stretches, Len(log)) /\ O!Stretches \in Seq(O!Stretch) /\ Len(log) \in Nat
         /\ pending = <<>> => O!Stretches = requests
         /\ O!Stretches # <<>> => O!Stretches[Len(O!Stretches)].to = Len(log)
         /\ O!Stretches = <<>> <=> Len(log) = 0
<1>1. /\ log \in Seq(O!Record) /\ pending \in Seq(O!Stretch) /\ requests \in Seq(O!Stretch)
  BY DEF OtlpInv, O!TypeOK
<1>2. O!Stretches \in Seq(O!Stretch) /\ (pending = <<>> => O!Stretches = requests)
  BY <1>1 DEF O!Stretches
<1>3. Row(O!Stretches, Len(log))
  BY DEF OtlpInv, O!HalvesCoverLogs, InList, Row
<1>4. O!Stretches = <<>> <=> Len(log) = 0
  BY <1>2 DEF OtlpInv, O!HalvesCoverLogs
<1>5. O!Stretches # <<>> => O!Stretches[Len(O!Stretches)].to = Len(log)
  BY <1>2 DEF OtlpInv, O!HalvesCoverLogs
<1> QED
  BY <1>1, <1>2, <1>3, <1>4, <1>5

(* A part of a stretch that fits, fits.                                    *)
LEMMA Times == ASSUME NEW h \in Nat, NEW a \in Nat, NEW b \in Nat, a <= b PROVE h * a <= h * b
<1>1. b = a + (b - a) /\ b - a \in Nat
  OBVIOUS
<1>2. h * b = h * a + h * (b - a)
  BY <1>1
<1>3. h * (b - a) \in Nat /\ h * a \in Nat
  BY <1>1
<1> QED
  BY <1>2, <1>3

\* A part of a request that fits, fits: sizes only grow with logs.
LEMMA PartFits ==
  ASSUME O!ConstantsOK, NEW l \in Seq(O!Record),
         NEW s \in O!Stretch, s.from \in 1 .. Len(l), s.to \in s.from .. Len(l), ~ Big(l, s),
         NEW t \in O!Stretch, t.from \in s.from .. s.to, t.to \in t.from .. s.to
  PROVE  ~ Big(l, t)
<1> DEFINE w == [i \in 1 .. Len(l) |-> l[i].size]
           A == t.from .. t.to
           B == s.from .. s.to
           RA == {l[i].resource : i \in A}
           RB == {l[i].resource : i \in B}
<1>1. w \in [1 .. Len(l) -> Nat]
  <2>1. ASSUME NEW i \in 1 .. Len(l) PROVE l[i].size \in Nat
    <3>1. l[i] \in O!Record
      OBVIOUS
    <3> QED
      BY <3>1 DEF O!Record, O!ConstantsOK
  <2> QED
    BY <2>1
<1>2. A \in SUBSET B /\ B \in SUBSET (1 .. Len(l)) /\ IsFiniteSet(B)
  <2>1. IsFiniteSet(B)
    BY FS_Interval
  <2> QED
    BY <2>1
<1>3. IsFiniteSet(RB)
  <2> DEFINE f == [i \in 1 .. Len(l) |-> l[i].resource]
  <2>1. RB = {f[i] : i \in B}
    BY <1>2
  <2> HIDE DEF B, RB, f
  <2> QED
    BY <1>2, <2>1, ImageFinite, Zenon
<1>4. RA \subseteq RB
  BY <1>2
<1>a. Cardinality(RA) \in Nat /\ Cardinality(RB) \in Nat /\ Cardinality(RA) <= Cardinality(RB)
  <2> HIDE DEF RA, RB
  <2> QED
    BY <1>3, <1>4, FS_Subset, FS_CardinalityType
<1>5. SumFunctionOnSet(w, A) <= SumFunctionOnSet(w, B)
  <2> HIDE DEF w, A, B
  <2> QED
    BY <1>1, <1>2, SumMonotonic
<1>6. SumFunctionOnSet(w, A) \in Nat /\ SumFunctionOnSet(w, B) \in Nat
  <2>1. IsFiniteSet(A) /\ A \in SUBSET (1 .. Len(l)) /\ B \in SUBSET (1 .. Len(l))
    <3> HIDE DEF A, B
    <3> QED
      BY <1>2, FS_Subset
  <2> HIDE DEF w, A, B
  <2> QED
    BY <1>1, <1>2, <2>1, SumRemove
<1>7. Header * Cardinality(RA) <= Header * Cardinality(RB) /\ Header \in Nat /\ MaxRequest \in Nat
      /\ Header * Cardinality(RA) \in Nat /\ Header * Cardinality(RB) \in Nat
  <2> HIDE DEF RA, RB
  <2> QED
    BY <1>a, Times DEF O!ConstantsOK
<1>8. ~ (SumFunctionOnSet(w, B) + Header * Cardinality(RB) > MaxRequest)
  BY DEF Big
<1>9. ~ (SumFunctionOnSet(w, A) + Header * Cardinality(RA) > MaxRequest)
  <2> DEFINE x == SumFunctionOnSet(w, A)  y == SumFunctionOnSet(w, B)
             p == Header * Cardinality(RA) q == Header * Cardinality(RB)
  <2>1. x <= y /\ p <= q /\ ~ (y + q > MaxRequest) /\ x \in Nat /\ y \in Nat /\ p \in Nat /\ q \in Nat /\ MaxRequest \in Nat
    BY <1>5, <1>6, <1>7, <1>8
  <2>2. ~ (x + p > MaxRequest)
    <3> HIDE DEF x, y, p, q
    <3> QED BY <2>1
  <2> QED
    BY <2>2
<1> QED
  BY <1>9 DEF Big

\* The invariant is what the property asks for.
LEMMA Validated == ASSUME O!ConstantsOK, OtlpInv PROVE O!RequestsAreSound
<1>1. /\ log \in Seq(O!Record) /\ Len(log) \in Nat /\ Len(log) <= CallLogs /\ sent \in 0 .. Len(requests)
      /\ requests \in Seq(O!Stretch)
  BY DEF OtlpInv, O!TypeOK
<1> SUFFICES ASSUME sent > 0 PROVE
    /\ \A i \in 1 .. Len(log) : \E k \in 1 .. Len(requests) : i \in O!LogsOf(requests[k])
    /\ \A k \in 1 .. Len(requests) : ~ O!TooLarge(requests[k])
    /\ \A i \in 1 .. Len(log) : ~ O!TooLarge([from |-> i, to |-> i])
  BY DEF O!RequestsAreSound, O!ValidatedBeforeSent, OtlpInv
<1>2. pending = <<>>
  BY DEF OtlpInv, Ordered
<1>3. /\ Row(requests, Len(log)) /\ requests # <<>> /\ requests[Len(requests)].to = Len(log)
  <2>1. requests # <<>>
    BY <1>1
  <2> QED
    BY <1>2, <2>1, InRow
<1>4. ASSUME NEW i \in 1 .. Len(log)
      PROVE \E k \in 1 .. Len(requests) : i \in requests[k].from .. requests[k].to
  BY <1>1, <1>3, RowCovers
<1>5. ASSUME NEW k \in 1 .. Len(requests) PROVE ~ Big(log, requests[k])
  BY DEF OtlpInv, Prepared
<1>6. ASSUME NEW i \in 1 .. Len(log) PROVE ~ Big(log, [from |-> i, to |-> i])
  <2> DEFINE t == [from |-> i, to |-> i]
  <2>1. PICK k \in 1 .. Len(requests) : i \in requests[k].from .. requests[k].to
    BY <1>4
  <2>2. ~ Big(log, requests[k]) /\ requests[k] \in O!Stretch
    BY <1>1, <1>5
  <2>3. requests[k].from \in 1 .. Len(log) /\ requests[k].to \in requests[k].from .. Len(log)
    BY <1>3 DEF Row
  <2>4. t \in O!Stretch /\ t.from = i /\ t.to = i
    <3>1. i \in 1 .. CallLogs
      BY <1>1 DEF O!ConstantsOK
    <3> QED
      BY <3>1 DEF O!Stretch
  <2>5. t.from \in requests[k].from .. requests[k].to /\ t.to \in t.from .. requests[k].to
    BY <2>1, <2>3, <2>4
  <2> HIDE DEF t
  <2>6. ~ Big(log, t)
    BY <1>1, <2>2, <2>3, <2>4, <2>5, PartFits
  <2> QED
    BY <2>6 DEF t
<1> QED
  BY <1>4, <1>5, <1>6, Measured DEF O!LogsOf

(* Whatever the sizes of logs and resources and the limit: the halves are  *)
(* the list, in order, each fits or is a single log, and nothing is sent   *)
(* before all are known to fit.                                            *)
THEOREM OtlpRequestsAreSound ==
  O!Spec => []RequestsAreSound
<1>1. O!Init => OtlpInv
  BY OtlpAssumption, OtlpInit
<1>2. OtlpInv /\ [O!Next]_O!vars => OtlpInv'
  BY OtlpAssumption, OtlpStep
<1>3. OtlpInv => RequestsAreSound
  BY OtlpAssumption, Validated DEF RequestsAreSound
<1> QED
  BY <1>1, <1>2, <1>3, PTL DEF O!Spec

(* What has been acknowledged. *)
LEMMA AckedInOwed ==
  ASSUME OtlpInv, NEW m \in 0 .. Len(requests), pending = <<>>
  PROVE  /\ UNION {O!LogsOf(requests[k]) : k \in 1 .. m} \subseteq 1 .. Len(log)
         /\ m = Len(requests) <=> 1 .. Len(log) = UNION {O!LogsOf(requests[k]) : k \in 1 .. m}
<1> DEFINE acked == UNION {O!LogsOf(requests[k]) : k \in 1 .. m}
<1>1. /\ Row(requests, Len(log)) /\ requests \in Seq(O!Stretch) /\ Len(log) \in Nat
      /\ requests # <<>> => requests[Len(requests)].to = Len(log)
      /\ requests = <<>> <=> Len(log) = 0
  BY InRow
<1>2. \A i : i \in acked <=> \E k \in 1 .. m : i \in requests[k].from .. requests[k].to
  BY DEF O!LogsOf
<1>3. ASSUME NEW k \in 1 .. Len(requests)
      PROVE /\ requests[k].from \in 1 .. Len(log) /\ requests[k].to \in requests[k].from .. Len(log)
  BY <1>1 DEF Row
<1>4. acked \subseteq 1 .. Len(log)
  <2> HIDE DEF acked
  <2> SUFFICES ASSUME NEW i \in acked PROVE i \in 1 .. Len(log)
    OBVIOUS
  <2>1. PICK k \in 1 .. m : i \in requests[k].from .. requests[k].to
    BY <1>2
  <2>2. k \in 1 .. Len(requests)
    BY <1>1
  <2> QED
    BY <1>1, <1>3, <2>1, <2>2
<1>5. ASSUME m = Len(requests) PROVE 1 .. Len(log) \subseteq acked
  <2> HIDE DEF acked
  <2> SUFFICES ASSUME NEW i \in 1 .. Len(log) PROVE i \in acked
    OBVIOUS
  <2>1. requests # <<>>
    BY <1>1
  <2>2. \E k \in 1 .. Len(requests) : i \in requests[k].from .. requests[k].to
    BY <1>1, <2>1, RowCovers
  <2> QED
    BY <1>2, <1>5, <2>2
<1>6. ASSUME m # Len(requests) PROVE \E i \in 1 .. Len(log) : i \notin acked
  <2> DEFINE n == m + 1
  <2>1. n \in 1 .. Len(requests)
    BY <1>1, <1>6
  <2>2. requests[n].from \in 1 .. Len(log)
    BY <1>3, <2>1
  <2>3. ASSUME NEW k \in 1 .. m PROVE requests[n].from \notin requests[k].from .. requests[k].to
    <3>1. k \in 1 .. Len(requests) /\ k < n
      BY <1>1
    <3>2. requests[k].to < requests[n].from
      <4> HIDE DEF n
      <4> QED
        BY <1>1, <2>1, <3>1, RowAscends
    <3> QED
      BY <1>3, <2>2, <3>1, <3>2
  <2> HIDE DEF acked
  <2> QED
    BY <1>2, <2>2, <2>3
<1> HIDE DEF acked
<1>7. acked \subseteq 1 .. Len(log) /\ (m = Len(requests) <=> 1 .. Len(log) = acked)
  BY <1>4, <1>5, <1>6
<1> QED
  BY <1>7 DEF acked

\* Every step of the call is a step of Shipment, or none.
LEMMA OtlpSteps == ASSUME OtlpInv, [O!Next]_O!vars PROVE [O!Ship!Next]_O!Ship!vars
<1> DEFINE Acked(m) == UNION {O!LogsOf(requests[k]) : k \in 1 .. m}
<1>0. sent \in 0 .. Len(requests) /\ requests \in Seq(O!Stretch) /\ pending \in Seq(O!Stretch)
  BY DEF OtlpInv, O!TypeOK
<1>1. ASSUME UNCHANGED log, UNCHANGED requests
      PROVE UNION {O!LogsOf(requests[k]) : k \in 1 .. sent}' = UNION {O!LogsOf(requests[k]) : k \in 1 .. sent'}
  BY <1>1 DEF O!LogsOf
<1>2. CASE O!Prepare \/ O!Halve
  <2>1. UNCHANGED <<log, sent, answer>> /\ sent = 0
    BY <1>0, <1>2 DEF O!Prepare, O!Halve, O!Measuring, OtlpInv, Ordered
  <2> QED
    BY <2>1 DEF O!Ship!vars
<1>3. CASE O!Oversized
  <2>1. pending # <<>> /\ sent = 0 /\ answer = "none" /\ answer' = "err" /\ UNCHANGED <<log, pending, requests, sent>>
    BY <1>0, <1>3 DEF O!Oversized, O!Measuring, OtlpInv, Ordered
  <2>2. Len(log) # 0 /\ Len(log) \in Nat
    <3>1. O!Stretches # <<>>
      <4>1. Len(O!Stretches) = Len(requests) + Len(pending) /\ Len(pending) # 0
        BY <1>0, <2>1 DEF O!Stretches
      <4> QED
        BY <1>0, <4>1
    <3> QED
      BY <3>1, InRow
  <2>3. UNION {O!LogsOf(requests[k]) : k \in 1 .. sent} = {} /\ 1 .. Len(log) # {}
    BY <2>1, <2>2
  <2> QED
    BY <1>1, <2>1, <2>3 DEF O!Ship!Next, O!Ship!Answer
<1>4. CASE O!SendOk
  <2>1. pending = <<>> /\ answer = "none" /\ sent' = sent + 1 /\ sent + 1 \in 0 .. Len(requests)
        /\ UNCHANGED <<log, pending, requests, answer>>
    BY <1>0, <1>4 DEF O!SendOk, O!Sending
  <2>2. Acked(sent) \subseteq Acked(sent + 1)
    BY <1>0
  <2>3. Acked(sent + 1) \subseteq 1 .. Len(log)
    BY <2>1, AckedInOwed
  <2>4. UNION {O!LogsOf(requests[k]) : k \in 1 .. sent}' = Acked(sent + 1)
    BY <1>1, <2>1
  <2> QED
    BY <2>1, <2>2, <2>3, <2>4 DEF O!Ship!Next, O!Ship!Ack
<1>5. CASE O!SendErr \/ O!Return
  <2>1. /\ pending = <<>> /\ answer = "none" /\ UNCHANGED <<log, pending, requests, sent>>
        /\ answer' = IF sent = Len(requests) THEN "ok" ELSE "err"
    BY <1>0, <1>5 DEF O!SendErr, O!Return, O!Sending
  <2>2. sent = Len(requests) <=> 1 .. Len(log) = Acked(sent)
    BY <1>0, <2>1, AckedInOwed
  <2> QED
    BY <1>1, <2>1, <2>2 DEF O!Ship!Next, O!Ship!Answer
<1>6. CASE UNCHANGED O!vars
  BY <1>6 DEF O!vars, O!Ship!vars, O!LogsOf
<1> QED
  BY <1>2, <1>3, <1>4, <1>5, <1>6 DEF O!Next

(* The call implements Shipment: it answers once, and Ok exactly if every  *)
(* log of the list has been accepted.                                      *)
THEOREM OtlpImplementsShipment ==
  O!Spec => O!Shipped
<1>1. O!Init => OtlpInv
  BY OtlpAssumption, OtlpInit
<1>2. OtlpInv /\ [O!Next]_O!vars => OtlpInv'
  BY OtlpAssumption, OtlpStep
<1>3. O!Init => O!Ship!Init
  <2> SUFFICES ASSUME O!Init PROVE O!Ship!Init
    OBVIOUS
  <2>1. sent = 0 /\ answer = "none"
    BY DEF O!Init
  <2> QED
    BY <2>1 DEF O!Ship!Init
<1>4. OtlpInv /\ [O!Next]_O!vars => [O!Ship!Next]_O!Ship!vars
  BY OtlpSteps
<1> QED
  BY <1>1, <1>2, <1>3, <1>4, PTL DEF O!Spec, O!Shipped, O!Ship!Spec

-----------------------------------------------------------------------------
(* Module TraceExport.  What is said of records and groups is said of them *)
(* given as arguments.                                                     *)
TraceSpan == 1 .. MaxRecords

(* The groups whose spans are of their resource. *)
Own(rs) ==
  {g \in Trace!Group : \A k \in DOMAIN g.spans : rs[g.spans[k]].resource = g.resource}

(* Spans, resource by resource and in the order of their records. *)
Lexical(rs) ==
  {p \in TraceSpan \X TraceSpan :
     \/ rs[p[1]].resource < rs[p[2]].resource
     \/ rs[p[1]].resource = rs[p[2]].resource /\ p[1] < p[2]}

(* The spans of groups, one group after the other, and of lists of groups. *)
LineOf(gs)  == Flattened([g \in DOMAIN gs |-> gs[g].spans])
WholeOf(ls) == LineOf(Flattened(ls))

(* The groups that have spans. *)
Filled(q) == Flattened([k \in DOMAIN q |-> Trace!Part(q[k].resource, q[k].spans)])

\* The instance flattens as DataFacts does.
LEMMA TraceFlattened == ASSUME NEW ss PROVE Trace!FlattenSeq(ss) = Flattened(ss)
BY DEF Trace!FlattenSeq, Flattened, IsFlattening

\* So it does with groups.
LEMMA TraceLine == ASSUME NEW gs PROVE Trace!SpansOf(gs) = LineOf(gs)
BY TraceFlattened DEF Trace!SpansOf, LineOf

\* The line of no group.
LEMMA LineEmpty == LineOf(<<>>) = <<>>
<1>1. [g \in DOMAIN <<>> |-> <<>>[g].spans] = <<>>
  OBVIOUS
<1> QED
  BY <1>1, FlattenedEmpty DEF LineOf

\* The line of one more group.
LEMMA LineAppend ==
  ASSUME NEW gs \in Seq(Trace!Group), NEW g \in Trace!Group
  PROVE  /\ LineOf(gs) \in Seq(TraceSpan)
         /\ LineOf(Append(gs, g)) = LineOf(gs) \o g.spans
         /\ g.spans \in Seq(TraceSpan)
<1> DEFINE a == Append(gs, g)
           T == Seq(TraceSpan)
           m == [k \in DOMAIN gs |-> gs[k].spans]
           n == [k \in DOMAIN a |-> a[k].spans]
<1>1. /\ a \in Seq(Trace!Group) /\ Len(gs) \in Nat
      /\ DOMAIN gs = 1 .. Len(gs) /\ DOMAIN a = 1 .. Len(gs) + 1
      /\ \A k \in DOMAIN gs : a[k] = gs[k]
      /\ a[Len(gs) + 1] = g
  OBVIOUS
<1>2. \A h \in Trace!Group : h.spans \in T
  BY DEF Trace!Group, TraceSpan
<1>3. m \in Seq(T) /\ Len(m) = Len(gs)
  BY <1>1, <1>2
<1> HIDE DEF a
<1>4. n = Append(m, g.spans)
  <2>1. g.spans \in T
    BY <1>2
  <2> HIDE DEF T
  <2>2. Append(m, g.spans) = [k \in 1 .. Len(gs) + 1 |-> IF k = Len(gs) + 1 THEN g.spans ELSE m[k]]
    BY <1>3, <2>1
  <2>3. \A k \in 1 .. Len(gs) + 1 : a[k].spans = IF k = Len(gs) + 1 THEN g.spans ELSE m[k]
    BY <1>1
  <2> QED
    BY <1>1, <2>2, <2>3
<1> HIDE DEF m, n
<1>5. Flattened(m) \in Seq(TraceSpan) /\ Flattened(Append(m, g.spans)) = Flattened(m) \o g.spans
  BY <1>2, <1>3, FlattenedAppend, FlattenedType
<1> QED
  BY <1>2, <1>4, <1>5 DEF LineOf, m, n, a

\* The line of one group.
LEMMA LineSingle ==
  ASSUME NEW g \in Trace!Group
  PROVE  LineOf(<<g>>) = g.spans
<1> DEFINE e == <<>>
           u == <<g>>
<1>1. e \in Seq(Trace!Group) /\ u = Append(e, g)
  OBVIOUS
<1>2. LineOf(e) = <<>>
  BY LineEmpty
<1> HIDE DEF e, u
<1>3. LineOf(u) = LineOf(e) \o g.spans /\ g.spans \in Seq(TraceSpan)
  BY <1>1, LineAppend
<1>4. LineOf(u) = g.spans
  BY <1>2, <1>3
<1> QED
  BY <1>4 DEF u

\* Lines are sequences of spans.
LEMMA LineType ==
  ASSUME NEW gs \in Seq(Trace!Group)
  PROVE  LineOf(gs) \in Seq(TraceSpan)
<1> DEFINE T == Seq(TraceSpan)
           m == [k \in DOMAIN gs |-> gs[k].spans]
<1>1. \A h \in Trace!Group : h.spans \in T
  BY DEF Trace!Group, TraceSpan
<1>2. m \in Seq(T)
  BY <1>1
<1> HIDE DEF m
<1> QED
  BY <1>2, FlattenedType DEF LineOf, m

\* The line of a concatenation.
LEMMA LineConcat ==
  ASSUME NEW gs \in Seq(Trace!Group), NEW hs \in Seq(Trace!Group)
  PROVE  LineOf(gs \o hs) = LineOf(gs) \o LineOf(hs)
<1> DEFINE T == Trace!Group
           G == {t \in Seq(T) : LineOf(gs \o t) = LineOf(gs) \o LineOf(t)}
<1>0. LineOf(gs) \in Seq(TraceSpan)
  BY LineType
<1>1. <<>> \in G
  <2> DEFINE e == <<>>
  <2>1. e \in Seq(T) /\ gs \o e = gs /\ LineOf(gs) \o e = LineOf(gs)
    BY <1>0
  <2>2. LineOf(e) = e
    BY LineEmpty
  <2> HIDE DEF e
  <2>3. e \in G
    BY <2>1, <2>2
  <2> QED
    BY <2>3 DEF e
<1>2. ASSUME NEW t \in Seq(T), NEW g \in T, t \in G PROVE Append(t, g) \in G
  <2> DEFINE a == Append(t, g)
             c == gs \o t
             f == LineOf(gs)
             h == LineOf(t)
  <2>1. a \in Seq(T) /\ c \in Seq(T) /\ gs \o a = Append(c, g)
    OBVIOUS
  <2>2. h \in Seq(TraceSpan) /\ g.spans \in Seq(TraceSpan) /\ LineOf(a) = h \o g.spans
    BY LineAppend
  <2>3. LineOf(c) = f \o h
    BY <1>2
  <2> HIDE DEF a, c, f, h
  <2>4. LineOf(Append(c, g)) = LineOf(c) \o g.spans
    BY <2>1, LineAppend
  <2>5. (f \o h) \o g.spans = f \o (h \o g.spans)
    <3> DEFINE S == TraceSpan
               s == g.spans
    <3>1. f \in Seq(S) /\ h \in Seq(S) /\ s \in Seq(S)
      BY <1>0, <2>2 DEF f
    <3> HIDE DEF S, s
    <3>2. (f \o h) \o s = f \o (h \o s)
      BY <3>1
    <3> QED
      BY <3>2 DEF s
  <2>6. a \in G
    BY <2>1, <2>2, <2>3, <2>4, <2>5 DEF f
  <2> QED
    BY <2>6 DEF a
<1>3. hs \in G
  <2> HIDE DEF G
  <2> QED
    BY <1>1, <1>2, InductionOnSeq
<1> QED
  BY <1>3

\* Without the empty groups the line is the same.
LEMMA FilledFacts ==
  ASSUME NEW rs, NEW q \in Seq(Own(rs))
  PROVE  Filled(q) \in Seq(Own(rs)) /\ LineOf(Filled(q)) = LineOf(q)
<1> DEFINE T == Own(rs)
           G == {t \in Seq(T) : Filled(t) \in Seq(T) /\ LineOf(Filled(t)) = LineOf(t)}
           part(g) == Trace!Part(g.resource, g.spans)
<1>0. T \subseteq Trace!Group /\ Seq(T) \subseteq Seq(Trace!Group)
  BY DEF Own
<1>p. ASSUME NEW g \in T PROVE part(g) \in Seq(T) /\ LineOf(part(g)) = g.spans
  <2>1. CASE g.spans = <<>>
    BY <2>1, LineEmpty DEF Trace!Part
  <2>2. CASE g.spans # <<>>
    <3>1. g = [resource |-> g.resource, spans |-> g.spans] /\ g \in Trace!Group
      BY <1>0 DEF Trace!Group
    <3>2. part(g) = <<g>>
      BY <2>2, <3>1 DEF Trace!Part
    <3>3. LineOf(<<g>>) = g.spans
      BY <3>1, LineSingle
    <3>4. <<g>> \in Seq(T)
      OBVIOUS
    <3> QED
      BY <3>2, <3>3, <3>4
  <2> QED
    BY <2>1, <2>2
<1>1. <<>> \in G
  <2> DEFINE e == <<>>
  <2>1. e \in Seq(T) /\ [k \in DOMAIN e |-> part(e[k])] = e
    OBVIOUS
  <2>2. Flattened(e) = e
    BY FlattenedEmpty
  <2>3. Filled(e) = e
    BY <2>1, <2>2 DEF Filled
  <2> HIDE DEF e
  <2>4. e \in G
    BY <2>1, <2>3
  <2> QED
    BY <2>4 DEF e
<1>2. ASSUME NEW t \in Seq(T), NEW g \in T, t \in G PROVE Append(t, g) \in G
  <2> DEFINE a == Append(t, g)
             U == Seq(T)
             m == [k \in DOMAIN t |-> part(t[k])]
             n == [k \in DOMAIN a |-> part(a[k])]
  <2>1. /\ a \in Seq(T) /\ Len(t) \in Nat
        /\ DOMAIN t = 1 .. Len(t) /\ DOMAIN a = 1 .. Len(t) + 1
        /\ \A k \in DOMAIN t : a[k] = t[k] /\ t[k] \in T
        /\ a[Len(t) + 1] = g
    OBVIOUS
  <2> HIDE DEF a
  <2>2. \A k \in DOMAIN t : part(t[k]) \in U
    BY <1>p, <2>1
  <2>3. m \in Seq(U) /\ Len(m) = Len(t)
    <3> HIDE DEF U, part
    <3> QED
      BY <2>1, <2>2
  <2>4. n = Append(m, part(g))
    <3>1. part(g) \in U
      BY <1>p
    <3> HIDE DEF U, part
    <3>2. Append(m, part(g)) = [k \in 1 .. Len(t) + 1 |-> IF k = Len(t) + 1 THEN part(g) ELSE m[k]]
      BY <2>3, <3>1
    <3>3. \A k \in 1 .. Len(t) + 1 : part(a[k]) = IF k = Len(t) + 1 THEN part(g) ELSE m[k]
      BY <2>1
    <3> QED
      BY <2>1, <3>2, <3>3
  <2>5. Filled(t) = Flattened(m) /\ Filled(a) = Flattened(n)
    BY DEF Filled
  <2>6. part(g) \in Seq(T) /\ LineOf(part(g)) = g.spans
    BY <1>p
  <2>7. Filled(t) \in Seq(T) /\ LineOf(Filled(t)) = LineOf(t)
    BY <1>2
  <2> DEFINE f == Filled(t)
             p == part(g)
  <2> HIDE DEF m, n, part, f, p
  <2>8. Flattened(Append(m, p)) = Flattened(m) \o p
    BY <2>3, <2>6, FlattenedAppend DEF p
  <2>9. Filled(a) = f \o p
    BY <2>4, <2>5, <2>8 DEF f, p
  <2>10. f \in Seq(T) /\ p \in Seq(T) /\ f \o p \in Seq(T)
    BY <2>6, <2>7 DEF f, p
  <2>11. LineOf(f \o p) = LineOf(f) \o LineOf(p)
    BY <1>0, <2>10, LineConcat
  <2>12. LineOf(a) = LineOf(t) \o g.spans
    <3>1. t \in Seq(Trace!Group) /\ g \in Trace!Group
      BY <1>0
    <3> QED
      BY <3>1, LineAppend DEF a
  <2>13. LineOf(Filled(a)) = LineOf(a)
    BY <2>6, <2>7, <2>9, <2>11, <2>12 DEF f, p
  <2>14. a \in G
    BY <2>1, <2>9, <2>10, <2>13
  <2> QED
    BY <2>14 DEF a
<1>3. q \in G
  <2> HIDE DEF G
  <2> QED
    BY <1>1, <1>2, InductionOnSeq
<1> QED
  BY <1>3

(* The groups of the first n spans, and those of the others, with the      *)
(* empty ones.                                                             *)
Firsts(gs, n) ==
  [g \in DOMAIN gs |-> [resource |-> gs[g].resource,
                        spans |-> SubSeq(gs[g].spans, 1, Trace!Taken(gs, n, g))]]

Rests(gs, n) ==
  [g \in DOMAIN gs |-> [resource |-> gs[g].resource, spans |-> Trace!Remaining(gs, n, g)]]

\* The smaller of two numbers.
LEMMA TraceMin ==
  ASSUME NEW a \in Nat, NEW b \in Nat
  PROVE  Trace!Min({a, b}) = IF a <= b THEN a ELSE b
<1>1. \A x \in {a, b} : (\A y \in {a, b} : x <= y) => x = IF a <= b THEN a ELSE b
  OBVIOUS
<1>2. \E x \in {a, b} : \A y \in {a, b} : x <= y
  <2>1. a <= b \/ b <= a
    OBVIOUS
  <2>2. a <= a /\ b <= b
    OBVIOUS
  <2> QED
    BY <2>1, <2>2
<1> QED
  BY <1>1, <1>2 DEF Trace!Min

\* How many spans are taken of a group, whatever follows it.
LEMMA TakenFacts ==
  ASSUME NEW gs \in Seq(Trace!Group), NEW g \in Trace!Group, NEW n \in Nat
  PROVE  /\ \A k \in DOMAIN gs : /\ Trace!Taken(Append(gs, g), n, k) = Trace!Taken(gs, n, k)
                                 /\ Trace!Taken(gs, n, k) \in 0 .. Len(gs[k].spans)
         /\ Trace!Taken(Append(gs, g), n, Len(gs) + 1)
              = IF n <= Len(LineOf(gs)) THEN 0
                ELSE IF Len(LineOf(gs)) + Len(g.spans) <= n THEN Len(g.spans) ELSE n - Len(LineOf(gs))
<1> DEFINE T == Trace!Group
           a == Append(gs, g)
<1>1. /\ a \in Seq(T) /\ Len(gs) \in Nat
      /\ DOMAIN gs = 1 .. Len(gs)
      /\ \A k \in DOMAIN gs : a[k] = gs[k] /\ gs[k] \in T
      /\ a[Len(gs) + 1] = g
  OBVIOUS
<1>2. \A h \in T : Len(h.spans) \in Nat
  BY DEF Trace!Group
<1> HIDE DEF T
<1>3. ASSUME NEW k \in DOMAIN gs
      PROVE  /\ SubSeq(a, 1, k - 1) = SubSeq(gs, 1, k - 1)
             /\ SubSeq(gs, 1, k - 1) \in Seq(T)
  BY <1>1
<1>4. SubSeq(a, 1, Len(gs) + 1 - 1) = gs
  BY <1>1
<1> HIDE DEF a
<1>5. ASSUME NEW hs \in Seq(T) PROVE Len(Trace!SpansOf(hs)) \in Nat
  BY <1>5, LineType, TraceLine DEF T
<1>6. ASSUME NEW k \in DOMAIN gs
      PROVE  /\ Trace!Taken(a, n, k) = Trace!Taken(gs, n, k)
             /\ Trace!Taken(gs, n, k) \in 0 .. Len(gs[k].spans)
  <2> DEFINE before == Len(Trace!SpansOf(SubSeq(gs, 1, k - 1)))
             room == IF n > before THEN n - before ELSE 0
             l == Len(gs[k].spans)
  <2>1. before \in Nat /\ room \in Nat /\ l \in Nat
    <3>1. before \in Nat
      BY <1>3, <1>5
    <3>2. l \in Nat
      BY <1>1, <1>2
    <3> HIDE DEF before
    <3> QED
      BY <3>1, <3>2
  <2>2. Trace!Taken(gs, n, k) = Trace!Min({l, room})
    BY DEF Trace!Taken
  <2>3. Trace!Taken(a, n, k) = Trace!Min({l, room})
    BY <1>1, <1>3 DEF Trace!Taken
  <2> HIDE DEF before, room, l
  <2>4. Trace!Min({l, room}) \in 0 .. l
    BY <2>1, TraceMin
  <2> QED
    BY <2>2, <2>3, <2>4 DEF l
<1>7. Trace!Taken(a, n, Len(gs) + 1)
        = IF n <= Len(LineOf(gs)) THEN 0
          ELSE IF Len(LineOf(gs)) + Len(g.spans) <= n THEN Len(g.spans) ELSE n - Len(LineOf(gs))
  <2> DEFINE before == Len(LineOf(gs))
             room == IF n > before THEN n - before ELSE 0
             l == Len(g.spans)
  <2>1. before \in Nat /\ l \in Nat
    BY <1>2, <1>5, TraceLine DEF T
  <2>2. Trace!Taken(a, n, Len(gs) + 1) = Trace!Min({l, room})
    <3> DEFINE k == Len(gs) + 1
    <3>1. Len(Trace!SpansOf(SubSeq(a, 1, k - 1))) = before
      <4>1. Trace!SpansOf(gs) = LineOf(gs)
        BY TraceLine
      <4> DEFINE t == SubSeq(a, 1, k - 1)
      <4>2. t = gs
        BY <1>4
      <4> HIDE DEF t
      <4> QED
        BY <4>1, <4>2 DEF t
    <3>2. Len(a[k].spans) = l
      BY <1>1, Zenon
    <3> HIDE DEF before, l, k
    <3>3. Trace!Taken(a, n, k) = Trace!Min({l, room})
      BY <3>1, <3>2 DEF Trace!Taken
    <3> QED
      BY <3>3 DEF k
  <2> HIDE DEF before, l
  <2>3. room \in Nat
    BY <2>1
  <2>4. Trace!Min({l, room}) = IF l <= room THEN l ELSE room
    BY <2>1, <2>3, TraceMin
  <2>5. Trace!Taken(a, n, Len(gs) + 1) = IF n <= before THEN 0 ELSE IF before + l <= n THEN l ELSE n - before
    BY <2>1, <2>2, <2>4
  <2> QED
    BY <2>5 DEF before, l
<1> QED
  BY <1>6, <1>7 DEF a

\* With one more group there is one more on each side.
LEMMA OneMoreGroup ==
  ASSUME NEW rs, NEW gs \in Seq(Own(rs)), NEW g \in Own(rs), NEW n \in Nat
  PROVE  \E k \in 0 .. Len(g.spans) :
           /\ k = IF n <= Len(LineOf(gs)) THEN 0
                  ELSE IF Len(LineOf(gs)) + Len(g.spans) <= n THEN Len(g.spans) ELSE n - Len(LineOf(gs))
           /\ Firsts(Append(gs, g), n)
                = Append(Firsts(gs, n), [resource |-> g.resource, spans |-> SubSeq(g.spans, 1, k)])
           /\ Rests(Append(gs, g), n)
                = Append(Rests(gs, n), [resource |-> g.resource, spans |-> SubSeq(g.spans, k + 1, Len(g.spans))])
<1> DEFINE T == Own(rs)
           a == Append(gs, g)
           k == Trace!Taken(a, n, Len(gs) + 1)
           x == [resource |-> g.resource, spans |-> SubSeq(g.spans, 1, k)]
           y == [resource |-> g.resource, spans |-> SubSeq(g.spans, k + 1, Len(g.spans))]
           f == Firsts(gs, n)
           r == Rests(gs, n)
<1>1. /\ a \in Seq(T) /\ Len(gs) \in Nat
      /\ DOMAIN gs = 1 .. Len(gs) /\ DOMAIN a = 1 .. Len(gs) + 1
      /\ \A j \in DOMAIN gs : a[j] = gs[j]
      /\ a[Len(gs) + 1] = g
  OBVIOUS
<1>2. gs \in Seq(Trace!Group) /\ g \in Trace!Group
  BY DEF Own
<1>3. /\ \A j \in DOMAIN gs : Trace!Taken(a, n, j) = Trace!Taken(gs, n, j)
      /\ k = IF n <= Len(LineOf(gs)) THEN 0
             ELSE IF Len(LineOf(gs)) + Len(g.spans) <= n THEN Len(g.spans) ELSE n - Len(LineOf(gs))
  BY <1>2, TakenFacts
<1>4. k \in 0 .. Len(g.spans)
  <2>1. Len(LineOf(gs)) \in Nat /\ Len(g.spans) \in Nat
    <3>1. LineOf(gs) \in Seq(TraceSpan) /\ g.spans \in Seq(TraceSpan)
      BY <1>2, LineAppend
    <3> QED
      BY <3>1
  <2> DEFINE l == Len(LineOf(gs))
             m == Len(g.spans)
  <2>2. k = IF n <= l THEN 0 ELSE IF l + m <= n THEN m ELSE n - l
    BY <1>3
  <2> HIDE DEF k, l, m
  <2>3. l \in Nat /\ m \in Nat
    BY <2>1 DEF l, m
  <2> QED
    BY <2>2, <2>3 DEF m
<1> DEFINE First(j) == [resource |-> a[j].resource, spans |-> SubSeq(a[j].spans, 1, Trace!Taken(a, n, j))]
           Rest(j) == [resource |-> a[j].resource, spans |-> Trace!Remaining(a, n, j)]
           first(j) == [resource |-> gs[j].resource, spans |-> SubSeq(gs[j].spans, 1, Trace!Taken(gs, n, j))]
           rest(j) == [resource |-> gs[j].resource, spans |-> Trace!Remaining(gs, n, j)]
<1> HIDE DEF a
<1>5. First(Len(gs) + 1) = x /\ Rest(Len(gs) + 1) = y
  BY <1>1 DEF Trace!Remaining
<1>6. ASSUME NEW j \in DOMAIN gs
      PROVE  First(j) = first(j) /\ Rest(j) = rest(j)
  BY <1>1, <1>3 DEF Trace!Remaining
<1>7. /\ Firsts(a, n) = [j \in 1 .. Len(gs) + 1 |-> First(j)]
      /\ Rests(a, n) = [j \in 1 .. Len(gs) + 1 |-> Rest(j)]
      /\ f = [j \in 1 .. Len(gs) |-> first(j)]
      /\ r = [j \in 1 .. Len(gs) |-> rest(j)]
  BY <1>1 DEF Firsts, Rests
<1> HIDE DEF x, y, f, r, First, Rest, first, rest, k
<1>8. Len(f) = Len(gs) /\ Len(r) = Len(gs)
  <2> DEFINE U == {first(j) : j \in 1 .. Len(gs)} \union {rest(j) : j \in 1 .. Len(gs)}
  <2>1. f \in [1 .. Len(gs) -> U] /\ r \in [1 .. Len(gs) -> U]
    BY <1>7
  <2> HIDE DEF U
  <2> QED
    BY <1>1, <2>1
<1>9. Firsts(a, n) = Append(f, x)
  <2>1. Append(f, x) = [j \in 1 .. Len(gs) + 1 |-> IF j = Len(gs) + 1 THEN x ELSE f[j]]
    BY <1>8, <1>1, <1>7 
  <2>2. \A j \in 1 .. Len(gs) + 1 : First(j) = IF j = Len(gs) + 1 THEN x ELSE f[j]
    BY <1>1, <1>5, <1>6, <1>7
  <2> QED
    BY <1>7, <2>1, <2>2
<1>10. Rests(a, n) = Append(r, y)
  <2>1. Append(r, y) = [j \in 1 .. Len(gs) + 1 |-> IF j = Len(gs) + 1 THEN y ELSE r[j]]
    BY <1>8, <1>1, <1>7
  <2>2. \A j \in 1 .. Len(gs) + 1 : Rest(j) = IF j = Len(gs) + 1 THEN y ELSE r[j]
    BY <1>1, <1>5, <1>6, <1>7
  <2> QED
    BY <1>7, <2>1, <2>2
<1> QED
  BY <1>3, <1>4, <1>9, <1>10 DEF x, y, a, f, r

\* A part of a group of its resource is one.
LEMMA PartOfOwn ==
  ASSUME NEW rs, NEW g \in Own(rs), NEW s \in Seq(TraceSpan), Elements(s) \subseteq Elements(g.spans)
  PROVE  [resource |-> g.resource, spans |-> s] \in Own(rs)
<1> DEFINE x == [resource |-> g.resource, spans |-> s]
<1>1. x \in Trace!Group
  BY DEF Own, Trace!Group, TraceSpan
<1>2. ASSUME NEW k \in DOMAIN s PROVE rs[s[k]].resource = g.resource
  <2>1. s[k] \in Elements(g.spans)
    BY DEF Elements
  <2>2. PICK j \in DOMAIN g.spans : s[k] = g.spans[j]
    BY <2>1 DEF Elements
  <2> QED
    BY <2>2 DEF Own
<1>3. x.spans = s /\ x.resource = g.resource
  OBVIOUS
<1> QED
  BY <1>1, <1>2, <1>3 DEF Own

\* The first n spans and the others are all, in order, each under its
\* resource.
LEMMA SplitLine ==
  ASSUME NEW rs, NEW gs \in Seq(Own(rs)), NEW n \in Nat
  PROVE  /\ Firsts(gs, n) \in Seq(Own(rs)) /\ Rests(gs, n) \in Seq(Own(rs))
         /\ LineOf(Firsts(gs, n)) \o LineOf(Rests(gs, n)) = LineOf(gs)
         /\ n <= Len(LineOf(gs)) => Len(LineOf(Firsts(gs, n))) = n
<1> DEFINE T == Own(rs)
           F(t) == Firsts(t, n)
           R(t) == Rests(t, n)
           G == {t \in Seq(T) :
                   /\ F(t) \in Seq(T) /\ R(t) \in Seq(T)
                   /\ LineOf(F(t)) \o LineOf(R(t)) = LineOf(t)
                   /\ Len(LineOf(t)) <= n => LineOf(R(t)) = <<>>
                   /\ n <= Len(LineOf(t)) => Len(LineOf(F(t))) = n}
<1>0. Seq(T) \subseteq Seq(Trace!Group) /\ T \subseteq Trace!Group
  BY DEF Own
<1>1. <<>> \in G
  <2> DEFINE e == <<>>
  <2>1. e \in Seq(T) /\ F(e) = e /\ R(e) = e /\ Len(e) = 0 /\ e \o e = e
    BY DEF Firsts, Rests
  <2>2. LineOf(e) = e
    BY LineEmpty
  <2> HIDE DEF e, F, R
  <2>3. Len(LineOf(e)) = 0
    BY <2>1, <2>2
  <2>4. LineOf(F(e)) = e /\ LineOf(R(e)) = e /\ LineOf(F(e)) \o LineOf(R(e)) = LineOf(e)
    BY <2>1, <2>2
  <2>5. n <= Len(LineOf(e)) => Len(LineOf(F(e))) = n
    BY <2>1, <2>2, <2>3
  <2>6. F(e) \in Seq(T) /\ R(e) \in Seq(T)
    BY <2>1
  <2>7. e \in G
    BY <2>1, <2>4, <2>5, <2>6, Zenon DEF e
  <2> QED
    BY <2>7 DEF e
<1>2. ASSUME NEW t \in Seq(T), NEW g \in T, t \in G PROVE Append(t, g) \in G
  <2> DEFINE a == Append(t, g)
             s == g.spans
             S == TraceSpan
  <2>1. PICK k \in 0 .. Len(s) :
          /\ k = IF n <= Len(LineOf(t)) THEN 0
                 ELSE IF Len(LineOf(t)) + Len(s) <= n THEN Len(s) ELSE n - Len(LineOf(t))
          /\ F(a) = Append(F(t), [resource |-> g.resource, spans |-> SubSeq(s, 1, k)])
          /\ R(a) = Append(R(t), [resource |-> g.resource, spans |-> SubSeq(s, k + 1, Len(s))])
    BY OneMoreGroup
  <2> DEFINE p == SubSeq(s, 1, k)
             q == SubSeq(s, k + 1, Len(s))
             x == [resource |-> g.resource, spans |-> p]
             y == [resource |-> g.resource, spans |-> q]
             f == LineOf(F(t))
             r == LineOf(R(t))
             l == LineOf(t)
  <2>2. a \in Seq(T)
    OBVIOUS
  <2>3. l \in Seq(S) /\ s \in Seq(S) /\ LineOf(a) = l \o s
    <3>1. t \in Seq(Trace!Group) /\ g \in Trace!Group
      BY <1>0
    <3> QED
      BY <3>1, LineAppend
  <2>4. /\ p \in Seq(S) /\ q \in Seq(S) /\ Len(p) = k /\ Len(q) = Len(s) - k /\ p \o q = s
        /\ Elements(p) \subseteq Elements(s) /\ Elements(q) \subseteq Elements(s)
    <3> HIDE DEF s, S
    <3> QED
      BY <2>3, TwoParts
  <2>5. x \in T /\ y \in T
    <3> HIDE DEF p, q
    <3> QED
      BY <2>4, PartOfOwn
  <2>6. x.spans = p /\ y.spans = q
    OBVIOUS
  <2>7. /\ F(t) \in Seq(T) /\ R(t) \in Seq(T) /\ f \o r = l
        /\ Len(l) <= n => r = <<>>
        /\ n <= Len(l) => Len(f) = n
    BY <1>2
  <2> HIDE DEF F, R, a, x, y, p, q
  <2>8. /\ F(a) \in Seq(T) /\ R(a) \in Seq(T)
        /\ f \in Seq(S) /\ r \in Seq(S)
        /\ LineOf(F(a)) = f \o p /\ LineOf(R(a)) = r \o q
    <3> DEFINE ft == F(t)
               rt == R(t)
    <3>1. ft \in Seq(T) /\ rt \in Seq(T) /\ F(a) = Append(ft, x) /\ R(a) = Append(rt, y)
      BY <2>1, <2>7 DEF x, y, p, q
    <3> HIDE DEF ft, rt
    <3>2. F(a) \in Seq(T) /\ R(a) \in Seq(T)
      BY <2>5, <3>1
    <3>3. /\ ft \in Seq(Trace!Group) /\ rt \in Seq(Trace!Group)
          /\ x \in Trace!Group /\ y \in Trace!Group
      BY <1>0, <2>5, <3>1
    <3>4. LineOf(ft) \in Seq(S) /\ LineOf(Append(ft, x)) = LineOf(ft) \o x.spans
      BY <3>3, LineAppend
    <3>5. LineOf(rt) \in Seq(S) /\ LineOf(Append(rt, y)) = LineOf(rt) \o y.spans
      BY <3>3, LineAppend
    <3> QED
      BY <2>6, <3>1, <3>2, <3>4, <3>5 DEF ft, rt
  <2> HIDE DEF f, r, l, s, S
  <2>9. Len(l) \in Nat /\ Len(s) \in Nat /\ Len(f) \in Nat /\ Len(LineOf(a)) = Len(l) + Len(s)
    BY <2>3, <2>8
  <2>10. k = IF n <= Len(l) THEN 0 ELSE IF Len(l) + Len(s) <= n THEN Len(s) ELSE n - Len(l)
    BY <2>1 DEF l
  <2>11. CASE n > Len(l)
    <3>1. r = <<>>
      BY <2>7, <2>9, <2>11
    <3>2. f = l /\ LineOf(R(a)) = q
      BY <2>4, <2>7, <2>8, <3>1
    <3>3. (f \o p) \o q = f \o s
      <4>1. (f \o p) \o q = f \o (p \o q)
        <5>1. f \in Seq(S) /\ p \in Seq(S) /\ q \in Seq(S)
          BY <2>4, <2>8
        <5> QED
          BY <5>1, ConcatAssociates
      <4> QED
        BY <2>4, <4>1
    <3>4. LineOf(F(a)) \o LineOf(R(a)) = LineOf(a)
      BY <2>3, <2>8, <3>2, <3>3
    <3>5. Len(LineOf(a)) <= n => LineOf(R(a)) = <<>>
      <4> SUFFICES ASSUME Len(LineOf(a)) <= n PROVE q = <<>>
        BY <3>2
      <4>1. k = Len(s)
        BY <2>9, <2>10, <2>11
      <4>2. Len(q) = 0
        BY <2>4, <2>9, <4>1
      <4> QED
        BY <2>4, <4>2
    <3>6. n <= Len(LineOf(a)) => Len(LineOf(F(a))) = n
      <4> SUFFICES ASSUME n <= Len(LineOf(a)) PROVE Len(LineOf(F(a))) = n
        OBVIOUS
      <4>1. k = n - Len(l)
        BY <2>9, <2>10, <2>11
      <4>2. Len(LineOf(F(a))) = Len(f) + Len(p)
        BY <2>4, <2>8, ConcatLen
      <4> QED
        BY <2>4, <2>9, <3>2, <4>1, <4>2
    <3> QED
      BY <2>2, <2>8, <3>4, <3>5, <3>6 DEF a
  <2>12. CASE n <= Len(l)
    <3>1. k = 0
      BY <2>10, <2>12
    <3>2. p = <<>> /\ q = s
      <4>1. Len(p) = 0
        BY <2>4, <3>1
      <4>2. p = <<>>
        BY <2>4, <4>1
      <4>3. q = s
        BY <2>4, <4>2
      <4> QED
        BY <4>2, <4>3
    <3>3. LineOf(F(a)) = f /\ LineOf(R(a)) = r \o s
      BY <2>8, <3>2
    <3>4. f \o (r \o s) = l \o s
      <4>1. (f \o r) \o s = f \o (r \o s)
        <5>1. f \in Seq(S) /\ r \in Seq(S) /\ s \in Seq(S)
          BY <2>3, <2>8
        <5> QED
          BY <5>1, ConcatAssociates
      <4> QED
        BY <2>7, <4>1
    <3>5. Len(f) = n
      BY <2>7, <2>12
    <3>6. Len(LineOf(a)) <= n => LineOf(R(a)) = <<>>
      <4> SUFFICES ASSUME Len(LineOf(a)) <= n PROVE LineOf(R(a)) = <<>>
        OBVIOUS
      <4>1. Len(s) = 0 /\ Len(l) <= n
        BY <2>9, <2>12
      <4>2. r = <<>> /\ s = <<>>
        BY <2>3, <2>7, <4>1
      <4> QED
        BY <3>3, <4>2
    <3> QED
      BY <2>2, <2>3, <2>8, <3>3, <3>4, <3>5, <3>6 DEF a
  <2> QED
    BY <2>9, <2>11, <2>12
<1>3. gs \in G
  <2> HIDE DEF G
  <2> QED
    BY <1>1, <1>2, InductionOnSeq
<1> QED
  BY <1>3

\* Both halves are lists of groups of their resource, and neither is empty.
LEMMA HalvesFacts ==
  ASSUME NEW rs, NEW gs \in Seq(Own(rs)), NEW n \in Nat,
         1 <= n, n < Len(LineOf(gs))
  PROVE  /\ Trace!First(gs, n) \in Seq(Own(rs)) /\ Trace!Rest(gs, n) \in Seq(Own(rs))
         /\ LineOf(Trace!First(gs, n)) \o LineOf(Trace!Rest(gs, n)) = LineOf(gs)
         /\ LineOf(Trace!First(gs, n)) # <<>> /\ LineOf(Trace!Rest(gs, n)) # <<>>
<1> DEFINE f == Firsts(gs, n)
           r == Rests(gs, n)
<1>1. Trace!First(gs, n) = Filled(f)
  BY TraceFlattened DEF Trace!First, Filled, Firsts
<1>2. Trace!Rest(gs, n) = Filled(r)
  BY TraceFlattened DEF Trace!Rest, Filled, Rests
<1>3. /\ f \in Seq(Own(rs)) /\ r \in Seq(Own(rs))
      /\ LineOf(f) \o LineOf(r) = LineOf(gs)
      /\ Len(LineOf(f)) = n
  <2>1. /\ f \in Seq(Own(rs)) /\ r \in Seq(Own(rs))
        /\ LineOf(f) \o LineOf(r) = LineOf(gs)
        /\ n <= Len(LineOf(gs)) => Len(LineOf(f)) = n
    BY SplitLine
  <2>2. n <= Len(LineOf(gs))
    <3>1. LineOf(gs) \in Seq(TraceSpan)
      BY LineType DEF Own
    <3>2. Len(LineOf(gs)) \in Nat
      BY <3>1
    <3> QED
      BY <3>2
  <2> HIDE DEF f, r
  <2> QED
    BY <2>1, <2>2
<1> HIDE DEF f, r
<1>4. /\ Filled(f) \in Seq(Own(rs)) /\ LineOf(Filled(f)) = LineOf(f)
      /\ Filled(r) \in Seq(Own(rs)) /\ LineOf(Filled(r)) = LineOf(r)
  BY <1>3, FilledFacts
<1>5. LineOf(f) \in Seq(TraceSpan) /\ LineOf(r) \in Seq(TraceSpan)
  BY <1>3, LineType DEF Own
<1>6. LineOf(f) # <<>> /\ LineOf(r) # <<>>
  <2>1. Len(LineOf(gs)) = n + Len(LineOf(r)) /\ Len(LineOf(r)) \in Nat
    BY <1>3, <1>5, ConcatLen
  <2>2. Len(LineOf(r)) # 0 /\ Len(LineOf(f)) # 0
    BY <1>3, <2>1
  <2> QED
    BY <2>2
<1> QED
  BY <1>1, <1>2, <1>3, <1>4, <1>6

-----------------------------------------------------------------------------
(* The records that become spans. *)
SpansIn(rs) ==
  {i \in 1 .. Len(rs) :
     rs[i].json /\ rs[i].end = "time" /\ rs[i].ids = "good" /\ rs[i].parent # "bad"}

Batch == {rs \in Seq(Trace!Record) : Len(rs) <= MaxRecords}

(* The spans of a resource, and all by resource. *)
At(rs, r) == Flattened([i \in 1 .. Len(rs) |-> IF i \in SpansIn(rs) /\ rs[i].resource = r THEN <<i>> ELSE <<>>])
ByResource(rs) == [r \in 1 .. MaxResource |-> [resource |-> r, spans |-> At(rs, r)]]

\* The records of a batch.
LEMMA BatchFacts ==
  ASSUME NEW rs \in Batch
  PROVE  /\ Len(rs) \in Nat /\ 1 .. Len(rs) \subseteq TraceSpan
         /\ SpansIn(rs) \subseteq 1 .. Len(rs)
         /\ \A i \in 1 .. Len(rs) : rs[i] \in Trace!Record /\ rs[i].resource \in 1 .. MaxResource
<1>1. Len(rs) \in Nat /\ 1 .. Len(rs) \subseteq TraceSpan
  BY TraceAssumption DEF Batch, TraceSpan, Trace!ConstantsOK
<1>2. \A i \in 1 .. Len(rs) : rs[i] \in Trace!Record
  <2> DEFINE T == Trace!Record
  <2>1. rs \in Seq(T)
    BY DEF Batch
  <2> HIDE DEF T
  <2>2. \A i \in 1 .. Len(rs) : rs[i] \in T
    BY <2>1
  <2> QED
    BY <2>2 DEF T
<1>3. \A x \in Trace!Record : x.resource \in 1 .. MaxResource
  BY DEF Trace!Record
<1> QED
  BY <1>1, <1>2, <1>3 DEF SpansIn

\* The spans of a resource are there, once each and in order.
LEMMA AtFacts ==
  ASSUME NEW rs \in Batch, NEW r \in 1 .. MaxResource
  PROVE  /\ At(rs, r) \in Seq(TraceSpan)
         /\ Elements(At(rs, r)) = {i \in SpansIn(rs) : rs[i].resource = r}
         /\ Pairwise(Lexical(rs), At(rs, r))
<1> DEFINE S == TraceSpan
           T == Seq(S)
           here(i) == i \in SpansIn(rs) /\ rs[i].resource = r
           m == [i \in 1 .. Len(rs) |-> IF here(i) THEN <<i>> ELSE <<>>]
<1>1. Len(rs) \in Nat /\ 1 .. Len(rs) \subseteq S /\ SpansIn(rs) \subseteq 1 .. Len(rs)
  BY BatchFacts
<1> HIDE DEF S
<1>2. ASSUME NEW i \in 1 .. Len(rs)
      PROVE  /\ m[i] \in T
             /\ Elements(m[i]) = {k \in {i} : here(k)}
             /\ Pairwise(Lexical(rs), m[i])
  <2> DEFINE e == <<>>
             s == <<i>>
  <2>1. e \in T /\ Elements(e) = {} /\ Pairwise(Lexical(rs), e)
    BY NoElement
  <2>2. s \in T /\ Elements(s) = {i} /\ Pairwise(Lexical(rs), s)
    BY <1>1, SingleElement
  <2>3. m[i] = IF here(i) THEN s ELSE e
    OBVIOUS
  <2> HIDE DEF e, s, m, here
  <2> QED
    BY <2>1, <2>2, <2>3
<1>3. m \in Seq(T) /\ DOMAIN m = 1 .. Len(rs)
  <2>1. m \in [1 .. Len(rs) -> T]
    BY <1>2
  <2> HIDE DEF T, m
  <2> QED
    BY <1>1, <2>1
<1>4. At(rs, r) = Flattened(m)
  BY DEF At
<1> HIDE DEF m
<1>5. Flattened(m) \in T
  BY <1>3, FlattenedType
<1>6. Elements(Flattened(m)) = {i \in SpansIn(rs) : rs[i].resource = r}
  <2>1. Elements(Flattened(m)) = UNION {Elements(m[k]) : k \in DOMAIN m}
    BY <1>3, FlattenedElements
  <2> QED
    BY <1>1, <1>2, <1>3, <2>1
<1>7. Pairwise(Lexical(rs), Flattened(m))
  <2>1. ASSUME NEW j \in DOMAIN m, NEW k \in DOMAIN m, j < k
        PROVE  Elements(m[j]) \X Elements(m[k]) \subseteq Lexical(rs)
    <3>1. SUFFICES ASSUME here(j), here(k) PROVE <<j, k>> \in Lexical(rs)
      <4> HIDE DEF here
      <4>1. Elements(m[j]) = {x \in {j} : here(x)} /\ Elements(m[k]) = {x \in {k} : here(x)}
        BY <1>2, <1>3
      <4> QED
        BY <4>1
    <3>2. j \in TraceSpan /\ k \in TraceSpan
      BY <1>1, <1>3 DEF S
    <3> QED
      BY <2>1, <3>1, <3>2 DEF Lexical
  <2>2. \A k \in DOMAIN m : Pairwise(Lexical(rs), m[k])
    BY <1>2, <1>3
  <2> QED
    BY <1>3, <2>1, <2>2, FlattenedPairwise
<1> QED
  BY <1>4, <1>5, <1>6, <1>7 DEF S

\* The groups of a batch have every span, resource by resource and in order.
LEMMA GroupsFacts ==
  ASSUME records \in Batch
  PROVE  /\ Trace!Groups \in Seq(Own(records))
         /\ Elements(LineOf(Trace!Groups)) = SpansIn(records)
         /\ Pairwise(Lexical(records), LineOf(Trace!Groups))
<1> DEFINE rs == records
           q == ByResource(rs)
           R == 1 .. MaxResource
           m == [r \in R |-> At(rs, r)]
           T == Seq(TraceSpan)
<1>0. MaxResource \in Nat /\ rs \in Batch
  BY TraceAssumption DEF Trace!ConstantsOK
<1>1. Trace!Groups = Filled(q)
  <2>1. Trace!Spans = SpansIn(rs)
    BY DEF Trace!Spans, Trace!Parsed, Trace!BecomesSpan, SpansIn
  <2>2. ASSUME NEW r \in R PROVE Trace!SpansAt(r) = At(rs, r)
    BY <2>1, TraceFlattened DEF Trace!SpansAt, At
  <2>3. [r \in R |-> Trace!Part(r, Trace!SpansAt(r))] = [r \in DOMAIN q |-> Trace!Part(q[r].resource, q[r].spans)]
    BY <2>2 DEF ByResource
  <2> QED
    BY <2>3, TraceFlattened DEF Trace!Groups, Filled
<1> HIDE DEF rs
<1>2. ASSUME NEW r \in R
      PROVE  /\ At(rs, r) \in T
             /\ Elements(At(rs, r)) = {i \in SpansIn(rs) : rs[i].resource = r}
             /\ Pairwise(Lexical(rs), At(rs, r))
  BY <1>0, AtFacts
<1>3. q \in Seq(Own(rs))
  <2>1. ASSUME NEW r \in R PROVE [resource |-> r, spans |-> At(rs, r)] \in Own(rs)
    <3> DEFINE x == [resource |-> r, spans |-> At(rs, r)]
    <3>1. x \in Trace!Group
      BY <1>2 DEF Trace!Group, TraceSpan
    <3>2. \A k \in DOMAIN At(rs, r) : At(rs, r)[k] \in Elements(At(rs, r))
      BY DEF Elements
    <3>3. x.spans = At(rs, r) /\ x.resource = r
      OBVIOUS
    <3> HIDE DEF x
    <3>4. \A k \in DOMAIN x.spans : rs[x.spans[k]].resource = x.resource
      BY <1>2, <3>2, <3>3
    <3> QED
      BY <3>1, <3>4 DEF Own, x
  <2>2. q \in [R -> Own(rs)]
    BY <2>1 DEF ByResource
  <2> HIDE DEF q
  <2> QED
    BY <1>0, <2>2
<1>4. m \in Seq(T) /\ DOMAIN m = R
  <2> HIDE DEF T
  <2>1. m \in [R -> T]
    BY <1>2
  <2> HIDE DEF m
  <2> QED
    BY <1>0, <2>1
<1>5. LineOf(q) = Flattened(m)
  <2>1. [g \in DOMAIN q |-> q[g].spans] = m
    BY DEF ByResource
  <2> QED
    BY <2>1 DEF LineOf
<1>6. \A r \in R : m[r] = At(rs, r)
  OBVIOUS
<1> HIDE DEF m, q
<1>7. Elements(Flattened(m)) = SpansIn(rs)
  <2>1. Elements(Flattened(m)) = UNION {Elements(m[k]) : k \in DOMAIN m}
    BY <1>4, FlattenedElements
  <2>2. \A i \in SpansIn(rs) : rs[i].resource \in R
    BY <1>0, BatchFacts
  <2> QED
    BY <1>2, <1>4, <1>6, <2>1, <2>2
<1>8. Pairwise(Lexical(rs), Flattened(m))
  <2>0. \A r \in R : \A x \in Elements(At(rs, r)) : x \in TraceSpan /\ rs[x].resource = r
    <3>1. SpansIn(rs) \subseteq TraceSpan
      BY <1>0, BatchFacts
    <3> QED
      BY <1>2, <3>1
  <2>1. ASSUME NEW j \in DOMAIN m, NEW k \in DOMAIN m, j < k
        PROVE  Elements(m[j]) \X Elements(m[k]) \subseteq Lexical(rs)
    <3>1. \A x \in Elements(m[j]) : x \in TraceSpan /\ rs[x].resource = j
      BY <1>4, <1>6, <2>0
    <3>2. \A x \in Elements(m[k]) : x \in TraceSpan /\ rs[x].resource = k
      BY <1>4, <1>6, <2>0
    <3> QED
      BY <2>1, <3>1, <3>2 DEF Lexical
  <2>2. \A k \in DOMAIN m : Pairwise(Lexical(rs), m[k])
    BY <1>2, <1>4, <1>6
  <2> QED
    BY <1>4, <2>1, <2>2, FlattenedPairwise
<1>9. Filled(q) \in Seq(Own(rs)) /\ LineOf(Filled(q)) = LineOf(q)
  BY <1>3, FilledFacts
<1> QED
  BY <1>1, <1>5, <1>7, <1>8, <1>9 DEF rs

\* The spans of a concatenation.
LEMMA WholeConcat ==
  ASSUME NEW a \in Seq(Seq(Trace!Group)), NEW b \in Seq(Seq(Trace!Group))
  PROVE  /\ WholeOf(a \o b) = WholeOf(a) \o WholeOf(b)
         /\ WholeOf(a) \in Seq(TraceSpan) /\ WholeOf(b) \in Seq(TraceSpan)
<1>1. Flattened(a \o b) = Flattened(a) \o Flattened(b)
  BY FlattenedConcat
<1>2. Flattened(a) \in Seq(Trace!Group) /\ Flattened(b) \in Seq(Trace!Group)
  BY FlattenedType
<1>3. LineOf(Flattened(a) \o Flattened(b)) = LineOf(Flattened(a)) \o LineOf(Flattened(b))
  BY <1>2, LineConcat
<1>4. LineOf(Flattened(a)) \in Seq(TraceSpan) /\ LineOf(Flattened(b)) \in Seq(TraceSpan)
  BY <1>2, LineType
<1> QED
  BY <1>1, <1>3, <1>4 DEF WholeOf

\* The spans of one list.
LEMMA WholeSingle ==
  ASSUME NEW gs \in Seq(Trace!Group)
  PROVE  WholeOf(<<gs>>) = LineOf(gs)
BY FlattenedSingle DEF WholeOf

\* A list that is halved keeps its spans.
LEMMA WholeHalved ==
  ASSUME NEW a \in Seq(Seq(Trace!Group)), NEW b \in Seq(Seq(Trace!Group)), b # <<>>,
         NEW f \in Seq(Trace!Group), NEW r \in Seq(Trace!Group),
         LineOf(f) \o LineOf(r) = LineOf(Head(b))
  PROVE  /\ <<f, r>> \o Tail(b) \in Seq(Seq(Trace!Group))
         /\ WholeOf(a \o (<<f, r>> \o Tail(b))) = WholeOf(a \o b)
<1> DEFINE T == Seq(Trace!Group)
           S == Seq(TraceSpan)
           h == Head(b)
           t == Tail(b)
           x == <<f>>
           y == <<r>>
           z == <<f, r>>
           u == <<h>>
           c == z \o t
<1>1. f \in T /\ r \in T /\ b \in Seq(T) /\ a \in Seq(T)
  OBVIOUS
<1> HIDE DEF T
<1>2. h \in T /\ t \in Seq(T) /\ x \in Seq(T) /\ y \in Seq(T) /\ z \in Seq(T)
  BY <1>1
<1>3. z = x \o y
  <2>1. Len(z) = 2 /\ z[1] = f /\ z[2] = r
    OBVIOUS
  <2>2. Len(x) = 1 /\ x[1] = f /\ Len(y) = 1 /\ y[1] = r
    OBVIOUS
  <2> DEFINE v == x \o y
  <2> HIDE DEF x, y, z
  <2>3. /\ v \in Seq(T) /\ DOMAIN v = 1 .. Len(x) + Len(y)
        /\ \A i \in 1 .. Len(x) : v[i] = x[i]
        /\ \A i \in 1 .. Len(y) : v[Len(x) + i] = y[i]
    BY <1>2, ConcatPlaces
  <2> HIDE DEF v
  <2>5. v[1] = f /\ v[1 + 1] = r /\ DOMAIN v = 1 .. 2
    BY <2>2, <2>3
  <2>6. DOMAIN z = 1 .. 2 /\ z = [i \in DOMAIN z |-> z[i]] /\ v = [i \in DOMAIN v |-> v[i]]
    BY <1>2, <2>1, <2>3
  <2>7. \A i \in 1 .. 2 : v[i] = z[i]
    BY <2>1, <2>5
  <2>4. v = z
    BY <2>5, <2>6, <2>7
  <2> QED
    BY <2>4 DEF v
<1>4. u \in Seq(T) /\ b = u \o t
  BY <1>1
<1>5. WholeOf(x) = LineOf(f) /\ WholeOf(y) = LineOf(r) /\ WholeOf(u) = LineOf(h)
  BY <1>1, <1>2, WholeSingle DEF T
<1> HIDE DEF h, t, x, y, z, u
<1>6. /\ WholeOf(z) = WholeOf(x) \o WholeOf(y)
      /\ WholeOf(x) \in S /\ WholeOf(y) \in S
  BY <1>2, <1>3, WholeConcat DEF T
<1>7. WholeOf(z) = WholeOf(u)
  BY <1>5, <1>6 DEF h
<1>8. WholeOf(b) = WholeOf(u) \o WholeOf(t)
  BY <1>2, <1>4, WholeConcat DEF T
<1>9. c \in Seq(T)
  BY <1>2
<1>10. WholeOf(c) = WholeOf(z) \o WholeOf(t)
  BY <1>2, WholeConcat DEF T
<1>11. WholeOf(c) = WholeOf(b)
  BY <1>7, <1>8, <1>10
<1> HIDE DEF c
<1>12. WholeOf(a \o c) = WholeOf(a) \o WholeOf(c)
  BY <1>1, <1>9, WholeConcat DEF T
<1>13. WholeOf(a \o b) = WholeOf(a) \o WholeOf(b)
  BY <1>1, WholeConcat DEF T
<1> QED
  BY <1>9, <1>11, <1>12, <1>13 DEF c, z, t, T

(* What is said of a batch, of lists of groups and of a request.           *)
AllSpans(rs, ls) ==
  Elements(WholeOf(ls)) = SpansIn(rs) /\ Pairwise(Lexical(rs), WholeOf(ls))

LenOf(rs, gs) ==
  SpanHeader * Len(gs)
    + Trace!SumFunctionOnSet([i \in 1 .. Len(rs) |-> rs[i].size], Trace!ToSet(Trace!SpansOf(gs)))

Fitting(rs, gs) ==
  LineOf(gs) # <<>> /\ (LenOf(rs, gs) <= MaxSpanRequest \/ Len(LineOf(gs)) = 1)

Unexpected(rs) ==
  {i \in 1 .. Len(rs) : rs[i].json /\ i \notin SpansIn(rs) /\ rs[i].end # "none"}

(* The inductive invariant of a batch. *)
TraceInv ==
  /\ records \in Seq(Input) /\ Len(records) <= MaxRecords
  /\ spansPending \in Seq(Seq(Own(records)))
  /\ spanRequests \in Seq(Seq(Own(records)))
  /\ spansSent \in 0 .. Len(spanRequests)
  /\ step \in {"map", "split", "send"}
  /\ spansAnswer \in {"none", "ok", "err"}
  /\ step = "map" => spanRequests = <<>> /\ spansPending = <<>>
  /\ step = "send" => spansPending = <<>>
  /\ step # "send" => spansSent = 0
  /\ step # "map" => AllSpans(records, spanRequests \o spansPending)
  /\ \A k \in DOMAIN spansPending : LineOf(spansPending[k]) # <<>>
  /\ \A k \in DOMAIN spanRequests : Fitting(records, spanRequests[k])
  /\ step = "map" /\ spansAnswer = "none" => unmappable = 0
  /\ step # "map" \/ spansAnswer # "none" => unmappable = Cardinality(Unexpected(records))

\* Batches that are sequences of inputs.
LEMMA InputBatch ==
  ASSUME NEW rs \in Seq(Input), Len(rs) <= MaxRecords
  PROVE  rs \in Batch
BY TraceAssumption DEF Batch, Trace!ConstantsOK

\* The records that are no spans, counted.
LEMMA UnexpectedCount ==
  ASSUME records \in Batch
  PROVE  /\ Cardinality(Unexpected(records)) \in 0 .. Len(records)
         /\ Trace!Cardinality(Trace!Parsed)
              - Trace!Cardinality({i \in Trace!Parsed : Trace!InProgress(i)})
              - Trace!Cardinality(Trace!Spans) = Cardinality(Unexpected(records))
<1> DEFINE rs == records
           N == 1 .. Len(rs)
           P == {i \in N : rs[i].json}
           A == {i \in P : rs[i].end = "none"}
           S == SpansIn(rs)
           U == Unexpected(rs)
<1>1. Len(rs) \in Nat /\ IsFiniteSet(N) /\ Cardinality(N) = Len(rs)
  <2>1. Len(rs) \in Nat
    BY BatchFacts
  <2> DEFINE l == Len(rs)
  <2> HIDE DEF l
  <2>2. l \in Nat => IsFiniteSet(1 .. l) /\ Cardinality(1 .. l) = l
    <3>1. SUFFICES ASSUME l \in Nat PROVE IsFiniteSet(1 .. l) /\ Cardinality(1 .. l) = l
      OBVIOUS
    <3>2. 1 \in Int /\ l \in Int
      BY <3>1
    <3> QED
      BY <3>1, <3>2, FS_Interval
  <2> QED
    BY <2>1, <2>2 DEF l
<1>2. P \subseteq N /\ A \subseteq P /\ S \subseteq P \ A /\ U = (P \ A) \ S /\ U \subseteq N
  BY DEF SpansIn, Unexpected
<1>3. Trace!Parsed = P /\ {i \in Trace!Parsed : Trace!InProgress(i)} = A /\ Trace!Spans = S
  BY DEF Trace!Parsed, Trace!InProgress, Trace!Spans, Trace!BecomesSpan, SpansIn
<1> HIDE DEF rs, N, P, A, S, U
<1>4. IsFiniteSet(P) /\ IsFiniteSet(A) /\ IsFiniteSet(S) /\ IsFiniteSet(U) /\ IsFiniteSet(P \ A)
  BY <1>1, <1>2, FS_Subset
<1>5. /\ Cardinality(P) \in Nat /\ Cardinality(A) \in Nat /\ Cardinality(S) \in Nat
      /\ Cardinality(U) \in Nat /\ Cardinality(P \ A) \in Nat
  BY <1>4, FS_CardinalityType
<1>6. Cardinality(P \ A) = Cardinality(P) - Cardinality(A)
  <2>1. P \cap A = A
    BY <1>2
  <2> QED
    BY <1>4, <2>1, FS_Difference
<1>7. Cardinality(U) = Cardinality(P \ A) - Cardinality(S)
  <2>1. (P \ A) \cap S = S
    BY <1>2
  <2> QED
    BY <1>2, <1>4, <2>1, FS_Difference
<1>8. Cardinality(U) <= Len(rs)
  BY <1>1, <1>2, FS_Subset
<1>9. \A X : Trace!Cardinality(X) = Cardinality(X)
  BY DEF Trace!Cardinality, Cardinality
<1>10. Cardinality(U) \in 0 .. Len(rs)
  BY <1>1, <1>5, <1>8
<1> QED
  BY <1>3, <1>5, <1>6, <1>7, <1>9, <1>10 DEF rs, U

\* A batch starts so.
LEMMA TraceInit == Trace!Init => TraceInv
<1> SUFFICES ASSUME Trace!Init PROVE TraceInv
  OBVIOUS
<1>1. records \in Seq(Input) /\ Len(records) <= MaxRecords
  <2>1. PICK n \in 0 .. MaxRecords : records \in [1 .. n -> Input]
    BY DEF Trace!Init
  <2>2. MaxRecords \in Nat
    BY TraceAssumption DEF Trace!ConstantsOK
  <2> QED
    BY <2>1, <2>2
<1>2. /\ unmappable = 0 /\ spansPending = <<>> /\ spanRequests = <<>> /\ spansSent = 0
      /\ step = "map" /\ spansAnswer = "none"
  BY DEF Trace!Init
<1>3. spansPending \in Seq(Seq(Own(records))) /\ spanRequests \in Seq(Seq(Own(records)))
  BY <1>2
<1>4. Len(spanRequests) = 0 /\ DOMAIN spanRequests = {} /\ DOMAIN spansPending = {}
  BY <1>2
<1> QED
  BY <1>1, <1>2, <1>3, <1>4 DEF TraceInv

\* Mapping the records (Map) establishes it.
LEMMA TraceMap == TraceInv /\ Trace!Map => TraceInv'
<1> SUFFICES ASSUME TraceInv, Trace!Map PROVE TraceInv'
  OBVIOUS
<1>1. /\ records \in Seq(Input) /\ Len(records) <= MaxRecords
      /\ spansPending = <<>> /\ spanRequests = <<>> /\ step = "map" /\ spansAnswer = "none"
      /\ spanRequests \in Seq(Seq(Own(records))) /\ spansPending \in Seq(Seq(Own(records)))
      /\ spansSent \in 0 .. Len(spanRequests) /\ spansSent = 0
      /\ records' = records /\ spanRequests' = spanRequests /\ spansSent' = spansSent
  BY DEF TraceInv, Trace!Map
<1>2. records \in Batch
  BY <1>1, InputBatch
<1>3. unmappable' = Cardinality(Unexpected(records))
  BY <1>2, UnexpectedCount DEF Trace!Map
<1>4. Trace!Spans = SpansIn(records)
  BY DEF Trace!Spans, Trace!Parsed, Trace!BecomesSpan, SpansIn
<1>5. DOMAIN spanRequests = {} /\ DOMAIN spansPending = {}
  BY <1>1
<1>6. CASE SpansIn(records) = {}
  <2>1. spansAnswer' = "ok" /\ spansPending' = spansPending /\ step' = step
    BY <1>4, <1>6 DEF Trace!Map
  <2> QED
    BY <1>1, <1>3, <1>5, <2>1 DEF TraceInv
<1>7. CASE SpansIn(records) # {}
  <2> DEFINE g == Trace!Groups
             p == <<g>>
  <2>1. spansPending' = p /\ step' = "split" /\ spansAnswer' = spansAnswer
    BY <1>4, <1>7 DEF Trace!Map
  <2>2. /\ g \in Seq(Own(records))
        /\ Elements(LineOf(g)) = SpansIn(records)
        /\ Pairwise(Lexical(records), LineOf(g))
    BY <1>2, GroupsFacts
  <2>3. g \in Seq(Trace!Group)
    BY <2>2 DEF Own
  <2> DEFINE T == Seq(Own(records))
  <2> HIDE DEF g, T
  <2>4. p \in Seq(T) /\ DOMAIN p = {1} /\ p[1] = g /\ <<>> \o p = p
    BY <2>2 DEF T
  <2>5. WholeOf(p) = LineOf(g)
    BY <2>3, WholeSingle
  <2>6. AllSpans(records, spanRequests \o p)
    BY <1>1, <2>2, <2>4, <2>5 DEF AllSpans
  <2>7. \A k \in DOMAIN p : LineOf(p[k]) # <<>>
    BY <1>7, <2>2, <2>4, NoElement
  <2> HIDE DEF p
  <2>8. (spansPending \in Seq(Seq(Own(records))))'
    BY <1>1, <2>1, <2>4 DEF T
  <2> QED
    BY <1>1, <1>3, <1>5, <2>1, <2>6, <2>7, <2>8 DEF TraceInv
<1> QED
  BY <1>6, <1>7

\* What an action that leaves the lists alone has to show.
LEMMA TraceKept ==
  ASSUME TraceInv, UNCHANGED <<records, unmappable, spansPending, spanRequests>>,
         (spansSent \in 0 .. Len(spanRequests))',
         step' \in {"map", "split", "send"}, spansAnswer' \in {"none", "ok", "err"},
         step' = "map" <=> step = "map",
         step' = "map" => spansAnswer' = spansAnswer,
         step' = "send" => spansPending = <<>>,
         step' # "send" => spansSent' = 0
  PROVE  TraceInv'
BY DEF TraceInv

\* A list that fits becomes a request (Prepare).
LEMMA TracePrepare == TraceInv /\ Trace!Prepare => TraceInv'
<1> SUFFICES ASSUME TraceInv, Trace!Prepare PROVE TraceInv'
  OBVIOUS
<1> DEFINE T == Seq(Own(records))
           h == Head(spansPending)
           t == Tail(spansPending)
           r == Append(spanRequests, h)
           u == <<h>>
<1>1. /\ records \in Seq(Input) /\ Len(records) <= MaxRecords
      /\ spansPending \in Seq(T) /\ spansPending # <<>>
      /\ spanRequests \in Seq(T)
      /\ spansSent \in 0 .. Len(spanRequests) /\ spansSent = 0
      /\ step = "split" /\ spansAnswer = "none"
      /\ AllSpans(records, spanRequests \o spansPending)
      /\ \A k \in DOMAIN spansPending : LineOf(spansPending[k]) # <<>>
      /\ \A k \in DOMAIN spanRequests : Fitting(records, spanRequests[k])
      /\ unmappable = Cardinality(Unexpected(records))
  BY DEF TraceInv, Trace!Prepare, Trace!Splitting
<1>2. /\ records' = records /\ unmappable' = unmappable /\ spansSent' = spansSent /\ step' = step
      /\ spansAnswer' = spansAnswer
      /\ spanRequests' = r /\ spansPending' = t
  BY DEF Trace!Prepare
<1>3. Trace!Fits(h)
  BY DEF Trace!Prepare
<1> HIDE DEF T
<1>4. /\ h \in T /\ t \in Seq(T) /\ u \in Seq(T) /\ h = spansPending[1]
      /\ 1 \in DOMAIN spansPending
      /\ \A k \in DOMAIN t : k + 1 \in DOMAIN spansPending /\ t[k] = spansPending[k + 1]
      /\ r \in Seq(T) /\ Len(r) = Len(spanRequests) + 1 /\ Len(spanRequests) \in Nat
      /\ \A k \in DOMAIN r : k = Len(r) \/ k \in DOMAIN spanRequests
      /\ \A k \in DOMAIN spanRequests : r[k] = spanRequests[k]
      /\ r[Len(r)] = h
  <2>1. h \in T /\ t \in Seq(T) /\ u \in Seq(T) /\ h = spansPending[1] /\ 1 \in DOMAIN spansPending
    BY <1>1
  <2>2. \A k \in DOMAIN t : k + 1 \in DOMAIN spansPending /\ t[k] = spansPending[k + 1]
    BY <1>1
  <2> HIDE DEF h
  <2>3. /\ r \in Seq(T) /\ Len(r) = Len(spanRequests) + 1 /\ Len(spanRequests) \in Nat
        /\ \A k \in DOMAIN r : k = Len(r) \/ k \in DOMAIN spanRequests
        /\ \A k \in DOMAIN spanRequests : r[k] = spanRequests[k]
        /\ r[Len(r)] = h
    BY <1>1, <2>1
  <2> QED
    BY <2>1, <2>2, <2>3
<1>5. r \o t = spanRequests \o spansPending
  <2>1. spansPending = u \o t /\ r = spanRequests \o u
    BY <1>1, <1>4
  <2> HIDE DEF h, t, u, r
  <2>2. (spanRequests \o u) \o t = spanRequests \o (u \o t)
    <3>1. spanRequests \in Seq(T) /\ u \in Seq(T) /\ t \in Seq(T)
      BY <1>1, <1>4
    <3> QED
      BY <3>1, ConcatAssociates
  <2> QED
    BY <2>1, <2>2
<1> HIDE DEF h, t, u, r
<1>6. LineOf(h) # <<>>
  BY <1>1, <1>4
<1>7. LineOf(h) \in Seq(TraceSpan)
  <2>1. h \in Seq(Trace!Group)
    BY <1>4 DEF T, Own
  <2> QED
    BY <2>1, LineType
<1>8. Fitting(records, h)
  <2>1. Trace!EncodedLen(h) = LenOf(records, h)
    BY DEF Trace!EncodedLen, LenOf
  <2>2. Len(LineOf(h)) <= 1 \/ LenOf(records, h) <= MaxSpanRequest
    BY <1>3, <2>1, TraceLine DEF Trace!Fits
  <2>3. Len(LineOf(h)) <= 1 => Len(LineOf(h)) = 1
    <3> DEFINE l == LineOf(h)
               S == TraceSpan
    <3> HIDE DEF l, S
    <3>1. l \in Seq(S) /\ l # <<>>
      BY <1>6, <1>7 DEF l, S
    <3>2. Len(l) \in Nat /\ Len(l) # 0
      BY <3>1
    <3> QED
      BY <3>2 DEF l
  <2> QED
    BY <1>6, <2>2, <2>3 DEF Fitting
<1>9. \A k \in DOMAIN r : Fitting(records, r[k])
  BY <1>1, <1>4, <1>8
<1>10. \A k \in DOMAIN t : LineOf(t[k]) # <<>>
  BY <1>1, <1>4
<1>11. (spansSent \in 0 .. Len(spanRequests))'
  BY <1>1, <1>2, <1>4
<1>12. (spansPending \in Seq(Seq(Own(records))) /\ spanRequests \in Seq(Seq(Own(records))))'
  BY <1>2, <1>4 DEF T
<1>13. AllSpans(records, r \o t)
  BY <1>1, <1>5
<1> QED
  BY <1>1, <1>2, <1>9, <1>10, <1>11, <1>12, <1>13 DEF TraceInv

\* A list that does not fit is halved (Halve).
LEMMA TraceHalve == TraceInv /\ Trace!Halve => TraceInv'
<1> SUFFICES ASSUME TraceInv, Trace!Halve PROVE TraceInv'
  OBVIOUS
<1> DEFINE T == Seq(Own(records))
           h == Head(spansPending)
           t == Tail(spansPending)
           n == Trace!Middle(h)
           f == Trace!First(h, n)
           r == Trace!Rest(h, n)
           z == <<f, r>>
           c == z \o t
<1>1. /\ records \in Seq(Input) /\ Len(records) <= MaxRecords
      /\ spansPending \in Seq(T) /\ spansPending # <<>>
      /\ spanRequests \in Seq(T)
      /\ spansSent \in 0 .. Len(spanRequests) /\ spansSent = 0
      /\ step = "split" /\ spansAnswer = "none"
      /\ AllSpans(records, spanRequests \o spansPending)
      /\ \A k \in DOMAIN spansPending : LineOf(spansPending[k]) # <<>>
      /\ \A k \in DOMAIN spanRequests : Fitting(records, spanRequests[k])
      /\ unmappable = Cardinality(Unexpected(records))
  BY DEF TraceInv, Trace!Halve, Trace!Splitting
<1>2. /\ records' = records /\ unmappable' = unmappable /\ spansSent' = spansSent /\ step' = step
      /\ spansAnswer' = spansAnswer
      /\ spanRequests' = spanRequests /\ spansPending' = c
  BY DEF Trace!Halve
<1>3. ~ Trace!Fits(h)
  BY DEF Trace!Halve
<1>4. /\ h \in T /\ t \in Seq(T)
      /\ \A k \in DOMAIN t : k + 1 \in DOMAIN spansPending /\ t[k] = spansPending[k + 1]
  <2> HIDE DEF T
  <2>1. h \in T /\ t \in Seq(T)
    BY <1>1
  <2>2. \A k \in DOMAIN t : k + 1 \in DOMAIN spansPending /\ t[k] = spansPending[k + 1]
    BY <1>1
  <2> QED
    BY <2>1, <2>2
<1>5. n \in Nat /\ 1 <= n /\ n < Len(LineOf(h))
  <2>1. h \in Seq(Trace!Group)
    BY <1>4 DEF Own
  <2>2. LineOf(h) \in Seq(TraceSpan)
    BY <2>1, LineType
  <2> DEFINE l == Len(LineOf(h))
  <2>3. l \in Nat
    BY <2>2
  <2>4. ~ (l <= 1) /\ n = l \div 2
    BY <1>3, TraceLine DEF Trace!Fits, Trace!Middle
  <2> HIDE DEF l, n
  <2>5. n \in Nat /\ 1 <= n /\ n < l
    BY <2>3, <2>4
  <2> QED
    BY <2>5 DEF l
<1> HIDE DEF h, t, n
<1>6. /\ f \in T /\ r \in T
      /\ LineOf(f) \o LineOf(r) = LineOf(h)
      /\ LineOf(f) # <<>> /\ LineOf(r) # <<>>
  BY <1>4, <1>5, HalvesFacts
<1> HIDE DEF f, r
<1>7. z \in Seq(T) /\ c \in Seq(T)
      /\ \A k \in DOMAIN c : c[k] = f \/ c[k] = r \/ \E j \in DOMAIN t : c[k] = t[j]
  <2> HIDE DEF T
  <2>1. z \in Seq(T) /\ Len(z) = 2 /\ z[1] = f /\ z[2] = r
    BY <1>6
  <2> HIDE DEF z
  <2>2. /\ c \in Seq(T) /\ DOMAIN z = 1 .. Len(z)
        /\ \A i \in 1 .. Len(z) : c[i] = z[i]
        /\ DOMAIN t = 1 .. Len(t)
        /\ \A i \in 1 .. Len(t) : c[Len(z) + i] = t[i]
        /\ \A i \in DOMAIN c : i \in DOMAIN z \/ \E j \in DOMAIN t : i = Len(z) + j
    <3>1. z \in Seq(T) /\ t \in Seq(T)
      BY <1>4, <2>1
    <3> QED
      BY <3>1, ConcatPlaces
  <2> QED
    BY <2>1, <2>2
<1>8. \A k \in DOMAIN c : LineOf(c[k]) # <<>>
  <2>1. \A j \in DOMAIN t : LineOf(t[j]) # <<>>
    BY <1>1, <1>4
  <2> HIDE DEF c
  <2> QED
    BY <1>6, <1>7, <2>1
<1>9. WholeOf(spanRequests \o c) = WholeOf(spanRequests \o spansPending)
  <2>1. T \subseteq Seq(Trace!Group) /\ Seq(T) \subseteq Seq(Seq(Trace!Group))
    <3>1. Own(records) \subseteq Trace!Group
      BY DEF Own
    <3>2. T \subseteq Seq(Trace!Group)
      BY <3>1
    <3> DEFINE V == Seq(Trace!Group)
    <3> HIDE DEF T, V
    <3>3. T \subseteq V
      BY <3>2 DEF V
    <3>4. Seq(T) \subseteq Seq(V)
      BY <3>3
    <3> QED
      BY <3>2, <3>4 DEF V
  <2> HIDE DEF T
  <2>2. /\ spanRequests \in Seq(Seq(Trace!Group)) /\ spansPending \in Seq(Seq(Trace!Group))
        /\ f \in Seq(Trace!Group) /\ r \in Seq(Trace!Group)
    BY <1>1, <1>6, <2>1
  <2>3. LineOf(f) \o LineOf(r) = LineOf(Head(spansPending))
    BY <1>6 DEF h
  <2>4. WholeOf(spanRequests \o (<<f, r>> \o Tail(spansPending))) = WholeOf(spanRequests \o spansPending)
    BY <1>1, <2>2, <2>3, WholeHalved
  <2> QED
    BY <2>4 DEF t
<1> HIDE DEF c
<1>10. AllSpans(records, spanRequests \o c)
  BY <1>1, <1>9 DEF AllSpans
<1>11. (spansPending \in Seq(Seq(Own(records))) /\ spanRequests \in Seq(Seq(Own(records))))'
  BY <1>1, <1>2, <1>7
<1> QED
  BY <1>1, <1>2, <1>8, <1>10, <1>11 DEF TraceInv

\* Every step keeps the invariant.
LEMMA TraceStep == TraceInv /\ [Trace!Next]_(Trace!vars) => TraceInv'
<1> SUFFICES ASSUME TraceInv, [Trace!Next]_(Trace!vars) PROVE TraceInv'
  OBVIOUS
<1>0. /\ spansSent \in 0 .. Len(spanRequests)
      /\ step \in {"map", "split", "send"} /\ spansAnswer \in {"none", "ok", "err"}
      /\ step = "send" => spansPending = <<>>
      /\ step # "send" => spansSent = 0
      /\ Len(spanRequests) \in Nat
  BY DEF TraceInv
<1>1. CASE Trace!Map
  BY <1>1, TraceMap
<1>2. CASE Trace!Prepare
  BY <1>2, TracePrepare
<1>3. CASE Trace!Halve
  BY <1>3, TraceHalve
<1>4. CASE Trace!StartSending
  BY <1>0, <1>4, TraceKept DEF Trace!StartSending, Trace!Splitting
<1>5. CASE Trace!SendOk
  <2>1. (spansSent \in 0 .. Len(spanRequests))'
    BY <1>0, <1>5 DEF Trace!SendOk
  <2> QED
    BY <1>0, <1>5, <2>1, TraceKept DEF Trace!SendOk, Trace!Sending
<1>6. CASE Trace!SendErr
  BY <1>0, <1>6, TraceKept DEF Trace!SendErr, Trace!Sending
<1>7. CASE Trace!Return
  BY <1>0, <1>7, TraceKept DEF Trace!Return, Trace!Sending
<1>8. CASE UNCHANGED Trace!vars
  BY <1>0, <1>8, TraceKept DEF Trace!vars
<1> QED
  BY <1>1, <1>2, <1>3, <1>4, <1>5, <1>6, <1>7, <1>8 DEF Trace!Next

\* The invariant has the types of the batch.
LEMMA TraceTypes == TraceInv => Trace!TypeOK
<1> SUFFICES ASSUME TraceInv PROVE Trace!TypeOK
  OBVIOUS
<1>1. /\ records \in Seq(Input) /\ Len(records) <= MaxRecords
      /\ spansPending \in Seq(Seq(Own(records)))
      /\ spanRequests \in Seq(Seq(Own(records)))
      /\ spansSent \in 0 .. Len(spanRequests)
      /\ step \in {"map", "split", "send"}
      /\ spansAnswer \in {"none", "ok", "err"}
      /\ unmappable = 0 \/ unmappable = Cardinality(Unexpected(records))
  BY DEF TraceInv
<1>2. unmappable \in 0 .. Len(records)
  <2>1. records \in Batch
    BY <1>1, InputBatch
  <2>2. Cardinality(Unexpected(records)) \in 0 .. Len(records) /\ Len(records) \in Nat
    BY <2>1, UnexpectedCount, BatchFacts
  <2> QED
    BY <1>1, <2>2
<1>3. Seq(Seq(Own(records))) \subseteq Seq(Seq(Trace!Group))
  <2>1. Own(records) \subseteq Trace!Group
    BY DEF Own
  <2> DEFINE T == Seq(Own(records))
             V == Seq(Trace!Group)
  <2>2. T \subseteq V
    BY <2>1
  <2> HIDE DEF T, V
  <2>3. Seq(T) \subseteq Seq(V)
    BY <2>2
  <2> QED
    BY <2>3 DEF T, V
<1>4. spansPending \in Seq(Seq(Trace!Group)) /\ spanRequests \in Seq(Seq(Trace!Group))
  BY <1>1, <1>3
<1> QED
  BY <1>1, <1>2, <1>4 DEF Trace!TypeOK

\* The invariant says what becomes of every record.
LEMMA TraceKeeps == TraceInv => Trace!SpansAreKept
<1> SUFFICES ASSUME TraceInv PROVE Trace!SpansAreKept
  OBVIOUS
<1>1. Trace!TypeOK
  BY TraceTypes
<1>2. Trace!Spans = SpansIn(records)
  BY DEF Trace!Spans, Trace!Parsed, Trace!BecomesSpan, SpansIn
<1>3. ASSUME step # "map" PROVE Trace!SpansKeepTheirResource
  <2> DEFINE T == Seq(Own(records))
             ls == spanRequests \o spansPending
             all == Flattened(ls)
             s == LineOf(all)
  <2>1. ls \in Seq(T) /\ AllSpans(records, ls)
    <3>1. spanRequests \in Seq(T) /\ spansPending \in Seq(T) /\ AllSpans(records, ls)
      BY <1>3 DEF TraceInv
    <3> HIDE DEF T
    <3> QED
      BY <3>1
  <2> HIDE DEF ls
  <2>2. all \in T
    BY <2>1, FlattenedType
  <2>3. Trace!Split = all
    BY TraceFlattened DEF Trace!Split, ls
  <2>4. Trace!SpansOf(Trace!Split) = s
    BY <2>3, TraceLine
  <2>5. Elements(s) = SpansIn(records) /\ Pairwise(Lexical(records), s)
    BY <2>1 DEF AllSpans, WholeOf
  <2> HIDE DEF all, s
  <2>6. Trace!ToSet(s) = Trace!Spans
    BY <1>2, <2>5 DEF Trace!ToSet, Elements
  <2>7. \A g \in DOMAIN all : \A k \in DOMAIN all[g].spans :
          records[all[g].spans[k]].resource = all[g].resource
    BY <2>2 DEF Own
  <2>8. \A j, k \in DOMAIN s : j < k =>
          \/ records[s[j]].resource < records[s[k]].resource
          \/ records[s[j]].resource = records[s[k]].resource /\ s[j] < s[k]
    BY <2>5 DEF Pairwise, Lexical
  <2> QED
    BY <2>3, <2>4, <2>6, <2>7, <2>8 DEF Trace!SpansKeepTheirResource
<1>4. Trace!RequestsFit
  <2> SUFFICES ASSUME NEW k \in DOMAIN spanRequests
               PROVE  /\ Trace!SpansOf(spanRequests[k]) # <<>>
                      /\ Trace!EncodedLen(spanRequests[k]) <= MaxSpanRequest
                           \/ Len(Trace!SpansOf(spanRequests[k])) = 1
    BY DEF Trace!RequestsFit
  <2> DEFINE gs == spanRequests[k]
  <2>1. Fitting(records, gs)
    BY DEF TraceInv
  <2> HIDE DEF gs
  <2>2. Trace!SpansOf(gs) = LineOf(gs)
    BY TraceLine
  <2>3. Trace!EncodedLen(gs) = LenOf(records, gs)
    BY DEF Trace!EncodedLen, LenOf
  <2>4. Trace!SpansOf(gs) # <<>> /\ (Trace!EncodedLen(gs) <= MaxSpanRequest \/ Len(Trace!SpansOf(gs)) = 1)
    BY <2>1, <2>2, <2>3 DEF Fitting
  <2> QED
    BY <2>4 DEF gs
<1>5. Trace!NothingDroppedSilently
  <2>1. {i \in Trace!Parsed \ Trace!Spans : records[i].end # "none"} = Unexpected(records)
    BY <1>2 DEF Trace!Parsed, Unexpected
  <2>2. Trace!Cardinality(Unexpected(records)) = Cardinality(Unexpected(records))
    BY DEF Trace!Cardinality, Cardinality
  <2>3. step # "map" \/ spansAnswer # "none" => unmappable = Cardinality(Unexpected(records))
    BY DEF TraceInv
  <2> QED
    BY <2>1, <2>2, <2>3 DEF Trace!NothingDroppedSilently
<1> QED
  BY <1>1, <1>3, <1>4, <1>5 DEF Trace!SpansAreKept, Trace!SpansKeepTheirResource

(* Traces: however often a batch is halved, within a group or between two, *)
(* every span stays in it once, under its own resource and in order; a     *)
(* request exceeds the limit only with a single span; and every record     *)
(* that parses is a span, is in progress or is reported (traces/mod.rs).   *)
THEOREM SpansAreKeptHolds == Trace!Spec => []SpansAreKept
<1>1. Trace!Init => TraceInv
  BY TraceInit
<1>2. TraceInv /\ [Trace!Next]_(Trace!vars) => TraceInv'
  BY TraceStep
<1>3. TraceInv => SpansAreKept
  BY TraceKeeps DEF SpansAreKept
<1> QED
  BY <1>1, <1>2, <1>3, PTL DEF Trace!Spec

(* The spans of the first k requests. *)
Accepted(ls, k) == Elements(WholeOf(SubSeq(ls, 1, k)))

\* What the next request adds, and what all have.
LEMMA AcceptedNext ==
  ASSUME NEW rs, NEW ls \in Seq(Seq(Own(rs))), NEW k \in Nat, k < Len(ls),
         Pairwise(Lexical(rs), WholeOf(ls)), rs \in Batch, Elements(WholeOf(ls)) = SpansIn(rs)
  PROVE  /\ Accepted(ls, k + 1) = Accepted(ls, k) \union Elements(LineOf(ls[k + 1]))
         /\ Accepted(ls, k + 1) \subseteq SpansIn(rs)
         /\ Accepted(ls, k) \intersect Elements(LineOf(ls[k + 1])) = {}
<1> DEFINE T == Seq(Trace!Group)
           S == TraceSpan
           a == SubSeq(ls, 1, k)
           x == ls[k + 1]
           u == <<x>>
           c == SubSeq(ls, 1, k + 1)
           b == SubSeq(ls, k + 1 + 1, Len(ls))
<1>1. ls \in Seq(T)
  <2>1. Own(rs) \subseteq Trace!Group
    BY DEF Own
  <2> DEFINE V == Seq(Own(rs))
  <2>2. V \subseteq T
    BY <2>1
  <2> HIDE DEF T, V
  <2>3. Seq(V) \subseteq Seq(T)
    BY <2>2
  <2>4. ls \in Seq(V)
    BY DEF V
  <2> QED
    BY <2>3, <2>4
<1> HIDE DEF T, S
<1>2. Len(ls) \in Nat /\ k + 1 \in 0 .. Len(ls) /\ k \in 0 .. Len(ls) /\ k + 1 \in 1 .. Len(ls)
  BY <1>1
<1>3. x \in T /\ u \in Seq(T)
  BY <1>1, <1>2
<1>4. a \in Seq(T) /\ c \in Seq(T) /\ b \in Seq(T) /\ c \o b = ls
  <2>1. a \in Seq(T)
    BY <1>1, <1>2, TwoParts
  <2>2. c \in Seq(T) /\ b \in Seq(T) /\ c \o b = ls
    BY <1>1, <1>2, TwoParts
  <2> QED
    BY <2>1, <2>2
<1>5. c = a \o u
  <2>1. c = Append(a, x)
    BY <1>1, <1>2
  <2> HIDE DEF x, a, c
  <2>2. Append(a, x) = a \o u
    BY <1>3, <1>4
  <2> QED
    BY <2>1, <2>2
<1>6. WholeOf(u) = LineOf(x)
  BY <1>3, WholeSingle DEF T
<1> HIDE DEF a, b, c, u, x
<1>7. /\ WholeOf(c) = WholeOf(a) \o WholeOf(u)
      /\ WholeOf(a) \in Seq(S) /\ WholeOf(u) \in Seq(S)
  BY <1>3, <1>4, <1>5, WholeConcat DEF T, S
<1>8. /\ WholeOf(ls) = WholeOf(c) \o WholeOf(b)
      /\ WholeOf(c) \in Seq(S) /\ WholeOf(b) \in Seq(S)
  BY <1>4, WholeConcat DEF T, S
<1>9. Elements(WholeOf(c)) = Elements(WholeOf(a)) \union Elements(LineOf(x))
  BY <1>6, <1>7, ConcatElements
<1>10. Elements(WholeOf(c)) \subseteq SpansIn(rs)
  <2>1. Elements(WholeOf(ls)) = Elements(WholeOf(c)) \union Elements(WholeOf(b))
    BY <1>8, ConcatElements
  <2> QED
    BY <2>1
<1>11. Elements(WholeOf(a)) \intersect Elements(LineOf(x)) = {}
  <2>1. Pairwise(Lexical(rs), WholeOf(c))
    BY <1>8, ConcatPairwise
  <2>2. Elements(WholeOf(a)) \X Elements(LineOf(x)) \subseteq Lexical(rs)
    BY <1>6, <1>7, <2>1, ConcatPairwise
  <2>3. ASSUME NEW i \in SpansIn(rs) PROVE <<i, i>> \notin Lexical(rs)
    <3>1. rs[i].resource \in 1 .. MaxResource /\ i \in Nat /\ MaxResource \in Nat
      BY BatchFacts, TraceAssumption DEF Trace!ConstantsOK
    <3> QED
      BY <3>1 DEF Lexical
  <2> QED
    BY <1>9, <1>10, <2>2, <2>3
<1> QED
  BY <1>9, <1>10, <1>11 DEF Accepted, a, c, x

\* Nothing is accepted before the first request is, and all at the end.
LEMMA AcceptedEnds ==
  ASSUME NEW S, NEW ls \in Seq(S)
  PROVE  Accepted(ls, 0) = {} /\ Accepted(ls, Len(ls)) = Elements(WholeOf(ls))
<1>1. SubSeq(ls, 1, 0) = <<>> /\ SubSeq(ls, 1, Len(ls)) = ls
  OBVIOUS
<1>2. WholeOf(<<>>) = <<>>
  BY FlattenedEmpty, LineEmpty DEF WholeOf
<1> QED
  BY <1>1, <1>2, NoElement DEF Accepted

\* What Shipment sees of a batch.
LEMMA TraceSeen ==
  /\ Trace!Spans = SpansIn(records)
  /\ Trace!ToSet(Trace!SpansOf(Trace!FlattenSeq(SubSeq(spanRequests, 1, spansSent))))
       = Accepted(spanRequests, spansSent)
<1>1. Trace!Spans = SpansIn(records)
  BY DEF Trace!Spans, Trace!Parsed, Trace!BecomesSpan, SpansIn
<1>2. \A s : Trace!ToSet(s) = Elements(s)
  BY DEF Trace!ToSet, Elements
<1> QED
  BY <1>1, <1>2, TraceFlattened, TraceLine DEF Accepted, WholeOf

\* The same after a step.
LEMMA TraceSeenNext ==
  /\ (Trace!Spans)' = SpansIn(records')
  /\ (Trace!ToSet(Trace!SpansOf(Trace!FlattenSeq(SubSeq(spanRequests, 1, spansSent)))))'
       = Accepted(spanRequests', spansSent')
<1>1. (Trace!Spans)' = SpansIn(records')
  BY DEF Trace!Spans, Trace!Parsed, Trace!BecomesSpan, SpansIn
<1>2. \A s : Trace!ToSet(s) = Elements(s)
  BY DEF Trace!ToSet, Elements
<1> QED
  BY <1>1, <1>2, TraceFlattened, TraceLine DEF Accepted, WholeOf

\* Every step of the batch is a step of Shipment, or none.
LEMMA TraceSteps == TraceInv /\ [Trace!Next]_(Trace!vars) => [Trace!Ship!Next]_(Trace!Ship!vars)
<1> SUFFICES ASSUME TraceInv, [Trace!Next]_(Trace!vars), ~ UNCHANGED Trace!Ship!vars
             PROVE  Trace!Ship!Next
  OBVIOUS
<1> DEFINE owed == SpansIn(records)
           acked == Accepted(spanRequests, spansSent)
           owed2 == SpansIn(records')
           acked2 == Accepted(spanRequests', spansSent')
<1>1. \/ owed2 # owed \/ acked2 # acked \/ spansAnswer' # spansAnswer
  BY TraceSeen, TraceSeenNext DEF Trace!Ship!vars
<1>2. SUFFICES /\ owed2 = owed
               /\ spansAnswer = "none"
               /\ \/ /\ acked \subseteq acked2 /\ acked2 \subseteq owed
                     /\ spansAnswer' = spansAnswer
                  \/ /\ acked2 = acked
                     /\ spansAnswer' = IF owed = acked THEN "ok" ELSE "err"
  <2>1. CASE acked \subseteq acked2 /\ acked2 \subseteq owed /\ spansAnswer' = spansAnswer
    BY <1>2, <2>1, TraceSeen, TraceSeenNext DEF Trace!Ship!Next, Trace!Ship!Ack
  <2>2. CASE acked2 = acked /\ spansAnswer' = IF owed = acked THEN "ok" ELSE "err"
    BY <1>2, <2>2, TraceSeen, TraceSeenNext DEF Trace!Ship!Next, Trace!Ship!Answer
  <2> QED
    BY <1>2, <2>1, <2>2
<1>3. /\ records \in Seq(Input) /\ Len(records) <= MaxRecords
      /\ spanRequests \in Seq(Seq(Own(records)))
      /\ spansSent \in 0 .. Len(spanRequests) /\ Len(spanRequests) \in Nat
      /\ step # "send" => spansSent = 0
      /\ step = "map" => spanRequests = <<>>
      /\ step = "send" => AllSpans(records, spanRequests)
      /\ \A k \in DOMAIN spanRequests : LineOf(spanRequests[k]) # <<>>
  <2>1. /\ records \in Seq(Input) /\ Len(records) <= MaxRecords
        /\ spanRequests \in Seq(Seq(Own(records)))
        /\ spansSent \in 0 .. Len(spanRequests)
        /\ step # "send" => spansSent = 0
        /\ step = "map" => spanRequests = <<>>
        /\ step = "send" => spansPending = <<>> /\ AllSpans(records, spanRequests \o spansPending)
    BY DEF TraceInv
  <2>2. \A k \in DOMAIN spanRequests : LineOf(spanRequests[k]) # <<>>
    BY DEF TraceInv, Fitting
  <2>3. spanRequests \o <<>> = spanRequests /\ Len(spanRequests) \in Nat
    BY <2>1
  <2>4. step = "send" => AllSpans(records, spanRequests)
    BY <2>1, <2>3
  <2> QED
    BY <2>1, <2>2, <2>3, <2>4
<1>4. records \in Batch
  BY <1>3, InputBatch
<1>5. ASSUME NEW ls \in Seq(Seq(Own(records)))
      PROVE  Accepted(ls, 0) = {} /\ Accepted(ls, Len(ls)) = Elements(WholeOf(ls))
  BY AcceptedEnds
<1>6. CASE Trace!Map
  <2>1. /\ spansAnswer = "none" /\ step = "map" /\ records' = records
        /\ spanRequests' = spanRequests /\ spansSent' = spansSent
    BY <1>6 DEF Trace!Map
  <2>2. owed2 = owed /\ acked2 = acked /\ acked = {}
    BY <1>3, <1>5, <2>1
  <2>3. spansAnswer' # spansAnswer
    BY <1>1, <2>2
  <2>4. owed = {} /\ spansAnswer' = "ok"
    BY <1>6, <2>3, TraceSeen DEF Trace!Map
  <2> QED
    BY <2>1, <2>2, <2>4
<1>7. CASE Trace!Prepare
  <2>1. /\ step = "split" /\ records' = records /\ spansSent' = spansSent /\ spansAnswer' = spansAnswer
        /\ spansSent = 0
    BY <1>3, <1>7 DEF Trace!Prepare, Trace!Splitting
  <2>2. acked = {}
    BY <1>3, <1>5, <2>1
  <2>3. acked2 = {}
    <3>1. (spanRequests \in Seq(Seq(Own(records))))'
      BY <1>7, TracePrepare DEF TraceInv
    <3>2. Accepted(spanRequests', 0) = {}
      BY <3>1, AcceptedEnds
    <3> QED
      BY <2>1, <3>2
  <2> QED
    BY <1>1, <2>1, <2>2, <2>3
<1>8. CASE Trace!Halve \/ Trace!StartSending
  BY <1>1, <1>8 DEF Trace!Halve, Trace!StartSending
<1>9. CASE Trace!SendOk \/ Trace!SendErr
  <2>1. /\ step = "send" /\ spansAnswer = "none" /\ spansSent < Len(spanRequests)
        /\ records' = records /\ spanRequests' = spanRequests
    BY <1>9 DEF Trace!SendOk, Trace!SendErr, Trace!Sending
  <2> DEFINE more == Elements(LineOf(spanRequests[spansSent + 1]))
             later == Accepted(spanRequests, spansSent + 1)
  <2>2. /\ later = acked \union more
        /\ later \subseteq owed
        /\ acked \intersect more = {}
    <3>1. /\ Elements(WholeOf(spanRequests)) = SpansIn(records)
          /\ Pairwise(Lexical(records), WholeOf(spanRequests))
      BY <1>3, <2>1 DEF AllSpans
    <3>2. spansSent \in Nat
      BY <1>3
    <3> QED
      BY <1>3, <1>4, <2>1, <3>1, <3>2, AcceptedNext
  <2>3. more # {}
    <3> DEFINE l == LineOf(spanRequests[spansSent + 1])
    <3>1. spansSent + 1 \in DOMAIN spanRequests
      BY <1>3, <2>1
    <3>2. l # <<>>
      BY <1>3, <3>1
    <3>3. l \in Seq(TraceSpan)
      <4> DEFINE V == Seq(Own(records))
      <4> HIDE DEF V
      <4>1. spanRequests \in Seq(V)
        BY <1>3 DEF V
      <4>2. spanRequests[spansSent + 1] \in V
        BY <3>1, <4>1
      <4>3. spanRequests[spansSent + 1] \in Seq(Trace!Group)
        BY <4>2 DEF V, Own
      <4> QED
        BY <4>3, LineType
    <3> DEFINE S == TraceSpan
    <3> HIDE DEF l, S
    <3>4. l \in Seq(S)
      BY <3>3 DEF S
    <3>5. 1 \in DOMAIN l
      BY <3>2, <3>4
    <3>6. l[1] \in Elements(l)
      BY <3>5 DEF Elements
    <3> QED
      BY <3>6 DEF l
  <2> HIDE DEF more, later
  <2>4. CASE Trace!SendOk
    <3>1. acked2 = later /\ spansAnswer' = spansAnswer
      BY <2>1, <2>4 DEF Trace!SendOk, later
    <3> QED
      BY <2>1, <2>2, <3>1
  <2>5. CASE Trace!SendErr
    <3>1. spansSent' = spansSent /\ spansAnswer' = "err"
      BY <2>5 DEF Trace!SendErr
    <3>2. acked2 = acked
      BY <2>1, <3>1
    <3>3. acked # owed
      BY <2>2, <2>3
    <3> QED
      BY <2>1, <3>1, <3>2, <3>3
  <2> QED
    BY <1>9, <2>4, <2>5
<1>10. CASE Trace!Return
  <2>1. /\ step = "send" /\ spansAnswer = "none" /\ spansSent = Len(spanRequests)
        /\ records' = records /\ spanRequests' = spanRequests /\ spansSent' = spansSent
        /\ spansAnswer' = "ok"
    BY <1>10 DEF Trace!Return, Trace!Sending
  <2>2. acked = owed
    BY <1>3, <1>5, <2>1 DEF AllSpans
  <2> QED
    BY <2>1, <2>2
<1>11. CASE UNCHANGED Trace!vars
  BY <1>1, <1>11 DEF Trace!vars
<1> QED
  BY <1>6, <1>7, <1>8, <1>9, <1>10, <1>11 DEF Trace!Next

\* The batch of spans implements Shipment.
LEMMA TraceImplementsShipment == Trace!Spec => Trace!Shipped
<1>1. Trace!Init => TraceInv
  BY TraceInit
<1>2. TraceInv /\ [Trace!Next]_(Trace!vars) => TraceInv'
  BY TraceStep
<1>3. Trace!Init => Trace!Ship!Init
  <2> SUFFICES ASSUME Trace!Init PROVE Trace!Ship!Init
    OBVIOUS
  <2>1. spanRequests = <<>> /\ spansSent = 0 /\ spansAnswer = "none"
    BY DEF Trace!Init
  <2>2. Accepted(spanRequests, spansSent) = {}
    <3> DEFINE e == <<>>
    <3>1. e \in Seq(Trace!Group)
      OBVIOUS
    <3>2. spanRequests = e
      BY <2>1
    <3> HIDE DEF e
    <3>3. Accepted(e, 0) = {}
      BY <3>1, AcceptedEnds
    <3> QED
      BY <2>1, <3>2, <3>3
  <2> QED
    BY <2>1, <2>2, TraceSeen DEF Trace!Ship!Init
<1>4. TraceInv /\ [Trace!Next]_(Trace!vars) => [Trace!Ship!Next]_(Trace!Ship!vars)
  BY TraceSteps
<1> QED
  BY <1>1, <1>2, <1>3, <1>4, PTL DEF Trace!Spec, Trace!Shipped, Trace!Ship!Spec

(* The call of the OTLP exporter and the batch of spans both answer once,  *)
(* and with success if and only if everything they owe was accepted.       *)
THEOREM SendingImplementsShipment == O!Spec /\ Trace!Spec => Shipped
BY OtlpImplementsShipment, TraceImplementsShipment DEF Shipped
=============================================================================
