----------------------------- MODULE DataFacts -----------------------------
(***************************************************************************)
(* Facts about data that the proofs of the other modules rest on: least    *)
(* and greatest numbers, induction over numbers, finite sets and           *)
(* sequences, sums over finite sets, iterations, sequences of sequences,   *)
(* and quotients.  The sums of Functions, FlattenSeq of SequencesExt and   *)
(* the recursive functions of the modules expand to SumOf, Flattened and   *)
(* IsIteration.                                                            *)
(***************************************************************************)
EXTENDS Integers, Sequences, FiniteSets, Functions, FiniteSetTheorems, SequenceTheorems,
        WellFoundedInduction, TLAPS

\* A set of naturals has a least element.
LEMMA LeastNatural ==
  ASSUME NEW T \in SUBSET Nat, T # {}
  PROVE  \E x \in T : \A y \in T : x <= y
<1> DEFINE R == OpToRel(<, Nat)
<1>1. PICK x \in T : \A y \in T : ~ (<<y, x>> \in R)
  <2>1. IsWellFoundedOn(R, Nat)
    BY NatLessThanWellFounded
  <2> HIDE DEF R
  <2> QED
    BY <2>1, WFMin, Zenon
<1>2. \A y \in T : ~ (y < x)
  BY <1>1 DEF OpToRel
<1> QED
  BY <1>2

\* A finite set of naturals has a greatest element.
LEMMA GreatestElement ==
  ASSUME NEW T \in SUBSET Nat, T # {}, NEW k \in Nat, \A t \in T : t <= k
  PROVE  \E x \in T : \A y \in T : y <= x
<1> DEFINE U == {k - t : t \in T}
<1>1. U \in SUBSET Nat /\ U # {}
  <2>1. ASSUME NEW t \in T PROVE k - t \in Nat
    OBVIOUS
  <2>2. PICK t \in T : TRUE
    OBVIOUS
  <2>3. k - t \in U
    OBVIOUS
  <2> QED
    BY <2>1, <2>3
<1>2. PICK u \in U : \A v \in U : u <= v
  <2> HIDE DEF U
  <2> QED
    BY <1>1, LeastNatural
<1>3. PICK x \in T : u = k - x
  OBVIOUS
<1>4. ASSUME NEW y \in T PROVE y <= x
  <2>1. k - x <= k - y
    BY <1>2, <1>3
  <2> QED
    BY <2>1
<1> QED
  BY <1>4

\* Induction over the naturals, for a set instead of a predicate.
LEMMA InductionOnNat ==
  ASSUME NEW G, 0 \in G, \A n \in Nat : n \in G => n + 1 \in G
  PROVE  Nat \subseteq G
<1> SUFFICES ASSUME Nat \ G # {} PROVE FALSE
  OBVIOUS
<1>1. PICK x \in Nat \ G : \A y \in Nat \ G : x <= y
  BY LeastNatural
<1>2. x # 0 /\ x - 1 \in Nat
  BY <1>1
<1>3. x - 1 \in G
  BY <1>1, <1>2
<1> QED
  BY <1>1, <1>2, <1>3

\* Induction over the subsets of a finite set, by adding an element.
LEMMA InductionOnSets ==
  ASSUME NEW S, IsFiniteSet(S), NEW G, {} \in G,
         \A T \in SUBSET S : \A x \in S \ T : T \in G => T \union {x} \in G
  PROVE  S \in G
<1> DEFINE Good == {n \in Nat : \A T \in SUBSET S : Cardinality(T) = n => T \in G}
<1>1. 0 \in Good
  BY FS_EmptySet, FS_Subset
<1>2. ASSUME NEW n \in Nat, n \in Good PROVE n + 1 \in Good
  <2> SUFFICES ASSUME NEW T \in SUBSET S, Cardinality(T) = n + 1 PROVE T \in G
    OBVIOUS
  <2>1. IsFiniteSet(T)
    BY FS_Subset
  <2>2. PICK x \in T : TRUE
    BY <2>1, FS_EmptySet
  <2>3. Cardinality(T \ {x}) = n
    <3>1. Cardinality(T \ {x}) = Cardinality(T) - 1
      BY <2>1, FS_RemoveElement
    <3> QED
      BY <3>1
  <2>4. T \ {x} \in G
    BY <1>2, <2>3
  <2>5. (T \ {x}) \union {x} = T
    OBVIOUS
  <2> QED
    BY <2>4, <2>5
<1>3. Nat \subseteq Good
  <2> HIDE DEF Good
  <2> QED
    BY <1>1, <1>2, InductionOnNat
<1> QED
  BY <1>3, FS_CardinalityType

\* An image of a finite set is finite.
LEMMA ImageFinite ==
  ASSUME NEW S, IsFiniteSet(S), NEW f
  PROVE  LET T == {f[x] : x \in S} IN IsFiniteSet(T) /\ Cardinality(T) <= Cardinality(S)
<1> DEFINE T == {f[x] : x \in S}
           g == [x \in S |-> f[x]]
<1>1. g \in Surjection(S, T)
  BY DEF Surjection
<1> QED
  BY <1>1, FS_Surjection, Zenon

(* A set with an element on every stair has as many elements as stairs.    *)
LEMMA Staircase ==
  ASSUME NEW n \in Nat, NEW f \in [1 .. n -> Nat], NEW S \in SUBSET Nat, IsFiniteSet(S),
         \A k \in 1 .. n : \E x \in S : x <= f[k] /\ (k > 1 => x > f[k - 1])
  PROVE  n <= Cardinality(S)
<1> DEFINE Low(k) == {x \in S : x <= f[k]}
<1> DEFINE G == {m \in Nat : m + 1 \in 1 .. n => m + 1 <= Cardinality(Low(m + 1))}
<1>0. ASSUME NEW k \in 1 .. n
      PROVE  /\ IsFiniteSet(Low(k)) /\ Cardinality(Low(k)) \in Nat
             /\ Cardinality(Low(k)) <= Cardinality(S) /\ Cardinality(S) \in Nat
  <2>1. Low(k) \subseteq S
    OBVIOUS
  <2> HIDE DEF Low
  <2> QED
    BY <2>1, FS_Subset, FS_CardinalityType
<1>1. 0 \in G
  <2> SUFFICES ASSUME 1 \in 1 .. n PROVE 1 <= Cardinality(Low(1))
    OBVIOUS
  <2>1. Low(1) # {}
    OBVIOUS
  <2>2. Cardinality(Low(1)) # 0
    <3> HIDE DEF Low
    <3> QED
      BY <1>0, <2>1, FS_EmptySet
  <2> HIDE DEF Low
  <2> QED
    BY <1>0, <2>2
<1>2. ASSUME NEW m \in Nat, m \in G PROVE m + 1 \in G
  <2> DEFINE k == m + 1
  <2> SUFFICES ASSUME k + 1 \in 1 .. n PROVE k + 1 <= Cardinality(Low(k + 1))
    OBVIOUS
  <2>1. k \in 1 .. n /\ k <= Cardinality(Low(k))
    BY <1>2
  <2>2. PICK x \in S : x <= f[k + 1] /\ x > f[k]
    <3>1. k + 1 > 1 /\ (k + 1) - 1 = k
      BY <2>1
    <3> QED
      BY <3>1
  <2>3. x \notin Low(k) /\ Low(k) \union {x} \subseteq Low(k + 1)
    <3>1. f[k] \in Nat /\ f[k + 1] \in Nat /\ x \in Nat
      BY <2>1
    <3> HIDE DEF k
    <3>2. ~ (x <= f[k]) /\ \A y \in S : y <= f[k] => y <= f[k + 1]
      BY <2>2, <3>1
    <3> QED
      BY <2>2, <3>2
  <2> HIDE DEF k, Low
  <2>4. Cardinality(Low(k) \union {x}) = Cardinality(Low(k)) + 1
    BY <1>0, <2>1, <2>3, FS_AddElement
  <2>5. Cardinality(Low(k) \union {x}) <= Cardinality(Low(k + 1))
    BY <1>0, <2>3, FS_Subset
  <2> QED
    BY <1>0, <2>1, <2>4, <2>5
<1> CASE n = 0
  BY FS_CardinalityType
<1> CASE n # 0
  <2>1. n - 1 \in G
    <3> HIDE DEF G
    <3>1. n - 1 \in Nat
      OBVIOUS
    <3> QED
      BY <1>1, <1>2, <3>1, InductionOnNat
  <2>2. (n - 1) + 1 = n /\ n \in 1 .. n
    OBVIOUS
  <2>3. n <= Cardinality(Low(n))
    BY <2>1, <2>2
  <2> HIDE DEF Low
  <2> QED
    BY <1>0, <2>2, <2>3
<1> QED
  OBVIOUS


Chosen(s) == CHOOSE x \in s : TRUE

IsSum(g, w, S) ==
  g = [s \in SUBSET S |-> IF s = {} THEN 0 ELSE w[Chosen(s)] + g[s \ {Chosen(s)}]]

SumOf(w, S) == CHOOSE g : IsSum(g, w, S)

\* SumFunctionOnSet is the sum defined by IsSum.
LEMMA SumUnfold ==
  ASSUME NEW w, NEW S
  PROVE  SumFunctionOnSet(w, S) = SumOf(w, S)[S]
BY DEF SumFunctionOnSet, FoldFunctionOnSet, MapThenFoldSet, SumOf, IsSum, Chosen

\* What is chosen from a set is in it.
LEMMA ChosenIn == ASSUME NEW s, s # {} PROVE Chosen(s) \in s
BY DEF Chosen

\* One step of a sum.
LEMMA IsSumAt ==
  ASSUME NEW w, NEW g, NEW S, IsSum(g, w, S), NEW s \in SUBSET S
  PROVE  g[s] = IF s = {} THEN 0 ELSE w[Chosen(s)] + g[s \ {Chosen(s)}]
BY DEF IsSum

\* Two sums of the same function agree wherever both are defined.
LEMMA SumUnique ==
  ASSUME NEW w, NEW S, NEW U, NEW g, NEW h, IsSum(g, w, S), IsSum(h, w, U),
         NEW T, T \subseteq S, T \subseteq U, IsFiniteSet(T)
  PROVE  g[T] = h[T]
<1> DEFINE Good == {n \in Nat : \A V \in SUBSET T : Cardinality(V) = n => g[V] = h[V]}
<1>1. 0 \in Good
  <2>1. ASSUME NEW V \in SUBSET T, Cardinality(V) = 0 PROVE g[V] = h[V]
    <3>1. V = {}
      BY <2>1, FS_EmptySet, FS_Subset
    <3> QED
      BY <3>1, IsSumAt
  <2> QED
    BY <2>1
<1>2. ASSUME NEW n \in Nat, n \in Good PROVE n + 1 \in Good
  <2> SUFFICES ASSUME NEW V \in SUBSET T, Cardinality(V) = n + 1 PROVE g[V] = h[V]
    OBVIOUS
  <2>1. IsFiniteSet(V) /\ V # {}
    BY FS_Subset, FS_EmptySet
  <2> DEFINE c == Chosen(V)
  <2>2. c \in V
    BY <2>1, ChosenIn
  <2> HIDE DEF c
  <2>3. Cardinality(V \ {c}) = n
    <3>1. Cardinality(V \ {c}) = Cardinality(V) - 1
      BY <2>1, <2>2, FS_RemoveElement
    <3> QED
      BY <3>1
  <2>4. g[V \ {c}] = h[V \ {c}]
    BY <1>2, <2>3
  <2>5. g[V] = w[c] + g[V \ {c}] /\ h[V] = w[c] + h[V \ {c}]
    BY <2>1, IsSumAt DEF c
  <2> QED
    BY <2>4, <2>5
<1>3. Nat \subseteq Good
  <2> HIDE DEF Good
  <2> QED
    BY <1>1, <1>2, InductionOnNat
<1> QED
  BY <1>3, FS_CardinalityType

\* Every finite set has a sum.
LEMMA SumExists ==
  ASSUME NEW w, NEW S, IsFiniteSet(S)
  PROVE  IsSum(SumOf(w, S), w, S)
<1> DEFINE Good == {n \in Nat : \A T \in SUBSET S :
                      Cardinality(T) <= n => IsSum(SumOf(w, T), w, T)}
<1>0. ASSUME NEW T, NEW g, IsSum(g, w, T) PROVE IsSum(SumOf(w, T), w, T)
  BY <1>0 DEF SumOf
<1>a. ASSUME NEW T \in SUBSET S PROVE IsFiniteSet(T) /\ Cardinality(T) \in Nat
  BY FS_Subset, FS_CardinalityType
<1>1. 0 \in Good
  <2> SUFFICES ASSUME NEW T \in SUBSET S, Cardinality(T) <= 0
               PROVE  IsSum(SumOf(w, T), w, T)
    OBVIOUS
  <2>1. T = {}
    BY <1>a, FS_EmptySet
  <2>2. IsSum([s \in SUBSET {} |-> 0], w, {})
    BY DEF IsSum
  <2> QED
    BY <1>0, <2>1, <2>2
<1>2. ASSUME NEW n \in Nat, n \in Good PROVE n + 1 \in Good
  <2> SUFFICES ASSUME NEW T \in SUBSET S, Cardinality(T) <= n + 1
               PROVE  IsSum(SumOf(w, T), w, T)
    OBVIOUS
  <2> DEFINE val(U) == SumOf(w, U)[U]
  <2> DEFINE h == [s \in SUBSET T |-> IF s = {} THEN 0
                     ELSE w[Chosen(s)] + val(s \ {Chosen(s)})]
  <2>1. ASSUME NEW U \in SUBSET T, U # T PROVE IsSum(SumOf(w, U), w, U)
    <3>1. Cardinality(U) <= Cardinality(T) /\ Cardinality(U) # Cardinality(T)
      BY <1>a, <2>1, FS_Subset
    <3>2. Cardinality(U) <= n
      BY <1>a, <3>1
    <3> QED
      BY <1>2, <3>2
  <2>2. ASSUME NEW s \in SUBSET T, s # {}
        PROVE  h[s \ {Chosen(s)}] = val(s \ {Chosen(s)})
    <3> DEFINE u == s \ {Chosen(s)}
    <3>1. u \in SUBSET T /\ u # T
      BY <2>2, ChosenIn
    <3> HIDE DEF u
    <3>2. IsSum(SumOf(w, u), w, u)
      BY <2>1, <3>1
    <3>3. CASE u = {}
      <4>1. val(u) = 0
        BY <3>2, <3>3, IsSumAt
      <4>2. h[u] = 0
        BY <3>3
      <4> QED
        BY <4>1, <4>2 DEF u
    <3>4. CASE u # {}
      <4> DEFINE v == u \ {Chosen(u)}
      <4>1. v \in SUBSET u /\ v \in SUBSET T /\ v # T
        BY <3>1, <3>4, ChosenIn
      <4>2. val(u) = w[Chosen(u)] + SumOf(w, u)[v]
        BY <3>2, <3>4, IsSumAt
      <4>3. IsSum(SumOf(w, v), w, v) /\ IsFiniteSet(v)
        BY <1>a, <2>1, <4>1
      <4>4. SumOf(w, u)[v] = SumOf(w, v)[v]
        <5> HIDE DEF v
        <5> QED BY <3>2, <4>1, <4>3, SumUnique
      <4>5. h[u] = w[Chosen(u)] + val(v)
        BY <3>1, <3>4
      <4> QED
        BY <4>2, <4>4, <4>5 DEF u
    <3> QED
      BY <3>3, <3>4
  <2>3. h = [s \in SUBSET T |-> IF s = {} THEN 0 ELSE w[Chosen(s)] + h[s \ {Chosen(s)}]]
    <3> HIDE DEF val
    <3> QED BY <2>2
  <2>4. IsSum(h, w, T)
    <3> HIDE DEF h
    <3> QED BY <2>3 DEF IsSum
  <2> QED
    BY <1>0, <2>4
<1>3. Nat \subseteq Good
  <2> HIDE DEF Good
  <2> QED
    BY <1>1, <1>2, InductionOnNat
<1> QED
  BY <1>3, <1>a

\* The sum over nothing is zero.
LEMMA SumEmpty ==
  ASSUME NEW w
  PROVE  SumFunctionOnSet(w, {}) = 0
<1>1. IsSum(SumOf(w, {}), w, {})
  BY SumExists, FS_EmptySet
<1> QED
  BY <1>1, SumUnfold, IsSumAt

\* A sum is its chosen element and the sum of the others.
LEMMA SumChosen ==
  ASSUME NEW w, NEW S, IsFiniteSet(S), S # {}
  PROVE  SumFunctionOnSet(w, S)
           = w[Chosen(S)] + SumFunctionOnSet(w, S \ {Chosen(S)})
<1> DEFINE T == S \ {Chosen(S)}
<1>1. IsFiniteSet(T) /\ T \in SUBSET S
  BY FS_Subset
<1>2. IsSum(SumOf(w, S), w, S) /\ IsSum(SumOf(w, T), w, T)
  BY <1>1, SumExists
<1>3. SumOf(w, S)[S] = w[Chosen(S)] + SumOf(w, S)[T]
  BY <1>2, IsSumAt
<1>4. SumOf(w, S)[T] = SumOf(w, T)[T]
  <2> HIDE DEF T
  <2> QED
    BY <1>1, <1>2, SumUnique
<1> QED
  BY <1>3, <1>4, SumUnfold

(* Sum of naturals is a natural, and any element may be taken out first. *)
LEMMA SumRemove ==
  ASSUME NEW D, NEW w \in [D -> Nat], NEW S \in SUBSET D, IsFiniteSet(S)
  PROVE  /\ SumFunctionOnSet(w, S) \in Nat
         /\ \A x \in S : SumFunctionOnSet(w, S) = w[x] + SumFunctionOnSet(w, S \ {x})
<1> DEFINE Total(T) == SumFunctionOnSet(w, T)
<1> DEFINE Fine(T) == /\ Total(T) \in Nat
                      /\ \A x \in T : Total(T) = w[x] + Total(T \ {x})
<1> DEFINE Good == {n \in Nat : \A T \in SUBSET S : Cardinality(T) <= n => Fine(T)}
<1>a. ASSUME NEW T \in SUBSET S PROVE IsFiniteSet(T) /\ Cardinality(T) \in Nat
  BY FS_Subset, FS_CardinalityType
<1>b. Total({}) = 0
  BY SumEmpty
<1>c. ASSUME NEW T \in SUBSET S, T # {}
      PROVE  Total(T) = w[Chosen(T)] + Total(T \ {Chosen(T)})
  BY <1>a, <1>c, SumChosen
<1>d. ASSUME NEW T \in SUBSET S, NEW x \in T
      PROVE  Cardinality(T \ {x}) = Cardinality(T) - 1
  BY <1>a, FS_RemoveElement
<1> HIDE DEF Total
<1>1. 0 \in Good
  <2> SUFFICES ASSUME NEW T \in SUBSET S, Cardinality(T) <= 0 PROVE Fine(T)
    OBVIOUS
  <2>1. T = {}
    BY <1>a, FS_EmptySet
  <2> QED
    BY <1>b, <2>1
<1>2. ASSUME NEW n \in Nat, n \in Good PROVE n + 1 \in Good
  <2> SUFFICES ASSUME NEW T \in SUBSET S, Cardinality(T) <= n + 1 PROVE Fine(T)
    OBVIOUS
  <2> SUFFICES ASSUME T # {} PROVE Fine(T)
    BY <1>b
  <2> DEFINE c == Chosen(T)
  <2>2. c \in T
    BY ChosenIn
  <2>3. Total(T) = w[c] + Total(T \ {c})
    BY <1>c
  <2> HIDE DEF c
  <2>4. ASSUME NEW x \in T PROVE Fine(T \ {x})
    <3>1. Cardinality(T \ {x}) <= n
      BY <1>a, <1>d
    <3> QED
      BY <1>2, <3>1
  <2>5. \A x \in T : w[x] \in Nat
    OBVIOUS
  <2>6. Total(T) \in Nat
    BY <2>2, <2>3, <2>4, <2>5
  <2>7. ASSUME NEW x \in T, x # c PROVE Total(T) = w[x] + Total(T \ {x})
    <3>1. Total(T \ {c}) = w[x] + Total((T \ {c}) \ {x})
      BY <2>2, <2>4, <2>7
    <3>2. Total(T \ {x}) = w[c] + Total((T \ {c}) \ {x})
      <4>1. (T \ {c}) \ {x} = (T \ {x}) \ {c}
        OBVIOUS
      <4>2. Total(T \ {x}) = w[c] + Total((T \ {x}) \ {c})
        BY <2>2, <2>4, <2>7
      <4> QED
        BY <4>1, <4>2
    <3>3. Total((T \ {c}) \ {x}) \in Nat
      <4>1. Cardinality((T \ {c}) \ {x}) <= Cardinality(T \ {c})
        BY <1>a, FS_Subset
      <4>2. Cardinality((T \ {c}) \ {x}) <= n
        BY <1>a, <1>d, <2>2, <4>1
      <4> QED
        BY <1>2, <4>2
    <3> DEFINE r == Total((T \ {c}) \ {x})
    <3>4. Total(T) = w[c] + (w[x] + r) /\ Total(T \ {x}) = w[c] + r
      BY <2>3, <3>1, <3>2
    <3>5. r \in Nat /\ w[c] \in Nat /\ w[x] \in Nat
      BY <2>2, <2>5, <3>3
    <3> HIDE DEF r
    <3> QED
      BY <3>4, <3>5
  <2> QED
    BY <2>3, <2>6, <2>7
<1>3. Nat \subseteq Good
  <2> HIDE DEF Good
  <2> QED
    BY <1>1, <1>2, InductionOnNat
<1> QED
  BY <1>3, <1>a DEF Total

(* A sum falls apart along any border. *)
LEMMA SumUnion ==
  ASSUME NEW D, NEW w \in [D -> Nat], NEW S \in SUBSET D, NEW T \in SUBSET D,
         IsFiniteSet(S), IsFiniteSet(T), S \cap T = {}
  PROVE  SumFunctionOnSet(w, S \union T) = SumFunctionOnSet(w, S) + SumFunctionOnSet(w, T)
<1> DEFINE Total(U) == SumFunctionOnSet(w, U)
<1> DEFINE Good == {U \in SUBSET T : Total(S \union U) = Total(S) + Total(U)}
<1>a. ASSUME NEW U \in SUBSET T PROVE Total(U) \in Nat /\ Total(S \union U) \in Nat /\ Total(S) \in Nat
  <2>1. IsFiniteSet(U) /\ IsFiniteSet(S \union U)
    BY FS_Subset, FS_Union
  <2> QED
    BY <2>1, SumRemove
<1>b. ASSUME NEW U \in SUBSET T, NEW x \in T \ U
      PROVE  /\ Total(U \union {x}) = w[x] + Total(U)
             /\ Total(S \union (U \union {x})) = w[x] + Total(S \union U)
  <2>1. IsFiniteSet(U \union {x}) /\ IsFiniteSet(S \union (U \union {x}))
    BY FS_Subset, FS_Union
  <2>2. (U \union {x}) \ {x} = U /\ (S \union (U \union {x})) \ {x} = S \union U
    OBVIOUS
  <2>3. U \union {x} \in SUBSET D /\ S \union (U \union {x}) \in SUBSET D
    OBVIOUS
  <2>4. Total(U \union {x}) = w[x] + Total((U \union {x}) \ {x})
    BY <2>1, <2>3, SumRemove
  <2>5. Total(S \union (U \union {x})) = w[x] + Total((S \union (U \union {x})) \ {x})
    BY <2>1, <2>3, SumRemove
  <2> QED
    BY <2>2, <2>4, <2>5
<1>c. Total({}) = 0
  BY SumEmpty
<1> HIDE DEF Total
<1>1. {} \in Good
  BY <1>a, <1>c
<1>2. ASSUME NEW U \in SUBSET T, NEW x \in T \ U, U \in Good PROVE U \union {x} \in Good
  <2>1. Total(S \union U) = Total(S) + Total(U)
    BY <1>2
  <2>2. w[x] \in Nat
    OBVIOUS
  <2> QED
    BY <1>a, <1>b, <2>1, <2>2
<1>3. T \in Good
  <2> HIDE DEF Good
  <2> QED
    BY <1>1, <1>2, InductionOnSets
<1> QED
  BY <1>3 DEF Total

\* A part of a sum of naturals is at most the sum.
LEMMA SumMonotonic ==
  ASSUME NEW D, NEW w \in [D -> Nat], NEW T \in SUBSET D, IsFiniteSet(T), NEW S \in SUBSET T
  PROVE  SumFunctionOnSet(w, S) <= SumFunctionOnSet(w, T)
<1>1. IsFiniteSet(S) /\ IsFiniteSet(T \ S)
  BY FS_Subset
<1>2. SumFunctionOnSet(w, S \union (T \ S)) = SumFunctionOnSet(w, S) + SumFunctionOnSet(w, T \ S)
  BY <1>1, SumUnion
<1>3. S \union (T \ S) = T
  OBVIOUS
<1>4. SumFunctionOnSet(w, T) = SumFunctionOnSet(w, S) + SumFunctionOnSet(w, T \ S)
  BY <1>2, <1>3
<1>5. SumFunctionOnSet(w, S) \in Nat /\ SumFunctionOnSet(w, T \ S) \in Nat
  BY <1>1, SumRemove
<1> QED
  BY <1>4, <1>5

-----------------------------------------------------------------------------
(* Quotients. *)
LEMMA Quotient ==
  ASSUME NEW k \in Nat \ {0}, NEW x \in Nat
  PROVE  /\ x \div k \in Nat
         /\ k * (x \div k) <= x
         /\ x < k * (x \div k) + k
OBVIOUS

\* What the two bounds of Quotient are compared by.
LEMMA Larger ==
  ASSUME NEW k \in Nat \ {0}, NEW p \in Nat, NEW q \in Nat, k * p < k * q + k
  PROVE  p <= q
<1> SUFFICES ASSUME p >= q + 1 PROVE FALSE
  OBVIOUS
<1>1. PICK d \in Nat : p = (q + 1) + d
  <2>1. p - (q + 1) \in Nat /\ p = (q + 1) + (p - (q + 1))
    OBVIOUS
  <2> QED
    BY <2>1
<1>2. k * p = k * q + k + k * d /\ k * d \in Nat /\ k * q \in Nat
  BY <1>1
<1> QED
  BY <1>2

\* Quotients grow with the dividend, and by one with the divisor.
LEMMA QuotientStep ==
  ASSUME NEW k \in Nat \ {0}, NEW x \in Nat, NEW y \in Nat
  PROVE  /\ x <= y => x \div k <= y \div k
         /\ x + k <= y => (x \div k) + 1 <= y \div k
<1> DEFINE p == x \div k
           q == y \div k
<1>1. p \in Nat /\ k * p <= x /\ q \in Nat /\ y < k * q + k
  BY Quotient
<1>2. k * p \in Nat /\ k * q \in Nat /\ k * (p + 1) = k * p + k
  BY <1>1
<1> HIDE DEF p, q
<1>3. x <= y => p <= q
  <2> HAVE x <= y
  <2>1. k * p < k * q + k
    BY <1>1, <1>2
  <2> QED
    BY <1>1, <2>1, Larger
<1>4. x + k <= y => p + 1 <= q
  <2> HAVE x + k <= y
  <2>1. k * (p + 1) < k * q + k /\ p + 1 \in Nat
    BY <1>1, <1>2
  <2> QED
    BY <1>1, <2>1, Larger
<1> QED
  BY <1>3, <1>4 DEF p, q

-----------------------------------------------------------------------------
(* A property of all sequences, by adding one element after another.       *)
LEMMA InductionOnSeq ==
  ASSUME NEW S, NEW G, <<>> \in G,
         \A s \in Seq(S) : \A e \in S : s \in G => Append(s, e) \in G
  PROVE  Seq(S) \subseteq G
<1> DEFINE Good == {n \in Nat : \A s \in Seq(S) : Len(s) = n => s \in G}
<1>1. 0 \in Good
  <2> SUFFICES ASSUME NEW s \in Seq(S), Len(s) = 0 PROVE s \in G
    OBVIOUS
  <2>1. s = <<>>
    OBVIOUS
  <2> QED
    BY <2>1
<1>2. ASSUME NEW n \in Nat, n \in Good PROVE n + 1 \in Good
  <2> SUFFICES ASSUME NEW s \in Seq(S), Len(s) = n + 1 PROVE s \in G
    OBVIOUS
  <2> DEFINE t == SubSeq(s, 1, n)
             e == s[n + 1]
  <2>1. t \in Seq(S) /\ Len(t) = n /\ e \in S /\ s = Append(t, e)
    OBVIOUS
  <2>2. t \in G
    BY <1>2, <2>1
  <2> HIDE DEF t, e
  <2> QED
    BY <2>1, <2>2
<1>3. Nat \subseteq Good
  <2> HIDE DEF Good
  <2> QED
    BY <1>1, <1>2, InductionOnNat
<1> QED
  BY <1>3

(* A value that each step makes out of the one before.                     *)
IsIteration(f, n, base, step) == f = [k \in 0 .. n |-> IF k = 0 THEN base ELSE step[k][f[k - 1]]]

\* What an iteration is at each of its places.
LEMMA IterationAt ==
  ASSUME NEW n \in Nat, NEW base, NEW step, NEW f, IsIteration(f, n, base, step)
  PROVE  /\ DOMAIN f = 0 .. n /\ f[0] = base
         /\ \A k \in 1 .. n : f[k] = step[k][f[k - 1]]
<1> DEFINE g == [k \in 0 .. n |-> IF k = 0 THEN base ELSE step[k][f[k - 1]]]
<1>1. /\ DOMAIN g = 0 .. n /\ g[0] = base
      /\ \A k \in 1 .. n : g[k] = step[k][f[k - 1]]
  OBVIOUS
<1>2. f = g
  BY DEF IsIteration
<1> HIDE DEF g
<1> QED
  BY <1>1, <1>2

\* Two iterations with the same steps agree.
LEMMA IterationUnique ==
  ASSUME NEW m \in Nat, NEW n \in Nat, m <= n, NEW base, NEW step, NEW other, NEW f, NEW g,
         IsIteration(f, m, base, step), IsIteration(g, n, base, other),
         \A k \in 1 .. m : step[k] = other[k]
  PROVE  \A k \in 0 .. m : f[k] = g[k]
<1> DEFINE G == {k \in Nat : k <= m => f[k] = g[k]}
<1>1. 0 \in G
  BY IterationAt
<1>2. ASSUME NEW k \in Nat, k \in G PROVE k + 1 \in G
  <2> SUFFICES ASSUME k + 1 <= m PROVE f[k + 1] = g[k + 1]
    OBVIOUS
  <2>1. k + 1 \in 1 .. m /\ k + 1 \in 1 .. n /\ (k + 1) - 1 = k
    OBVIOUS
  <2>2. f[k + 1] = step[k + 1][f[k]] /\ g[k + 1] = other[k + 1][g[k]]
    <3>1. \A l \in 1 .. m : f[l] = step[l][f[l - 1]]
      BY IterationAt
    <3>2. \A l \in 1 .. n : g[l] = other[l][g[l - 1]]
      BY IterationAt
    <3> QED
      BY <2>1, <3>1, <3>2
  <2>3. f[k] = g[k]
    BY <1>2
  <2> QED
    BY <2>1, <2>2, <2>3
<1>3. Nat \subseteq G
  <2> HIDE DEF G
  <2> QED
    BY <1>1, <1>2, InductionOnNat
<1> QED
  BY <1>3

\* Steps within a set have an iteration, within that set.
LEMMA IterationExists ==
  ASSUME NEW n \in Nat, NEW A, NEW base \in A, NEW step,
         \A k \in 1 .. n : \A a \in A : step[k][a] \in A
  PROVE  \E f \in [0 .. n -> A] : IsIteration(f, n, base, step)
<1> DEFINE G == {m \in Nat : m <= n => \E f \in [0 .. m -> A] : IsIteration(f, m, base, step)}
<1>1. 0 \in G
  <2> DEFINE g == [k \in 0 .. 0 |-> base]
  <2>1. g \in [0 .. 0 -> A]
    OBVIOUS
  <2>2. IsIteration(g, 0, base, step)
    BY DEF IsIteration
  <2> QED
    BY <2>1, <2>2
<1>2. ASSUME NEW m \in Nat, m \in G PROVE m + 1 \in G
  <2> SUFFICES ASSUME m + 1 <= n
               PROVE  \E f \in [0 .. m + 1 -> A] : IsIteration(f, m + 1, base, step)
    OBVIOUS
  <2>1. PICK f \in [0 .. m -> A] : IsIteration(f, m, base, step)
    BY <1>2
  <2>2. f[0] = base /\ \A k \in 1 .. m : f[k] = step[k][f[k - 1]]
    BY <2>1, IterationAt
  <2> DEFINE g == [k \in 0 .. m + 1 |-> IF k = m + 1 THEN step[m + 1][f[m]] ELSE f[k]]
  <2>3. m + 1 \in 1 .. n /\ f[m] \in A /\ step[m + 1][f[m]] \in A
    <3>1. m + 1 \in 1 .. n /\ m \in 0 .. m
      OBVIOUS
    <3> QED
      BY <3>1
  <2>4. g \in [0 .. m + 1 -> A]
    BY <2>3
  <2>5. \A k \in 0 .. m + 1 : g[k] = IF k = 0 THEN base ELSE step[k][g[k - 1]]
    <3> TAKE k \in 0 .. m + 1
    <3>1. CASE k = 0
      BY <2>2, <3>1
    <3>2. CASE k \in 1 .. m
      <4>1. g[k] = f[k] /\ g[k - 1] = f[k - 1]
        BY <3>2
      <4> HIDE DEF g
      <4> QED
        BY <2>2, <3>2, <4>1
    <3>3. CASE k = m + 1
      <4>1. g[k] = step[k][f[m]] /\ k - 1 = m /\ g[m] = f[m]
        BY <3>3
      <4> HIDE DEF g
      <4> QED
        BY <3>3, <4>1
    <3> QED
      BY <3>1, <3>2, <3>3
  <2>6. IsIteration(g, m + 1, base, step)
    <3> HIDE DEF g
    <3> QED
      BY <2>4, <2>5 DEF IsIteration
  <2> HIDE DEF g
  <2> QED
    BY <2>4, <2>6
<1>3. Nat \subseteq G
  <2> HIDE DEF G
  <2> QED
    BY <1>1, <1>2, InductionOnNat
<1> QED
  BY <1>3

(* What FlattenSeq of SequencesExt is when it is expanded. *)
IsFlattening(f, ss) ==
  f = [i \in 1 .. Len(ss) |-> IF i = 1 THEN ss[i] ELSE f[i - 1] \o ss[i]]

Flattened(ss) == IF Len(ss) = 0 THEN ss ELSE (CHOOSE f : IsFlattening(f, ss))[Len(ss)]

\* A flattening begins with the first sequence.
LEMMA FlatteningFirst ==
  ASSUME NEW ss, Len(ss) \in Nat, Len(ss) > 0, NEW f, IsFlattening(f, ss)
  PROVE  f[1] = ss[1]
<1> DEFINE g == [i \in 1 .. Len(ss) |-> IF i = 1 THEN ss[i] ELSE f[i - 1] \o ss[i]]
<1>1. 1 \in 1 .. Len(ss)
  OBVIOUS
<1>2. g[1] = ss[1]
  BY <1>1
<1>3. f = g
  BY DEF IsFlattening
<1> QED
  BY <1>2, <1>3

\* A flattening goes on with the next sequence.
LEMMA FlatteningNext ==
  ASSUME NEW ss, Len(ss) \in Nat, NEW f, IsFlattening(f, ss), NEW k \in 2 .. Len(ss)
  PROVE  f[k] = f[k - 1] \o ss[k]
<1> DEFINE g == [i \in 1 .. Len(ss) |-> IF i = 1 THEN ss[i] ELSE f[i - 1] \o ss[i]]
<1>1. k \in 1 .. Len(ss) /\ k # 1
  OBVIOUS
<1>2. g[k] = f[k - 1] \o ss[k]
  BY <1>1
<1>3. f = g
  BY DEF IsFlattening
<1> HIDE DEF g
<1> QED
  BY <1>2, <1>3

Begins(tt, ss) ==
  /\ Len(ss) \in Nat /\ Len(tt) \in Nat /\ Len(ss) <= Len(tt)
  /\ \A k \in 1 .. Len(ss) : ss[k] = tt[k]

\* Flattenings of a list and of its continuation agree on the list.
LEMMA FlatteningUnique ==
  ASSUME NEW ss, NEW tt, Begins(tt, ss),
         NEW f, NEW g, IsFlattening(f, ss), IsFlattening(g, tt),
         NEW k \in 1 .. Len(ss)
  PROVE  f[k] = g[k]
<1> USE DEF Begins
<1> DEFINE G == {l \in Nat : l + 1 <= Len(ss) => f[l + 1] = g[l + 1]}
<1>1. 0 \in G
  <2> SUFFICES ASSUME 1 <= Len(ss) PROVE f[1] = g[1]
    OBVIOUS
  <2>0. Len(ss) > 0 /\ Len(tt) > 0 /\ 1 \in 1 .. Len(ss)
    OBVIOUS
  <2>1. f[1] = ss[1]
    BY <2>0, FlatteningFirst
  <2>2. g[1] = tt[1]
    BY <2>0, FlatteningFirst
  <2> QED
    BY <2>0, <2>1, <2>2
<1>2. ASSUME NEW l \in Nat, l \in G PROVE l + 1 \in G
  <2> SUFFICES ASSUME l + 2 <= Len(ss) PROVE f[l + 2] = g[l + 2]
    OBVIOUS
  <2>1. /\ l + 2 \in 2 .. Len(ss) /\ l + 2 \in 2 .. Len(tt) /\ (l + 2) - 1 = l + 1
        /\ l + 2 \in 1 .. Len(ss)
    OBVIOUS
  <2>2. f[l + 2] = f[l + 1] \o ss[l + 2]
    <3>1. f[l + 2] = f[(l + 2) - 1] \o ss[l + 2]
      BY <2>1, FlatteningNext
    <3> QED
      BY <2>1, <3>1
  <2>3. g[l + 2] = g[l + 1] \o tt[l + 2]
    <3>1. g[l + 2] = g[(l + 2) - 1] \o tt[l + 2]
      BY <2>1, FlatteningNext
    <3> QED
      BY <2>1, <3>1
  <2>4. f[l + 1] = g[l + 1]
    BY <1>2
  <2> QED
    BY <2>1, <2>2, <2>3, <2>4
<1>3. Nat \subseteq G
  <2> HIDE DEF G
  <2> QED
    BY <1>1, <1>2, InductionOnNat
<1>4. k - 1 \in Nat /\ (k - 1) + 1 = k
  OBVIOUS
<1>5. k - 1 \in G
  BY <1>3, <1>4
<1> QED
  BY <1>4, <1>5

\* Every list of sequences has a flattening.
LEMMA FlatteningExists ==
  ASSUME NEW S, NEW ss \in Seq(Seq(S))
  PROVE  \E f \in [1 .. Len(ss) -> Seq(S)] : IsFlattening(f, ss)
<1> DEFINE step == [k \in 1 .. Len(ss) |-> [a \in Seq(S) |-> IF k = 1 THEN ss[k] ELSE a \o ss[k]]]
<1>0. Len(ss) \in Nat /\ <<>> \in Seq(S) /\ \A k \in 1 .. Len(ss) : ss[k] \in Seq(S)
  OBVIOUS
<1>1. \A k \in 1 .. Len(ss) : \A a \in Seq(S) :
        step[k][a] = (IF k = 1 THEN ss[k] ELSE a \o ss[k]) /\ step[k][a] \in Seq(S)
  OBVIOUS
<1> HIDE DEF step
<1>2. PICK f \in [0 .. Len(ss) -> Seq(S)] : IsIteration(f, Len(ss), <<>>, step)
  BY <1>0, <1>1, IterationExists
<1>3. \A k \in 1 .. Len(ss) : f[k] = step[k][f[k - 1]]
  <2>1. Len(ss) \in Nat /\ IsIteration(f, Len(ss), <<>>, step)
    BY <1>0, <1>2
  <2> DEFINE m == Len(ss)
  <2> HIDE DEF m
  <2>2. m \in Nat /\ IsIteration(f, m, <<>>, step)
    BY <2>1 DEF m
  <2>3. \A k \in 1 .. m : f[k] = step[k][f[k - 1]]
    BY <2>2, IterationAt
  <2> QED
    BY <2>3 DEF m
<1> DEFINE g == [k \in 1 .. Len(ss) |-> f[k]]
<1>4. g \in [1 .. Len(ss) -> Seq(S)]
  BY <1>0
<1>5. \A k \in 1 .. Len(ss) : g[k] = IF k = 1 THEN ss[k] ELSE g[k - 1] \o ss[k]
  <2> TAKE k \in 1 .. Len(ss)
  <2>0. k - 1 \in 0 .. Len(ss) /\ (k # 1 => k - 1 \in 1 .. Len(ss))
    BY <1>0
  <2>1. f[k - 1] \in Seq(S) /\ (k # 1 => g[k - 1] = f[k - 1])
    BY <1>2, <2>0
  <2>2. g[k] = step[k][f[k - 1]]
    BY <1>3
  <2> HIDE DEF g
  <2> QED
    BY <1>1, <2>1, <2>2
<1>6. IsFlattening(g, ss)
  <2> HIDE DEF g
  <2> QED
    BY <1>4, <1>5 DEF IsFlattening
<1> HIDE DEF g
<1> QED
  BY <1>4, <1>6

\* What is flattened is the end of a flattening.
LEMMA FlattenedBy ==
  ASSUME NEW S, NEW ss \in Seq(Seq(S)), ss # <<>>
  PROVE  \E f \in [1 .. Len(ss) -> Seq(S)] : IsFlattening(f, ss) /\ Flattened(ss) = f[Len(ss)]
<1> DEFINE h == CHOOSE f : IsFlattening(f, ss)
<1>1. PICK f \in [1 .. Len(ss) -> Seq(S)] : IsFlattening(f, ss)
  BY FlatteningExists
<1>2. IsFlattening(h, ss)
  BY <1>1
<1>3. Len(ss) \in Nat /\ Len(ss) # 0 /\ Flattened(ss) = h[Len(ss)]
  BY DEF Flattened
<1> HIDE DEF h
<1>4. h[Len(ss)] = f[Len(ss)]
  <2>1. Begins(ss, ss) /\ Len(ss) \in 1 .. Len(ss)
    BY <1>3 DEF Begins
  <2> QED
    BY <2>1, <1>1, <1>2, FlatteningUnique
<1> QED
  BY <1>1, <1>3, <1>4

\* Nothing flattens to nothing.
LEMMA FlattenedEmpty == Flattened(<<>>) = <<>>
BY DEF Flattened

\* A list of sequences over a set flattens to a sequence over it.
LEMMA FlattenedType ==
  ASSUME NEW S, NEW ss \in Seq(Seq(S))
  PROVE  Flattened(ss) \in Seq(S)
<1>1. CASE ss = <<>>
  <2>1. Flattened(ss) = <<>>
    BY <1>1, FlattenedEmpty, Zenon
  <2> QED
    BY <2>1
<1>2. CASE ss # <<>>
  <2>1. PICK f \in [1 .. Len(ss) -> Seq(S)] : IsFlattening(f, ss) /\ Flattened(ss) = f[Len(ss)]
    BY <1>2, FlattenedBy
  <2>2. Len(ss) \in 1 .. Len(ss)
    BY <1>2
  <2> QED
    BY <2>1, <2>2
<1> QED
  BY <1>1, <1>2

\* What is appended to the list is appended to its flattening.
LEMMA FlattenedAppend ==
  ASSUME NEW S, NEW ss \in Seq(Seq(S)), NEW s \in Seq(S)
  PROVE  Flattened(Append(ss, s)) = Flattened(ss) \o s
<1> DEFINE tt == Append(ss, s)
<1>1. /\ tt \in Seq(Seq(S)) /\ tt # <<>> /\ Len(ss) \in Nat /\ Len(tt) = Len(ss) + 1
      /\ \A k \in 1 .. Len(ss) : ss[k] = tt[k]
      /\ tt[Len(ss) + 1] = s
  <2> DEFINE T == Seq(S)
  <2>1. ss \in Seq(T) /\ s \in T
    OBVIOUS
  <2> HIDE DEF T
  <2>2. tt \in Seq(T) /\ tt # <<>> /\ Len(ss) \in Nat /\ Len(tt) = Len(ss) + 1
    BY <2>1
  <2>3. \A k \in 1 .. Len(ss) : ss[k] = tt[k]
    BY <2>1
  <2>4. tt[Len(ss) + 1] = s
    BY <2>1
  <2> HIDE DEF tt
  <2> QED
    BY <2>2, <2>3, <2>4 DEF T
<1> HIDE DEF tt
<1>2. PICK g \in [1 .. Len(tt) -> Seq(S)] : IsFlattening(g, tt) /\ Flattened(tt) = g[Len(tt)]
  BY <1>1, FlattenedBy
<1>3. Len(tt) \in Nat
  BY <1>1
<1>4. CASE ss = <<>>
  <2>1. Len(ss) = 0 /\ Len(tt) = 1
    BY <1>1, <1>4
  <2>2. g[1] = tt[1]
    BY <1>2, <1>3, <2>1, FlatteningFirst
  <2>3. <<>> \o s = s
    OBVIOUS
  <2> QED
    BY <1>1, <1>2, <1>4, <2>1, <2>2, <2>3, FlattenedEmpty DEF tt
<1>5. CASE ss # <<>>
  <2>1. PICK f \in [1 .. Len(ss) -> Seq(S)] : IsFlattening(f, ss) /\ Flattened(ss) = f[Len(ss)]
    BY <1>5, FlattenedBy
  <2>2. Len(ss) \in 1 .. Len(ss) /\ Len(tt) \in 2 .. Len(tt) /\ Len(tt) - 1 = Len(ss)
    BY <1>1, <1>5
  <2>3. f[Len(ss)] = g[Len(ss)]
    <3>1. Begins(tt, ss)
      BY <1>1 DEF Begins
    <3>2. IsFlattening(f, ss) /\ IsFlattening(g, tt)
      BY <1>2, <2>1
    <3>3. SUFFICES ASSUME NEW k \in 1 .. Len(ss) PROVE f[k] = g[k]
      BY <2>2
    <3> QED
      BY <3>1, <3>2, FlatteningUnique
  <2>4. g[Len(tt)] = g[Len(tt) - 1] \o tt[Len(tt)]
    BY <1>2, <1>3, <2>2, FlatteningNext
  <2>5. tt[Len(tt)] = s
    BY <1>1
  <2> QED
    BY <1>2, <2>1, <2>2, <2>3, <2>4, <2>5 DEF tt
<1> QED
  BY <1>4, <1>5

-----------------------------------------------------------------------------
\* Sums of functions that agree on a set.
LEMMA SumAgrees ==
  ASSUME NEW D, NEW E, NEW w \in [D -> Nat], NEW v \in [E -> Nat], NEW S, IsFiniteSet(S),
         S \subseteq D, S \subseteq E, \A s \in S : w[s] = v[s]
  PROVE  SumFunctionOnSet(w, S) = SumFunctionOnSet(v, S)
<1> DEFINE G == {T \in SUBSET S : SumFunctionOnSet(w, T) = SumFunctionOnSet(v, T)}
<1>1. {} \in G
  BY SumEmpty
<1>2. ASSUME NEW T \in SUBSET S, NEW x \in S \ T, T \in G PROVE T \union {x} \in G
  <2> DEFINE U == T \union {x}
  <2>1. IsFiniteSet(U) /\ U \subseteq D /\ U \subseteq E /\ U \ {x} = T /\ x \in U /\ U \in SUBSET S
    BY FS_Subset
  <2> HIDE DEF U
  <2>2. SumFunctionOnSet(w, U) = w[x] + SumFunctionOnSet(w, U \ {x})
    BY <2>1, SumRemove
  <2>3. SumFunctionOnSet(v, U) = v[x] + SumFunctionOnSet(v, U \ {x})
    BY <2>1, SumRemove
  <2>4. SumFunctionOnSet(w, U) = SumFunctionOnSet(v, U)
    BY <1>2, <2>1, <2>2, <2>3
  <2> QED
    BY <2>1, <2>4 DEF U
<1>3. S \in G
  <2> HIDE DEF G
  <2> QED
    BY <1>1, <1>2, InductionOnSets
<1> QED
  BY <1>3

\* A sum over one element more.
LEMMA SumOneMore ==
  ASSUME NEW P, NEW Q, NEW x \in P, Q = P \ {x}, IsFiniteSet(P),
         NEW w \in [P -> Nat], NEW v \in [Q -> Nat], \A y \in Q : w[y] = v[y]
  PROVE  SumFunctionOnSet(w, P) = w[x] + SumFunctionOnSet(v, Q)
<1>1. IsFiniteSet(Q) /\ Q \subseteq P /\ Q \subseteq Q
  BY FS_Subset
<1>2. SumFunctionOnSet(w, P) = w[x] + SumFunctionOnSet(w, P \ {x})
  <2>1. P \in SUBSET P
    OBVIOUS
  <2> QED
    BY <2>1, SumRemove
<1>3. SumFunctionOnSet(w, Q) = SumFunctionOnSet(v, Q)
  BY <1>1, SumAgrees
<1> QED
  BY <1>2, <1>3

(* The values of the elements of a sequence, summed. *)
SeqSum(z, s) == SumFunctionOnSet([k \in DOMAIN s |-> z[s[k]]], DOMAIN s)

\* Nothing sums to zero.
LEMMA SeqSumEmpty == ASSUME NEW z PROVE SeqSum(z, <<>>) = 0
<1>1. DOMAIN <<>> = {}
  OBVIOUS
<1> QED
  BY <1>1, SumEmpty DEF SeqSum

\* What the next element adds.
LEMMA SeqSumAppend ==
  ASSUME NEW S, NEW z \in [S -> Nat], NEW s \in Seq(S), NEW e \in S
  PROVE  SeqSum(z, Append(s, e)) = z[e] + SeqSum(z, s)
<1> DEFINE t == Append(s, e)
           n == Len(s) + 1
           P == DOMAIN t
           Q == DOMAIN s
           w == [k \in DOMAIN t |-> z[t[k]]]
           v == [k \in DOMAIN s |-> z[s[k]]]
<1>1. /\ t \in Seq(S) /\ Len(s) \in Nat
      /\ Q = 1 .. Len(s) /\ P = 1 .. n
      /\ \A k \in Q : t[k] = s[k]
      /\ t[n] = e
  OBVIOUS
<1> HIDE DEF t
<1>2. Q = P \ {n} /\ n \in P /\ IsFiniteSet(P)
  <2>1. n \in Nat /\ Len(s) = n - 1
    BY <1>1
  <2> HIDE DEF n, P, Q
  <2>2. IsFiniteSet(1 .. n)
    BY <2>1, FS_Interval
  <2> QED
    BY <1>1, <2>1, <2>2
<1>3. \A k \in P : t[k] \in S
  BY <1>1
<1>4. \A k \in Q : s[k] \in S
  BY <1>1
<1>5. w \in [P -> Nat] /\ v \in [Q -> Nat]
  BY <1>3, <1>4
<1>6. (\A k \in Q : w[k] = v[k]) /\ w[n] = z[e]
  BY <1>1, <1>2
<1> HIDE DEF n, P, Q, w, v
<1>7. SumFunctionOnSet(w, P) = w[n] + SumFunctionOnSet(v, Q)
  BY <1>2, <1>5, <1>6, SumOneMore
<1> QED
  BY <1>6, <1>7 DEF SeqSum, P, Q, w, v, t

\* A sum of naturals; it has all of them, and is zero only if they are.
LEMMA SeqSumType ==
  ASSUME NEW S, NEW z \in [S -> Nat], NEW s \in Seq(S)
  PROVE  /\ SeqSum(z, s) \in Nat
         /\ \A k \in DOMAIN s : z[s[k]] \in Nat /\ z[s[k]] <= SeqSum(z, s)
         /\ (\A k \in DOMAIN s : z[s[k]] = 0) => SeqSum(z, s) = 0
<1> DEFINE G == {r \in Seq(S) :
                   /\ SeqSum(z, r) \in Nat
                   /\ \A k \in DOMAIN r : z[r[k]] \in Nat /\ z[r[k]] <= SeqSum(z, r)
                   /\ (\A k \in DOMAIN r : z[r[k]] = 0) => SeqSum(z, r) = 0}
<1>1. <<>> \in G
  BY SeqSumEmpty
<1>2. ASSUME NEW r \in Seq(S), NEW e \in S, r \in G PROVE Append(r, e) \in G
  <2> DEFINE t == Append(r, e)
  <2>1. /\ t \in Seq(S) /\ Len(r) \in Nat
        /\ DOMAIN r = 1 .. Len(r) /\ DOMAIN t = 1 .. Len(r) + 1
        /\ \A k \in DOMAIN r : t[k] = r[k]
        /\ t[Len(r) + 1] = e
    OBVIOUS
  <2>2. SeqSum(z, t) = z[e] + SeqSum(z, r)
    BY SeqSumAppend
  <2>3. /\ SeqSum(z, r) \in Nat /\ z[e] \in Nat
        /\ \A k \in DOMAIN r : z[r[k]] \in Nat /\ z[r[k]] <= SeqSum(z, r)
        /\ (\A k \in DOMAIN r : z[r[k]] = 0) => SeqSum(z, r) = 0
    BY <1>2
  <2> HIDE DEF t, G
  <2>4. SeqSum(z, t) \in Nat
    BY <2>2, <2>3
  <2>5. ASSUME NEW k \in DOMAIN t PROVE z[t[k]] \in Nat /\ z[t[k]] <= SeqSum(z, t)
    <3>1. k \in DOMAIN r \/ t[k] = e
      BY <2>1
    <3> QED
      BY <2>1, <2>2, <2>3, <3>1
  <2>6. ASSUME \A k \in DOMAIN t : z[t[k]] = 0 PROVE SeqSum(z, t) = 0
    <3>1. \A k \in DOMAIN r : k \in DOMAIN t /\ t[k] = r[k]
      BY <2>1
    <3>2. Len(r) + 1 \in DOMAIN t
      BY <2>1
    <3>3. (\A k \in DOMAIN r : z[r[k]] = 0) /\ z[e] = 0
      BY <2>1, <2>6, <3>1, <3>2
    <3>4. SeqSum(z, r) = 0
      BY <2>3, <3>3
    <3> QED
      BY <2>2, <3>3, <3>4
  <2> QED
    BY <2>1, <2>4, <2>5, <2>6 DEF G, t
<1>3. s \in G
  <2> HIDE DEF G
  <2> QED
    BY <1>1, <1>2, InductionOnSeq
<1> QED
  BY <1>3

-----------------------------------------------------------------------------
(* Elements of a sequence, and what each earlier one has to do with each   *)
(* later one.                                                              *)
Elements(s) == {s[i] : i \in DOMAIN s}

Pairwise(R, s) == \A i, j \in DOMAIN s : i < j => <<s[i], s[j]>> \in R

\* The places of a concatenation.
LEMMA ConcatPlaces ==
  ASSUME NEW S, NEW s \in Seq(S), NEW t \in Seq(S)
  PROVE  /\ s \o t \in Seq(S) /\ Len(s) \in Nat /\ Len(t) \in Nat
         /\ DOMAIN s = 1 .. Len(s) /\ DOMAIN t = 1 .. Len(t)
         /\ DOMAIN (s \o t) = 1 .. Len(s) + Len(t)
         /\ \A i \in 1 .. Len(s) : (s \o t)[i] = s[i]
         /\ \A i \in 1 .. Len(t) : (s \o t)[Len(s) + i] = t[i]
         /\ \A i \in DOMAIN (s \o t) :
              i \in DOMAIN s \/ \E j \in DOMAIN t : i = Len(s) + j
<1>1. /\ s \o t \in Seq(S) /\ Len(s) \in Nat /\ Len(t) \in Nat
      /\ DOMAIN s = 1 .. Len(s) /\ DOMAIN t = 1 .. Len(t)
      /\ Len(s \o t) = Len(s) + Len(t)
  OBVIOUS
<1>2. DOMAIN (s \o t) = 1 .. Len(s) + Len(t)
  BY <1>1
<1>3. /\ \A i \in 1 .. Len(s) : (s \o t)[i] = s[i]
      /\ \A i \in 1 .. Len(t) : (s \o t)[Len(s) + i] = t[i]
  BY <1>1
<1>4. ASSUME NEW i \in DOMAIN (s \o t), i \notin DOMAIN s
      PROVE  \E j \in DOMAIN t : i = Len(s) + j
  <2>1. i - Len(s) \in DOMAIN t /\ i = Len(s) + (i - Len(s))
    BY <1>1, <1>2, <1>4
  <2> QED
    BY <2>1
<1> QED
  BY <1>1, <1>2, <1>3, <1>4

\* The elements of a concatenation.
LEMMA ConcatElements ==
  ASSUME NEW S, NEW s \in Seq(S), NEW t \in Seq(S)
  PROVE  Elements(s \o t) = Elements(s) \union Elements(t)
<1> DEFINE c == s \o t
<1>1. /\ Len(s) \in Nat /\ Len(t) \in Nat
      /\ DOMAIN s = 1 .. Len(s) /\ DOMAIN t = 1 .. Len(t)
      /\ DOMAIN c = 1 .. Len(s) + Len(t)
      /\ \A i \in 1 .. Len(s) : c[i] = s[i]
      /\ \A i \in 1 .. Len(t) : c[Len(s) + i] = t[i]
      /\ \A i \in DOMAIN c : i \in DOMAIN s \/ \E j \in DOMAIN t : i = Len(s) + j
  BY ConcatPlaces
<1> HIDE DEF c
<1>2. \A i \in DOMAIN s : i \in DOMAIN c /\ c[i] = s[i]
  BY <1>1
<1>3. \A j \in DOMAIN t : Len(s) + j \in DOMAIN c /\ c[Len(s) + j] = t[j]
  BY <1>1
<1>4. Elements(s) \union Elements(t) \subseteq Elements(c)
  BY <1>2, <1>3 DEF Elements
<1>5. Elements(c) \subseteq Elements(s) \union Elements(t)
  BY <1>1, <1>2, <1>3 DEF Elements
<1> QED
  BY <1>4, <1>5 DEF c

\* A concatenation relates its parts, and each element of the one to each
\* of the other.
LEMMA ConcatPairwise ==
  ASSUME NEW S, NEW s \in Seq(S), NEW t \in Seq(S), NEW R
  PROVE  Pairwise(R, s \o t) <=>
           Pairwise(R, s) /\ Pairwise(R, t) /\ Elements(s) \X Elements(t) \subseteq R
<1> DEFINE c == s \o t
<1>1. /\ Len(s) \in Nat /\ Len(t) \in Nat
      /\ DOMAIN s = 1 .. Len(s) /\ DOMAIN t = 1 .. Len(t)
      /\ DOMAIN c = 1 .. Len(s) + Len(t)
      /\ \A i \in 1 .. Len(s) : c[i] = s[i]
      /\ \A i \in 1 .. Len(t) : c[Len(s) + i] = t[i]
      /\ \A i \in DOMAIN c : i \in DOMAIN s \/ \E j \in DOMAIN t : i = Len(s) + j
  BY ConcatPlaces
<1> HIDE DEF c
<1>2. \A i \in DOMAIN s : i \in DOMAIN c /\ c[i] = s[i]
  BY <1>1
<1>3. \A j \in DOMAIN t : Len(s) + j \in DOMAIN c /\ c[Len(s) + j] = t[j]
  BY <1>1
<1>4. \A i \in DOMAIN s, j \in DOMAIN t : i < Len(s) + j
  BY <1>1
<1>5. \A i, j \in DOMAIN t : i < j <=> Len(s) + i < Len(s) + j
  BY <1>1
<1>6. ASSUME Pairwise(R, c)
      PROVE  Pairwise(R, s) /\ Pairwise(R, t) /\ Elements(s) \X Elements(t) \subseteq R
  <2>1. Pairwise(R, s)
    BY <1>2, <1>6 DEF Pairwise
  <2>2. Pairwise(R, t)
    <3> SUFFICES ASSUME NEW i \in DOMAIN t, NEW j \in DOMAIN t, i < j PROVE <<t[i], t[j]>> \in R
      BY DEF Pairwise
    <3>1. <<c[Len(s) + i], c[Len(s) + j]>> \in R
      BY <1>3, <1>5, <1>6 DEF Pairwise
    <3> QED
      BY <1>3, <3>1
  <2>3. ASSUME NEW i \in DOMAIN s, NEW j \in DOMAIN t PROVE <<s[i], t[j]>> \in R
    <3>1. <<c[i], c[Len(s) + j]>> \in R
      BY <1>2, <1>3, <1>4, <1>6 DEF Pairwise
    <3> QED
      BY <1>2, <1>3, <3>1
  <2> QED
    BY <2>1, <2>2, <2>3 DEF Elements
<1>7. ASSUME Pairwise(R, s), Pairwise(R, t), Elements(s) \X Elements(t) \subseteq R
      PROVE  Pairwise(R, c)
  <2> SUFFICES ASSUME NEW i \in DOMAIN c, NEW j \in DOMAIN c, i < j PROVE <<c[i], c[j]>> \in R
    BY DEF Pairwise
  <2>1. CASE i \in DOMAIN s /\ j \in DOMAIN s
    BY <1>2, <1>7, <2>1 DEF Pairwise
  <2>2. ASSUME i \in DOMAIN s, NEW l \in DOMAIN t, j = Len(s) + l PROVE <<c[i], c[j]>> \in R
    <3>1. <<s[i], t[l]>> \in R
      BY <1>7, <2>2 DEF Elements
    <3> QED
      BY <1>2, <1>3, <2>2, <3>1
  <2>3. ASSUME NEW k \in DOMAIN t, NEW l \in DOMAIN t, i = Len(s) + k, j = Len(s) + l
        PROVE  <<c[i], c[j]>> \in R
    <3>1. <<t[k], t[l]>> \in R
      BY <1>5, <1>7, <2>3 DEF Pairwise
    <3> QED
      BY <1>3, <2>3, <3>1
  <2>4. ASSUME NEW k \in DOMAIN t, i = Len(s) + k, j \in DOMAIN s PROVE FALSE
    BY <1>4, <1>1, <2>4
  <2> QED
    BY <1>1, <2>1, <2>2, <2>3, <2>4
<1> QED
  BY <1>6, <1>7 DEF c

\* A sequence of one element.
LEMMA SingleElement ==
  ASSUME NEW S, NEW x \in S, NEW R
  PROVE  <<x>> \in Seq(S) /\ Elements(<<x>>) = {x} /\ Pairwise(R, <<x>>)
<1>1. DOMAIN <<x>> = {1} /\ <<x>>[1] = x
  OBVIOUS
<1> QED
  BY <1>1 DEF Elements, Pairwise

\* The empty sequence.
LEMMA NoElement ==
  ASSUME NEW R
  PROVE  Elements(<<>>) = {} /\ Pairwise(R, <<>>)
BY DEF Elements, Pairwise

\* Concatenation associates, and adds the lengths.
LEMMA ConcatAssociates ==
  ASSUME NEW S, NEW a \in Seq(S), NEW b \in Seq(S), NEW c \in Seq(S)
  PROVE  (a \o b) \o c = a \o (b \o c)
OBVIOUS

LEMMA ConcatLen ==
  ASSUME NEW S, NEW a \in Seq(S), NEW b \in Seq(S)
  PROVE  Len(a \o b) = Len(a) + Len(b) /\ Len(a) \in Nat /\ Len(b) \in Nat
OBVIOUS

\* A sequence is what is taken of it and what remains.
LEMMA TwoParts ==
  ASSUME NEW S, NEW s \in Seq(S), NEW k \in 0 .. Len(s)
  PROVE  /\ SubSeq(s, 1, k) \in Seq(S) /\ SubSeq(s, k + 1, Len(s)) \in Seq(S)
         /\ Len(SubSeq(s, 1, k)) = k /\ Len(SubSeq(s, k + 1, Len(s))) = Len(s) - k
         /\ SubSeq(s, 1, k) \o SubSeq(s, k + 1, Len(s)) = s
         /\ Elements(SubSeq(s, 1, k)) \subseteq Elements(s)
         /\ Elements(SubSeq(s, k + 1, Len(s))) \subseteq Elements(s)
<1> DEFINE p == SubSeq(s, 1, k)
           q == SubSeq(s, k + 1, Len(s))
<1>1. p \in Seq(S) /\ q \in Seq(S) /\ Len(p) = k /\ Len(q) = Len(s) - k /\ Len(s) \in Nat
  OBVIOUS
<1>2. p \o q = s
  <2>1. Len(p \o q) = Len(s) /\ p \o q \in Seq(S)
    <3> HIDE DEF p, q
    <3> QED
      BY <1>1
  <2>2. ASSUME NEW i \in 1 .. Len(s) PROVE (p \o q)[i] = s[i]
    <3>1. CASE i <= k
      <4>1. p[i] = s[i] /\ i \in 1 .. Len(p)
        BY <1>1, <3>1
      <4> HIDE DEF p, q
      <4> QED
        BY <1>1, <4>1
    <3>2. CASE i > k
      <4>1. i - k \in 1 .. Len(q) /\ i = Len(p) + (i - k)
        BY <1>1, <3>2
      <4>2. q[i - k] = s[i]
        BY <1>1, <3>2
      <4> HIDE DEF p, q
      <4> DEFINE j == i - k
      <4> HIDE DEF j
      <4>3. j \in 1 .. Len(q) /\ i = Len(p) + j /\ q[j] = s[i]
        BY <4>1, <4>2 DEF j
      <4>4. (p \o q)[Len(p) + j] = q[j]
        BY <1>1, <4>3
      <4> QED
        BY <4>3, <4>4
    <3>3. i <= k \/ i > k
      OBVIOUS
    <3> HIDE DEF p, q
    <3> QED
      BY <3>1, <3>2, <3>3
  <2> DEFINE c == p \o q
  <2>3. Len(c) = Len(s) /\ c \in Seq(S) /\ \A i \in 1 .. Len(s) : c[i] = s[i]
    BY <2>1, <2>2
  <2> HIDE DEF c
  <2>4. c = s
    BY <2>3
  <2> QED
    BY <2>4 DEF c
<1> HIDE DEF p, q
<1>3. Elements(p) \union Elements(q) = Elements(s)
  BY <1>1, <1>2, ConcatElements
<1> QED
  BY <1>1, <1>2, <1>3 DEF p, q

-----------------------------------------------------------------------------
\* Flattening a list of one.
LEMMA FlattenedSingle ==
  ASSUME NEW S, NEW s \in Seq(S)
  PROVE  Flattened(<<s>>) = s
<1> DEFINE T == Seq(S)
           e == <<>>
           u == <<s>>
<1>1. s \in T /\ e \in Seq(T) /\ u = Append(e, s)
  OBVIOUS
<1>2. Flattened(e) = <<>>
  BY FlattenedEmpty
<1>3. Flattened(e) \o s = s
  BY <1>2
<1> HIDE DEF e, u
<1>4. Flattened(Append(e, s)) = Flattened(e) \o s
  BY <1>1, FlattenedAppend
<1> QED
  BY <1>1, <1>3, <1>4 DEF u

\* Flattening the concatenation of two lists.
LEMMA FlattenedConcat ==
  ASSUME NEW S, NEW ss \in Seq(Seq(S)), NEW tt \in Seq(Seq(S))
  PROVE  Flattened(ss \o tt) = Flattened(ss) \o Flattened(tt)
<1> DEFINE T == Seq(S)
           G == {t \in Seq(T) : Flattened(ss \o t) = Flattened(ss) \o Flattened(t)}
<1>1. <<>> \in G
  <2> DEFINE e == <<>>
  <2>1. e \in Seq(T) /\ ss \o e = ss
    OBVIOUS
  <2>2. Flattened(e) = <<>> /\ Flattened(ss) \in T
    BY FlattenedEmpty, FlattenedType
  <2>3. Flattened(ss) \o Flattened(e) = Flattened(ss)
    BY <2>2
  <2> HIDE DEF e
  <2>4. e \in G
    BY <2>1, <2>3
  <2> QED
    BY <2>4 DEF e
<1>2. ASSUME NEW t \in Seq(T), NEW s \in T, t \in G PROVE Append(t, s) \in G
  <2> DEFINE c == ss \o t
             a == Append(t, s)
             f == Flattened(ss)
             h == Flattened(t)
  <2>1. ss \in Seq(T)
    OBVIOUS
  <2>2. s \in Seq(S) /\ f \in Seq(S) /\ h \in Seq(S)
    BY FlattenedType
  <2> HIDE DEF T
  <2>3. c \in Seq(T) /\ a \in Seq(T) /\ ss \o a = Append(c, s)
    BY <2>1
  <2> USE DEF T
  <2>4. Flattened(c) = f \o h
    BY <1>2
  <2> HIDE DEF c, a, f, h
  <2>5. Flattened(Append(c, s)) = Flattened(c) \o s
    BY <2>2, <2>3, FlattenedAppend
  <2>6. Flattened(a) = h \o s
    BY <2>2, FlattenedAppend DEF a, h
  <2>7. (f \o h) \o s = f \o (h \o s)
    BY <2>2
  <2>8. a \in G
    BY <2>3, <2>4, <2>5, <2>6, <2>7 DEF f
  <2> QED
    BY <2>8 DEF a
<1>3. tt \in G
  <2> HIDE DEF G
  <2> QED
    BY <1>1, <1>2, InductionOnSeq
<1> QED
  BY <1>3

\* The elements of a flattened list, and how they stand.
LEMMA FlattenedElements ==
  ASSUME NEW S, NEW ss \in Seq(Seq(S))
  PROVE  Elements(Flattened(ss)) = UNION {Elements(ss[k]) : k \in DOMAIN ss}
<1> DEFINE T == Seq(S)
           G == {t \in Seq(T) : Elements(Flattened(t)) = UNION {Elements(t[k]) : k \in DOMAIN t}}
<1>1. <<>> \in G
  <2> DEFINE e == <<>>
  <2>1. e \in Seq(T) /\ DOMAIN e = {} /\ Flattened(e) = <<>>
    BY FlattenedEmpty
  <2>2. Elements(Flattened(e)) = {}
    BY <2>1, NoElement
  <2> HIDE DEF e
  <2>3. e \in G
    BY <2>1, <2>2
  <2> QED
    BY <2>3 DEF e
<1>2. ASSUME NEW t \in Seq(T), NEW s \in T, t \in G PROVE Append(t, s) \in G
  <2> DEFINE a == Append(t, s)
  <2>1. s \in Seq(S) /\ Flattened(t) \in Seq(S)
    BY FlattenedType
  <2>2. Flattened(a) = Flattened(t) \o s
    BY <2>1, FlattenedAppend
  <2>3. Elements(Flattened(a)) = Elements(Flattened(t)) \union Elements(s)
    BY <2>1, <2>2, ConcatElements
  <2>4. /\ a \in Seq(T) /\ Len(t) \in Nat
        /\ DOMAIN t = 1 .. Len(t) /\ DOMAIN a = 1 .. Len(t) + 1
        /\ \A k \in DOMAIN t : a[k] = t[k]
        /\ a[Len(t) + 1] = s
    <3> HIDE DEF T
    <3> QED
      OBVIOUS
  <2>5. Elements(Flattened(t)) = UNION {Elements(t[k]) : k \in DOMAIN t}
    BY <1>2
  <2> HIDE DEF a
  <2>6. DOMAIN a = DOMAIN t \union {Len(t) + 1}
    BY <2>4
  <2>7. UNION {Elements(a[k]) : k \in DOMAIN a} = (UNION {Elements(t[k]) : k \in DOMAIN t}) \union Elements(s)
    <3>1. \A k \in DOMAIN t : Elements(a[k]) = Elements(t[k])
      BY <2>4
    <3>2. Elements(a[Len(t) + 1]) = Elements(s)
      BY <2>4
    <3> QED
      BY <2>6, <3>1, <3>2
  <2>8. a \in G
    BY <2>3, <2>4, <2>5, <2>7
  <2> QED
    BY <2>8 DEF a
<1>3. ss \in G
  <2> HIDE DEF G
  <2> QED
    BY <1>1, <1>2, InductionOnSeq
<1> QED
  BY <1>3

\* What is related within each list, and between them, is related in all.
LEMMA FlattenedPairwise ==
  ASSUME NEW S, NEW ss \in Seq(Seq(S)), NEW R,
         \A k \in DOMAIN ss : Pairwise(R, ss[k]),
         \A j, k \in DOMAIN ss : j < k => Elements(ss[j]) \X Elements(ss[k]) \subseteq R
  PROVE  Pairwise(R, Flattened(ss))
<1> DEFINE T == Seq(S)
           Fine(t) == /\ \A k \in DOMAIN t : Pairwise(R, t[k])
                      /\ \A j, k \in DOMAIN t : j < k => Elements(t[j]) \X Elements(t[k]) \subseteq R
           G == {t \in Seq(T) : Fine(t) => Pairwise(R, Flattened(t))}
<1>1. <<>> \in G
  <2> DEFINE e == <<>>
  <2>1. e \in Seq(T) /\ Flattened(e) = <<>>
    BY FlattenedEmpty
  <2>2. Pairwise(R, Flattened(e))
    BY <2>1, NoElement
  <2> HIDE DEF e, Fine
  <2>3. e \in G
    BY <2>1, <2>2
  <2> QED
    BY <2>3 DEF e
<1>2. ASSUME NEW t \in Seq(T), NEW s \in T, t \in G PROVE Append(t, s) \in G
  <2> DEFINE a == Append(t, s)
  <2>1. s \in Seq(S) /\ Flattened(t) \in Seq(S)
    BY FlattenedType
  <2>2. Flattened(a) = Flattened(t) \o s
    BY <2>1, FlattenedAppend
  <2>3. /\ a \in Seq(T) /\ Len(t) \in Nat
        /\ DOMAIN t = 1 .. Len(t) /\ DOMAIN a = 1 .. Len(t) + 1
        /\ \A k \in DOMAIN t : a[k] = t[k]
        /\ a[Len(t) + 1] = s
    <3> HIDE DEF T
    <3> QED
      OBVIOUS
  <2> HIDE DEF a
  <2>4. ASSUME Fine(a) PROVE Pairwise(R, Flattened(a))
    <3>1. DOMAIN t \subseteq DOMAIN a /\ Len(t) + 1 \in DOMAIN a /\ \A k \in DOMAIN t : k < Len(t) + 1
      BY <2>3
    <3>2. Fine(t)
      <4>1. \A k \in DOMAIN t : Pairwise(R, t[k])
        BY <2>3, <2>4, <3>1
      <4>2. ASSUME NEW j \in DOMAIN t, NEW k \in DOMAIN t, j < k
            PROVE  Elements(t[j]) \X Elements(t[k]) \subseteq R
        <5>1. Elements(a[j]) \X Elements(a[k]) \subseteq R
          BY <2>4, <3>1, <4>2
        <5> QED
          BY <2>3, <5>1
      <4> QED
        BY <4>1, <4>2
    <3>3. Pairwise(R, Flattened(t))
      BY <1>2, <3>2
    <3>4. Pairwise(R, s)
      BY <2>3, <2>4, <3>1
    <3>5. Elements(Flattened(t)) \X Elements(s) \subseteq R
      <4>1. Elements(Flattened(t)) = UNION {Elements(t[k]) : k \in DOMAIN t}
        BY FlattenedElements
      <4>2. ASSUME NEW k \in DOMAIN t PROVE Elements(t[k]) \X Elements(s) \subseteq R
        <5>1. Elements(a[k]) \X Elements(a[Len(t) + 1]) \subseteq R
          BY <2>4, <3>1
        <5> QED
          BY <2>3, <5>1
      <4> QED
        BY <4>1, <4>2
    <3>6. Pairwise(R, Flattened(t) \o s)
      BY <2>1, <3>3, <3>4, <3>5, ConcatPairwise
    <3> QED
      BY <2>2, <3>6
  <2>5. a \in G
    <3> HIDE DEF Fine
    <3> QED
      BY <2>3, <2>4
  <2> QED
    BY <2>5 DEF a
<1>3. ss \in G
  <2> HIDE DEF G
  <2> QED
    BY <1>1, <1>2, InductionOnSeq
<1>4. Fine(ss)
  OBVIOUS
<1> QED
  BY <1>3, <1>4

\* Flattening a list of two.
LEMMA FlattenedTwo ==
  ASSUME NEW S, NEW s \in Seq(S), NEW t \in Seq(S)
  PROVE  Flattened(<<s, t>>) = s \o t
<1> DEFINE T == Seq(S)
           u == <<s>>
           v == <<s, t>>
<1>1. s \in T /\ t \in T
  OBVIOUS
<1>2. u \in Seq(T) /\ v = Append(u, t)
  BY <1>1
<1>3. Flattened(u) = s
  BY FlattenedSingle
<1> HIDE DEF u, v
<1>4. Flattened(Append(u, t)) = Flattened(u) \o t
  BY <1>2, FlattenedAppend
<1>5. Flattened(v) = s \o t
  BY <1>2, <1>3, <1>4
<1> QED
  BY <1>5 DEF v

\* If the elements of each list carry its number, as many of the flattened
\* list carry a number as the list of that number has.
LEMMA FlattenedCount ==
  ASSUME NEW S, NEW ss \in Seq(Seq(S)), NEW g,
         \A k \in DOMAIN ss : \A x \in Elements(ss[k]) : g[x] = k,
         NEW k \in DOMAIN ss
  PROVE  Cardinality({n \in DOMAIN Flattened(ss) : g[Flattened(ss)[n]] = k}) = Len(ss[k])
<1> DEFINE T == Seq(S)
           Numbered(t) == \A j \in DOMAIN t : \A x \in Elements(t[j]) : g[x] = j
           With(f, j) == {n \in DOMAIN f : g[f[n]] = j}
           G == {t \in Seq(T) : Numbered(t) => \A j \in DOMAIN t : Cardinality(With(Flattened(t), j)) = Len(t[j])}
<1>1. <<>> \in G
  <2> DEFINE e == <<>>
  <2>1. e \in Seq(T) /\ DOMAIN e = {}
    OBVIOUS
  <2> HIDE DEF e, Numbered, With
  <2>2. e \in G
    BY <2>1
  <2> QED
    BY <2>2 DEF e
<1>2. ASSUME NEW t \in Seq(T), NEW s \in T, t \in G PROVE Append(t, s) \in G
  <2> DEFINE a == Append(t, s)
             f == Flattened(t)
             c == f \o s
             l == Len(t) + 1
  <2>1. s \in Seq(S) /\ f \in Seq(S)
    BY FlattenedType
  <2>2. Flattened(a) = c
    BY <2>1, FlattenedAppend
  <2>3. /\ a \in Seq(T) /\ Len(t) \in Nat
        /\ DOMAIN t = 1 .. Len(t) /\ DOMAIN a = 1 .. l
        /\ \A j \in DOMAIN t : a[j] = t[j]
        /\ a[l] = s
    <3> HIDE DEF T
    <3> QED
      OBVIOUS
  <2>4. Elements(f) = UNION {Elements(t[j]) : j \in DOMAIN t}
    BY FlattenedElements
  <2>5. /\ Len(f) \in Nat /\ Len(s) \in Nat
        /\ DOMAIN f = 1 .. Len(f) /\ DOMAIN s = 1 .. Len(s)
        /\ DOMAIN c = 1 .. Len(f) + Len(s)
        /\ \A i \in 1 .. Len(f) : c[i] = f[i]
        /\ \A i \in 1 .. Len(s) : c[Len(f) + i] = s[i]
        /\ \A i \in DOMAIN c : i \in DOMAIN f \/ \E j \in DOMAIN s : i = Len(f) + j
    <3> HIDE DEF f
    <3> QED
      BY <2>1, ConcatPlaces
  <2> HIDE DEF a, c, f, T
  <2>6. ASSUME Numbered(a) PROVE \A j \in DOMAIN a : Cardinality(With(c, j)) = Len(a[j])
    <3>1. Numbered(t)
      BY <2>3, <2>6
    <3>2. \A n \in DOMAIN f : g[f[n]] \in DOMAIN t
      <4>1. \A x \in Elements(f) : g[x] \in DOMAIN t
        BY <2>4, <3>1
      <4> QED
        BY <4>1 DEF Elements
    <3>3. \A n \in DOMAIN s : g[s[n]] = l
      <4>1. l \in DOMAIN a
        BY <2>3
      <4>2. \A x \in Elements(s) : g[x] = l
        BY <2>3, <2>6, <4>1
      <4> QED
        BY <4>2 DEF Elements
    <3>4. ASSUME NEW j \in DOMAIN t PROVE Cardinality(With(c, j)) = Len(a[j])
      <4>1. j # l
        BY <2>3
      <4>2. With(c, j) = With(f, j)
        <5>1. \A n \in DOMAIN f : n \in DOMAIN c /\ c[n] = f[n]
          BY <2>5
        <5>2. \A n \in DOMAIN c : n \in DOMAIN f \/ g[c[n]] = l
          BY <2>5, <3>3
        <5> QED
          BY <4>1, <5>1, <5>2
      <4>3. Cardinality(With(f, j)) = Len(t[j])
        BY <1>2, <3>1 DEF f
      <4> QED
        BY <2>3, <4>2, <4>3
    <3>5. Cardinality(With(c, l)) = Len(a[l])
      <4> DEFINE p == Len(f) + 1
                 q == Len(f) + Len(s)
      <4>1. With(c, l) = p .. q
        <5>1. \A n \in DOMAIN f : g[c[n]] # l
          BY <2>3, <2>5, <3>2
        <5>2. \A n \in p .. q : n \in DOMAIN c /\ n \notin DOMAIN f
          BY <2>5
        <5>3. \A n \in p .. q : g[c[n]] = l
          <6> TAKE n \in p .. q
          <6>1. PICK i \in DOMAIN s : n = Len(f) + i
            BY <2>5, <5>2
          <6>2. c[n] = s[i]
            BY <2>5, <6>1
          <6> QED
            BY <3>3, <6>1, <6>2
        <5>4. \A n \in DOMAIN c : n \in DOMAIN f \/ n \in p .. q
          BY <2>5
        <5> HIDE DEF p, q, l
        <5> QED
          BY <5>1, <5>2, <5>3, <5>4
      <4>2. p \in Int /\ q \in Int
        BY <2>5
      <4>3. Cardinality(p .. q) = IF p > q THEN 0 ELSE q - p + 1
        <5> HIDE DEF p, q
        <5> QED
          BY <4>2, FS_Interval
      <4>4. Cardinality(p .. q) = Len(s)
        <5> DEFINE m == Cardinality(p .. q)
        <5>1. m = IF p > q THEN 0 ELSE q - p + 1
          BY <4>3
        <5> HIDE DEF m
        <5>3. Len(f) \in Nat /\ Len(s) \in Nat
          BY <2>5
        <5>2. m = Len(s)
          BY <5>1, <5>3
        <5> QED
          BY <5>2 DEF m
      <4> HIDE DEF p, q
      <4> QED
        BY <2>3, <4>1, <4>4
    <3>6. \A j \in DOMAIN a : j \in DOMAIN t \/ j = l
      BY <2>3
    <3> HIDE DEF With, l
    <3> QED
      BY <3>4, <3>5, <3>6
  <2>7. a \in G
    <3> HIDE DEF Numbered, With, l
    <3> QED
      BY <2>2, <2>3, <2>6
  <2> QED
    BY <2>7 DEF a
<1>3. ss \in G
  <2> HIDE DEF G
  <2> QED
    BY <1>1, <1>2, InductionOnSeq
<1>4. Numbered(ss)
  OBVIOUS
<1> QED
  BY <1>3, <1>4

-----------------------------------------------------------------------------

(* How many of the first n positions are in P.                             *)
UpTo(P, n) == Cardinality({p \in 1 .. n : p \in P})

\* One position more counts if it is in P.
LEMMA UpToNext ==
  ASSUME NEW P, NEW n \in Nat
  PROVE  /\ UpTo(P, 0) = 0 /\ UpTo(P, n) \in Nat
         /\ UpTo(P, n + 1) = UpTo(P, n) + (IF n + 1 \in P THEN 1 ELSE 0)
<1> DEFINE A == {p \in 1 .. n : p \in P}
           B == {p \in 1 .. n + 1 : p \in P}
<1>1. IsFiniteSet(A) /\ Cardinality(A) \in Nat
  <2>1. IsFiniteSet(1 .. n)
    BY FS_Interval
  <2>2. A \subseteq 1 .. n
    OBVIOUS
  <2> HIDE DEF A
  <2>3. IsFiniteSet(A)
    BY <2>1, <2>2, FS_Subset
  <2> QED
    BY <2>3, FS_CardinalityType
<1>2. {p \in 1 .. 0 : p \in P} = {}
  OBVIOUS
<1>3. UpTo(P, 0) = 0
  BY <1>2, FS_EmptySet DEF UpTo
<1>4. CASE n + 1 \in P
  <2>1. B = A \union {n + 1} /\ n + 1 \notin A
    BY <1>4
  <2> HIDE DEF A, B
  <2>2. Cardinality(B) = Cardinality(A) + 1
    BY <1>1, <2>1, FS_AddElement
  <2> QED
    BY <1>1, <1>3, <1>4, <2>2 DEF UpTo, A, B
<1>5. CASE n + 1 \notin P
  <2>1. B = A
    BY <1>5
  <2> QED
    BY <1>1, <1>3, <1>5, <2>1 DEF UpTo
<1> QED
  BY <1>4, <1>5

\* The count does not fall, and grows at a position of P.
LEMMA UpToGrows ==
  ASSUME NEW P, NEW m \in Nat, NEW n \in Nat, m < n
  PROVE  /\ UpTo(P, m) <= UpTo(P, n)
         /\ n \in P => UpTo(P, m) < UpTo(P, n)
<1> DEFINE G == {d \in Nat : UpTo(P, m) <= UpTo(P, m + d)}
<1>1. UpTo(P, m) \in Nat
  BY UpToNext
<1>2. 0 \in G
  BY <1>1
<1>3. ASSUME NEW d \in Nat, d \in G PROVE d + 1 \in G
  <2>1. m + d \in Nat /\ m + (d + 1) = (m + d) + 1
    OBVIOUS
  <2>2. UpTo(P, m + d) <= UpTo(P, (m + d) + 1) /\ UpTo(P, m + d) \in Nat /\ UpTo(P, (m + d) + 1) \in Nat
    <3> DEFINE x == m + d
    <3> HIDE DEF x
    <3>1. x \in Nat
      BY <2>1 DEF x
    <3>2. UpTo(P, x) \in Nat /\ UpTo(P, x + 1) = UpTo(P, x) + (IF x + 1 \in P THEN 1 ELSE 0)
      BY <3>1, UpToNext
    <3>3. UpTo(P, x) <= UpTo(P, x + 1) /\ UpTo(P, x) \in Nat /\ UpTo(P, x + 1) \in Nat
      BY <3>2
    <3> QED
      BY <3>3 DEF x
  <2>3. UpTo(P, m) <= UpTo(P, m + d)
    BY <1>3
  <2>4. UpTo(P, m) <= UpTo(P, m + (d + 1))
    BY <1>1, <2>1, <2>2, <2>3
  <2> QED
    BY <2>4
<1>4. Nat \subseteq G
  <2> HIDE DEF G
  <2> QED
    BY <1>2, <1>3, InductionOnNat
<1> DEFINE e == n - 1 - m
<1>5. e \in Nat /\ m + e = n - 1 /\ n - 1 \in Nat /\ (n - 1) + 1 = n
  OBVIOUS
<1>6. UpTo(P, m) <= UpTo(P, n - 1)
  <2>1. e \in G
    BY <1>4, <1>5
  <2> QED
    BY <1>5, <2>1
<1> DEFINE x == n - 1
<1>7. x \in Nat /\ x + 1 = n
  BY <1>5
<1>8. UpTo(P, m) <= UpTo(P, x)
  BY <1>6
<1> HIDE DEF x, e, G
<1>9. UpTo(P, x) \in Nat /\ UpTo(P, x + 1) = UpTo(P, x) + (IF x + 1 \in P THEN 1 ELSE 0)
  BY <1>7, UpToNext
<1>10. UpTo(P, n) = UpTo(P, x) + (IF n \in P THEN 1 ELSE 0)
  BY <1>7, <1>9
<1> QED
  BY <1>1, <1>8, <1>9, <1>10

\* Each number up to the count is the count at a position of P.
LEMMA UpToPlaces ==
  ASSUME NEW P, NEW n \in Nat, NEW k \in 1 .. UpTo(P, n)
  PROVE  \E p \in 1 .. n : p \in P /\ UpTo(P, p) = k
<1> DEFINE G == {m \in Nat : \A j \in 1 .. UpTo(P, m) : \E p \in 1 .. m : p \in P /\ UpTo(P, p) = j}
<1>1. 0 \in G
  <2>1. UpTo(P, 0) = 0
    BY UpToNext
  <2> QED
    BY <2>1
<1>2. ASSUME NEW m \in Nat, m \in G PROVE m + 1 \in G
  <2>1. UpTo(P, m) \in Nat /\ UpTo(P, m + 1) = UpTo(P, m) + (IF m + 1 \in P THEN 1 ELSE 0)
    BY UpToNext
  <2>2. ASSUME NEW j \in 1 .. UpTo(P, m + 1) PROVE \E p \in 1 .. m + 1 : p \in P /\ UpTo(P, p) = j
    <3>1. CASE j \in 1 .. UpTo(P, m)
      <4>1. PICK p \in 1 .. m : p \in P /\ UpTo(P, p) = j
        BY <1>2, <3>1
      <4> QED
        BY <4>1
    <3>2. CASE j \notin 1 .. UpTo(P, m)
      <4>1. m + 1 \in P /\ j = UpTo(P, m + 1)
        BY <2>1, <3>2
      <4> QED
        BY <4>1
    <3> QED
      BY <3>1, <3>2
  <2> QED
    BY <2>2
<1>3. n \in G
  <2> HIDE DEF G
  <2>1. Nat \subseteq G
    BY <1>1, <1>2, InductionOnNat
  <2> QED
    BY <2>1
<1> QED
  BY <1>3

-----------------------------------------------------------------------------
(* The elements of s that are in B, in their order.                        *)
Kept(s, B) == Flattened([k \in DOMAIN s |-> IF s[k] \in B THEN <<s[k]>> ELSE <<>>])

\* One element more is kept or left out.
LEMMA KeptAppend ==
  ASSUME NEW S, NEW B, NEW s \in Seq(S), NEW x \in S, Kept(s, B) \in Seq(S)
  PROVE  Kept(Append(s, x), B) = IF x \in B THEN Append(Kept(s, B), x) ELSE Kept(s, B)
<1> DEFINE T == Seq(S)
           one(y) == IF y \in B THEN <<y>> ELSE <<>>
           a == Append(s, x)
           n == Len(s) + 1
           ss == [k \in DOMAIN s |-> one(s[k])]
           aa == [k \in DOMAIN a |-> one(a[k])]
<1>2. \A y \in S : one(y) \in T
  OBVIOUS
<1>3. /\ Len(s) \in Nat /\ DOMAIN s = 1 .. Len(s) /\ DOMAIN a = 1 .. n
      /\ \A k \in DOMAIN s : s[k] \in S /\ a[k] = s[k]
      /\ a[n] = x
  OBVIOUS
<1> HIDE DEF a, one, T
<1>4. ss \in Seq(T) /\ Len(ss) = Len(s) /\ \A k \in 1 .. Len(s) : ss[k] = one(s[k])
  <2>1. ss \in [1 .. Len(s) -> T]
    BY <1>2, <1>3
  <2>2. \A k \in 1 .. Len(s) : ss[k] = one(s[k])
    BY <1>3
  <2> HIDE DEF ss
  <2> QED
    BY <1>3, <2>1, <2>2
<1>5. aa = Append(ss, one(x))
  <2> DEFINE bb == Append(ss, one(x))
             o == one(x)
  <2>1. o \in T
    BY <1>2
  <2>2. bb \in Seq(T) /\ Len(bb) = n /\ bb[n] = o /\ \A k \in 1 .. Len(s) : bb[k] = ss[k]
    <3> HIDE DEF ss, o
    <3> QED
      BY <1>4, <2>1, AppendProperties DEF o
  <2>3. \A k \in 1 .. n : aa[k] = bb[k]
    <3> TAKE k \in 1 .. n
    <3>1. aa[k] = one(a[k])
      BY <1>3
    <3>2. CASE k = n
      BY <1>3, <2>2, <3>1, <3>2
    <3>3. CASE k # n
      <4>1. k \in 1 .. Len(s) /\ k \in DOMAIN s
        BY <1>3, <3>3
      <4> HIDE DEF aa, bb, ss
      <4> QED
        BY <1>3, <1>4, <2>2, <3>1, <4>1
    <3> QED
      BY <3>2, <3>3
  <2>4. aa = [k \in 1 .. n |-> aa[k]]
    BY <1>3
  <2>5. bb = [k \in 1 .. n |-> bb[k]]
    <3> HIDE DEF bb
    <3> QED
      BY <2>2
  <2> HIDE DEF aa, bb
  <2>6. aa = bb
    BY <2>3, <2>4, <2>5
  <2> QED
    BY <2>6 DEF bb
<1>6. Kept(s, B) = Flattened(ss) /\ Kept(a, B) = Flattened(aa)
  BY DEF Kept, one
<1>7. Flattened(aa) = Flattened(ss) \o one(x)
  <2> DEFINE o == one(x)
  <2>1. o \in Seq(S)
    BY <1>2 DEF T
  <2>2. ss \in Seq(Seq(S))
    BY <1>4 DEF T
  <2> HIDE DEF ss, aa, o
  <2>3. Flattened(Append(ss, o)) = Flattened(ss) \o o
    BY <2>1, <2>2, FlattenedAppend
  <2> QED
    BY <1>5, <2>3 DEF o
<1> HIDE DEF ss, aa
<1>8. Kept(a, B) = Kept(s, B) \o one(x)
  BY <1>6, <1>7
<1> DEFINE f == Kept(s, B)
<1>9. f \in Seq(S)
  OBVIOUS
<1> HIDE DEF f
<1>10. f \o <<x>> = Append(f, x) /\ f \o <<>> = f
  BY <1>9
<1> QED
  BY <1>8, <1>10 DEF one, a, f

(* Where the elements of s are in B.                                       *)
Places(s, B) == {k \in Nat : s[k] \in B}

\* What is kept, and where.
LEMMA KeptFacts ==
  ASSUME NEW S, NEW B, NEW s \in Seq(S)
  PROVE  /\ Kept(s, B) \in Seq(S)
         /\ Len(Kept(s, B)) = UpTo(Places(s, B), Len(s))
         /\ \A k \in DOMAIN s : s[k] \in B => Kept(s, B)[UpTo(Places(s, B), k)] = s[k]
<1> DEFINE P(t) == {k \in Nat : t[k] \in B}
           Fine(t) ==
             /\ Kept(t, B) \in Seq(S)
             /\ Len(Kept(t, B)) = UpTo(P(t), Len(t))
             /\ \A k \in DOMAIN t : t[k] \in B => Kept(t, B)[UpTo(P(t), k)] = t[k]
           G == {t \in Seq(S) : Fine(t)}
<1>1. <<>> \in G
  <2> DEFINE e == <<>>
  <2>1. e \in Seq(S) /\ Len(e) = 0 /\ DOMAIN e = {}
    OBVIOUS
  <2>2. Kept(e, B) = <<>>
    <3>1. [k \in DOMAIN e |-> IF e[k] \in B THEN <<e[k]>> ELSE <<>>] = <<>>
      OBVIOUS
    <3> QED
      BY <3>1, FlattenedEmpty DEF Kept
  <2>3. UpTo(P(e), 0) = 0
    BY UpToNext
  <2>4. Kept(e, B) = e
    BY <2>2
  <2> HIDE DEF e, P
  <2>5. e \in G
    BY <2>1, <2>3, <2>4
  <2> QED
    BY <2>5 DEF e
<1>2. ASSUME NEW t \in Seq(S), NEW x \in S, t \in G PROVE Append(t, x) \in G
  <2> DEFINE a == Append(t, x)
             n == Len(t)
             f == Kept(t, B)
             c == Kept(a, B)
  <2>1. /\ a \in Seq(S) /\ n \in Nat /\ Len(a) = n + 1
        /\ DOMAIN t = 1 .. n /\ DOMAIN a = 1 .. n + 1
        /\ \A k \in 1 .. n : a[k] = t[k]
        /\ a[n + 1] = x
    OBVIOUS
  <2>2. /\ f \in Seq(S) /\ Len(f) = UpTo(P(t), n)
        /\ \A k \in 1 .. n : t[k] \in B => f[UpTo(P(t), k)] = t[k]
    <3>1. Fine(t)
      BY <1>2
    <3> HIDE DEF P
    <3> QED
      BY <2>1, <3>1
  <2>3. c = IF x \in B THEN Append(f, x) ELSE f
    <3>1. Kept(t, B) \in Seq(S)
      BY <2>2
    <3> QED
      BY <3>1, KeptAppend
  <2> HIDE DEF a, n, f, c
  <2>4. \A k \in 0 .. n : UpTo(P(a), k) = UpTo(P(t), k)
    <3> TAKE k \in 0 .. n
    <3>1. {p \in 1 .. k : p \in P(a)} = {p \in 1 .. k : p \in P(t)}
      BY <2>1
    <3> QED
      BY <3>1 DEF UpTo
  <2>5. n + 1 \in P(a) <=> x \in B
    BY <2>1
  <2> DEFINE Q == P(a)
  <2>6. /\ UpTo(Q, n) \in Nat
        /\ UpTo(Q, n + 1) = UpTo(Q, n) + (IF n + 1 \in Q THEN 1 ELSE 0)
    <3> HIDE DEF Q
    <3> QED
      BY <2>1, UpToNext
  <2>7. Len(f) = UpTo(Q, n) /\ \A k \in 1 .. n : a[k] \in B => f[UpTo(Q, k)] = a[k]
    <3>1. \A k \in 1 .. n : UpTo(Q, k) = UpTo(P(t), k)
      BY <2>1, <2>4
    <3>2. UpTo(Q, n) = UpTo(P(t), n)
      BY <2>1, <2>4
    <3> HIDE DEF P, Q
    <3> QED
      BY <2>1, <2>2, <3>1, <3>2
  <2>8. \A k \in 1 .. n : a[k] \in B => UpTo(Q, k) \in 1 .. UpTo(Q, n)
    <3> TAKE k \in 1 .. n
    <3> SUFFICES ASSUME a[k] \in B PROVE UpTo(Q, k) \in 1 .. UpTo(Q, n)
      OBVIOUS
    <3>1. k \in Q /\ k \in Nat
      BY <2>1
    <3> HIDE DEF P, Q
    <3>2. UpTo(Q, 0) = 0 /\ UpTo(Q, k) \in Nat /\ UpTo(Q, 0) < UpTo(Q, k)
      BY <3>1, UpToNext, UpToGrows
    <3>3. UpTo(Q, k) <= UpTo(Q, n)
      <4>1. CASE k = n
        BY <2>6, <4>1
      <4>2. CASE k # n
        <5>1. k < n
          BY <2>1, <4>2
        <5> QED
          BY <2>1, <3>1, <5>1, UpToGrows
      <4> QED
        BY <4>1, <4>2
    <3> QED
      BY <2>6, <3>2, <3>3
  <2>9. n + 1 \in Q <=> x \in B
    BY <2>5
  <2>10. CASE x \in B
    <3>1. c = Append(f, x)
      BY <2>3, <2>10
    <3>2. /\ c \in Seq(S) /\ Len(c) = Len(f) + 1 /\ c[Len(f) + 1] = x
          /\ \A k \in 1 .. Len(f) : c[k] = f[k]
      BY <2>2, <3>1, AppendProperties
    <3>3. UpTo(Q, n + 1) = Len(f) + 1
      <4> HIDE DEF Q, P
      <4> QED
        BY <2>6, <2>7, <2>9, <2>10
    <3>4. ASSUME NEW k \in 1 .. n + 1, a[k] \in B PROVE c[UpTo(Q, k)] = a[k]
      <4> HIDE DEF Q, P
      <4>1. CASE k = n + 1
        BY <2>1, <3>2, <3>3, <4>1
      <4>2. CASE k # n + 1
        <5>1. k \in 1 .. n
          BY <2>1, <4>2
        <5>2. UpTo(Q, k) \in 1 .. Len(f) /\ f[UpTo(Q, k)] = a[k]
          BY <2>7, <2>8, <3>4, <5>1
        <5> QED
          BY <3>2, <5>2
      <4> QED
        BY <4>1, <4>2
    <3>5. Fine(a)
      BY <2>1, <3>2, <3>3, <3>4 DEF c
    <3> QED
      BY <2>1, <3>5 DEF a
  <2>11. CASE x \notin B
    <3>1. c = f
      BY <2>3, <2>11
    <3>2. UpTo(Q, n + 1) = Len(f)
      <4> HIDE DEF Q, P
      <4> QED
        BY <2>6, <2>7, <2>9, <2>11
    <3>3. ASSUME NEW k \in 1 .. n + 1, a[k] \in B PROVE c[UpTo(Q, k)] = a[k]
      <4>1. k \in 1 .. n
        <5>1. k # n + 1
          BY <2>1, <2>11, <3>3
        <5> QED
          BY <2>1, <5>1
      <4> HIDE DEF Q, P
      <4> QED
        BY <2>7, <3>1, <3>3, <4>1
    <3>4. Fine(a)
      BY <2>1, <2>2, <3>1, <3>2, <3>3 DEF c
    <3> QED
      BY <2>1, <3>4 DEF a
  <2> QED
    BY <2>10, <2>11
<1>3. s \in G
  <2> HIDE DEF G
  <2> QED
    BY <1>1, <1>2, InductionOnSeq
<1> QED
  BY <1>3 DEF Places

\* What is kept is what is in the set, in the same order.
LEMMA KeptElements ==
  ASSUME NEW S, NEW B, NEW s \in Seq(S), NEW R
  PROVE  /\ Elements(Kept(s, B)) = Elements(s) \cap B
         /\ Pairwise(R, s) => Pairwise(R, Kept(s, B))
<1> DEFINE T == Seq(S)
           one(y) == IF y \in B THEN <<y>> ELSE <<>>
           ss == [k \in DOMAIN s |-> one(s[k])]
<1>1. Len(s) \in Nat /\ DOMAIN s = 1 .. Len(s) /\ \A k \in DOMAIN s : s[k] \in S
  OBVIOUS
<1>2. \A y \in S : /\ one(y) \in T /\ Elements(one(y)) = {y} \cap B
                   /\ Pairwise(R, one(y))
  <2> TAKE y \in S
  <2>1. <<y>> \in Seq(S) /\ Elements(<<y>>) = {y} /\ Pairwise(R, <<y>>)
    BY SingleElement
  <2>2. Elements(<<>>) = {} /\ Pairwise(R, <<>>) /\ <<>> \in Seq(S)
    BY NoElement
  <2> QED
    BY <2>1, <2>2
<1> HIDE DEF one
<1>3. Kept(s, B) = Flattened(ss)
  BY DEF Kept, one
<1>4. ss \in Seq(T) /\ DOMAIN ss = DOMAIN s /\ \A k \in DOMAIN s : ss[k] = one(s[k])
  <2> HIDE DEF T
  <2>1. ss \in [1 .. Len(s) -> T]
    BY <1>1, <1>2
  <2>2. DOMAIN ss = DOMAIN s /\ \A k \in DOMAIN s : ss[k] = one(s[k])
    OBVIOUS
  <2> HIDE DEF ss
  <2> QED
    BY <1>1, <2>1, <2>2
<1> HIDE DEF ss
<1>5. Elements(Flattened(ss)) = UNION {Elements(ss[k]) : k \in DOMAIN ss}
  BY <1>4, FlattenedElements
<1>6. \A k \in DOMAIN s : Elements(ss[k]) = {s[k]} \cap B
  BY <1>1, <1>2, <1>4
<1>7. Elements(Kept(s, B)) = Elements(s) \cap B
  <2>1. UNION {Elements(ss[k]) : k \in DOMAIN ss} = UNION {{s[k]} \cap B : k \in DOMAIN s}
    BY <1>4, <1>6
  <2>2. UNION {{s[k]} \cap B : k \in DOMAIN s} = Elements(s) \cap B
    BY DEF Elements
  <2> QED
    BY <1>3, <1>5, <2>1, <2>2
<1>8. ASSUME Pairwise(R, s) PROVE Pairwise(R, Kept(s, B))
  <2>1. \A k \in DOMAIN ss : Pairwise(R, ss[k])
    BY <1>1, <1>2, <1>4
  <2>2. ASSUME NEW j \in DOMAIN ss, NEW k \in DOMAIN ss, j < k
        PROVE  Elements(ss[j]) \X Elements(ss[k]) \subseteq R
    <3>1. <<s[j], s[k]>> \in R
      BY <1>4, <1>8, <2>2 DEF Pairwise
    <3>2. Elements(ss[j]) \subseteq {s[j]} /\ Elements(ss[k]) \subseteq {s[k]}
      BY <1>4, <1>6
    <3> QED
      BY <3>1, <3>2
  <2> QED
    BY <1>3, <1>4, <2>1, <2>2, FlattenedPairwise
<1> QED
  BY <1>7, <1>8

\* The multiples up to a number are as many as the quotient says.
LEMMA Multiples ==
  ASSUME NEW m \in Nat \ {0}, NEW n \in Nat, NEW k \in Nat
  PROVE  k + 1 <= (n + m - 1) \div m <=> m * k + 1 <= n
<1> DEFINE x == n + m - 1
           q == x \div m
<1>1. x \in Nat /\ m * k \in Nat
  OBVIOUS
<1>2. q \in Nat /\ m * q <= x /\ x < m * q + m
  <2> HIDE DEF x
  <2> QED
    BY <1>1, Quotient
<1>3. x = n + m - 1
  OBVIOUS
<1> HIDE DEF x, q
<1>4. m * (k + 1) = m * k + m /\ m * q \in Nat
  BY <1>2
<1>5. ASSUME k + 1 <= q PROVE m * k + 1 <= n
  <2>1. PICK d \in Nat : q = (k + 1) + d
    <3>1. q - (k + 1) \in Nat /\ q = (k + 1) + (q - (k + 1))
      BY <1>2, <1>5
    <3> QED
      BY <3>1
  <2>2. m * q = m * (k + 1) + m * d /\ m * d \in Nat
    BY <2>1
  <2> QED
    BY <1>1, <1>2, <1>3, <1>4, <2>2
<1>6. ASSUME m * k + 1 <= n PROVE k + 1 <= q
  <2>1. m * (k + 1) < m * q + m
    BY <1>1, <1>2, <1>3, <1>4, <1>6
  <2> QED
    BY <1>2, <2>1, Larger
<1> QED
  BY <1>5, <1>6 DEF q, x

\* A number without remainder is a multiple.
LEMMA Remainder ==
  ASSUME NEW m \in Nat \ {0}, NEW x \in Nat
  PROVE  x % m = 0 <=> \E k \in Nat : x = m * k
<1>0. m \in Nat /\ m > 0
  OBVIOUS
<1>1. ASSUME x % m = 0 PROVE \E k \in Nat : x = m * k
  <2>1. x % m = x - m * (x \div m)
    BY <1>0
  <2>2. x \div m \in Nat
    BY Quotient
  <2> DEFINE q == x \div m
             p == m * q
  <2>3. q \in Nat /\ p \in Nat /\ x - p = 0
    BY <1>1, <2>1, <2>2
  <2> HIDE DEF p
  <2>4. x = p
    BY <2>3
  <2> QED
    BY <2>3, <2>4 DEF p
<1>2. ASSUME NEW k \in Nat, x = m * k PROVE x % m = 0
  <2>1. (m * k) % m = 0
    BY <1>0
  <2> QED
    BY <1>2, <2>1
<1> QED
  BY <1>1, <1>2

(* Every m-th element of s, from the first.                                *)
EveryNth(s, m) == [k \in 1 .. (Len(s) + m - 1) \div m |-> s[(k - 1) * m + 1]]

\* The places of the elements taken are those without remainder.
LEMMA EveryNthPlaces ==
  ASSUME NEW S, NEW s \in Seq(S), NEW m \in Nat \ {0}
  PROVE  /\ EveryNth(s, m) \in Seq(S)
         /\ \A k \in DOMAIN EveryNth(s, m) :
              /\ (k - 1) * m + 1 \in DOMAIN s
              /\ EveryNth(s, m)[k] = s[(k - 1) * m + 1]
         /\ \A i \in DOMAIN s : (i - 1) % m = 0 =>
              \E k \in DOMAIN EveryNth(s, m) : i = (k - 1) * m + 1
<1> DEFINE n == Len(s)
           q == (n + m - 1) \div m
           e == EveryNth(s, m)
<1>1. n \in Nat /\ DOMAIN s = 1 .. n /\ \A i \in 1 .. n : s[i] \in S
  OBVIOUS
<1>2. q \in Nat
  <2> DEFINE x == n + m - 1
  <2>1. x \in Nat
    BY <1>1
  <2> HIDE DEF x
  <2>2. x \div m \in Nat
    BY <2>1, Quotient
  <2> QED
    BY <2>2 DEF x
<1>3. DOMAIN e = 1 .. q /\ \A k \in 1 .. q : e[k] = s[(k - 1) * m + 1]
  BY DEF EveryNth
<1>4. \A k \in Nat : k + 1 <= q <=> m * k + 1 <= n
  <2> HIDE DEF n
  <2> QED
    BY <1>1, Multiples
<1> HIDE DEF q, n
<1>5. ASSUME NEW k \in 1 .. q PROVE (k - 1) * m + 1 \in 1 .. n
  <2> DEFINE j == k - 1
  <2>1. j \in Nat /\ j + 1 <= q /\ j + 1 = k
    BY <1>2
  <2> HIDE DEF j
  <2>2. m * j + 1 <= n /\ m * j \in Nat /\ j * m = m * j
    BY <1>4, <2>1
  <2>3. j * m + 1 \in 1 .. n
    BY <1>1, <2>2
  <2> QED
    BY <2>3 DEF j
<1>6. e \in Seq(S)
  <2>1. \A k \in 1 .. q : e[k] \in S
    BY <1>1, <1>3, <1>5
  <2>2. e = [k \in 1 .. q |-> e[k]]
    BY DEF EveryNth, q, n
  <2> HIDE DEF e
  <2>3. e \in [1 .. q -> S]
    BY <2>1, <2>2
  <2> QED
    BY <1>2, <2>3
<1>7. ASSUME NEW i \in 1 .. n, (i - 1) % m = 0 PROVE \E k \in 1 .. q : i = (k - 1) * m + 1
  <2> DEFINE x == i - 1
  <2>1. x \in Nat /\ x + 1 = i /\ x % m = 0
    BY <1>1, <1>7
  <2> HIDE DEF x
  <2>2. PICK j \in Nat : x = m * j
    BY <2>1, Remainder
  <2>3. m * j + 1 <= n
    BY <1>1, <2>1, <2>2
  <2>4. j + 1 <= q
    BY <1>4, <2>3
  <2> DEFINE k == j + 1
  <2>5. k \in 1 .. q /\ k - 1 = j
    BY <1>2, <2>4
  <2> HIDE DEF k
  <2>6. (k - 1) * m + 1 = i
    <3>1. j * m = m * j
      OBVIOUS
    <3> QED
      BY <2>1, <2>2, <2>5, <3>1
  <2> QED
    BY <2>5, <2>6
<1> HIDE DEF e
<1> QED
  BY <1>1, <1>3, <1>5, <1>6, <1>7 DEF e

\* The elements taken are in order.
LEMMA EveryNthPairwise ==
  ASSUME NEW S, NEW s \in Seq(S), NEW m \in Nat \ {0}, NEW R, Pairwise(R, s)
  PROVE  Pairwise(R, EveryNth(s, m))
<1> DEFINE e == EveryNth(s, m)
<1>1. /\ e \in Seq(S)
      /\ \A k \in DOMAIN e : (k - 1) * m + 1 \in DOMAIN s /\ e[k] = s[(k - 1) * m + 1]
  BY EveryNthPlaces
<1> HIDE DEF e
<1>2. ASSUME NEW j \in DOMAIN e, NEW k \in DOMAIN e, j < k
      PROVE  <<e[j], e[k]>> \in R
  <2>1. j \in Nat /\ k \in Nat /\ j >= 1
    BY <1>1
  <2> DEFINE a == (j - 1) * m + 1
             b == (k - 1) * m + 1
  <2>2. a < b
    <3>1. PICK d \in Nat : k - 1 = (j - 1) + d /\ d >= 1
      <4>1. k - j \in Nat /\ k - 1 = (j - 1) + (k - j) /\ k - j >= 1
        BY <1>2, <2>1
      <4> QED
        BY <4>1
    <3> DEFINE x == j - 1
    <3>2. x \in Nat
      BY <2>1
    <3> HIDE DEF x
    <3>3. (x + d) * m = x * m + d * m /\ d * m >= m /\ x * m \in Nat /\ d * m \in Nat
      <4>1. PICK c \in Nat : d = c + 1
        <5>1. d - 1 \in Nat /\ d = (d - 1) + 1
          BY <3>1
        <5> QED
          BY <5>1
      <4>2. d * m = c * m + m /\ c * m \in Nat
        BY <4>1
      <4>3. (x + d) * m = x * m + d * m /\ x * m \in Nat
        BY <3>2
      <4> QED
        BY <4>2, <4>3
    <3>4. x * m + 1 < (x + d) * m + 1
      BY <3>3
    <3> QED
      BY <3>1, <3>4 DEF x
  <2>3. a \in DOMAIN s /\ b \in DOMAIN s /\ e[j] = s[a] /\ e[k] = s[b]
    BY <1>1
  <2> HIDE DEF a, b
  <2> QED
    BY <2>2, <2>3 DEF Pairwise
<1> QED
  BY <1>2 DEF Pairwise, e
=============================================================================
