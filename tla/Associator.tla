----------------------------- MODULE Associator -----------------------------
(***************************************************************************)
(* Associator (src/src/metrics/tag_enrichment.rs): which of the tagged     *)
(* resources of a namespace a metric belongs to.  The regexes of the       *)
(* namespace's service are tried in order on the ARN of each resource; the *)
(* first that matches yields the dimensions the resource is known by.  A   *)
(* metric is looked up by the same dimensions, those of the most specific  *)
(* regex first.                                                            *)
(*                                                                         *)
(* A regex is the set of dimensions it captures (no group of a regex of    *)
(* yace_services.json is optional); a resource is the values its ARN has   *)
(* for dimensions, and a regex matches it if they are all there.  The hash *)
(* of a string is abstracted to the string itself: strings differ in their *)
(* hashes, and sets of strings in the exclusive or of them.                *)
(***************************************************************************)
EXTENDS Naturals, Sequences, FiniteSets, FiniteSetsExt, SequencesExt

CONSTANTS
  Value,         (* Value[d]: the values of dimension d                     *)
  Stem,          (* Stem[v]: v without a number and its dash at the end     *)
  MaxRegexes,    (* bound: most regexes of a service                        *)
  MaxResources   (* bound: most resources of the namespace                  *)

VARIABLES
  mq,         (* the namespace is AWS/AmazonMQ                              *)
  regexes,    (* dimension_regexes, in order                                *)
  resources,  (* the tagged resources                                       *)
  metric,     (* the dimensions of the metric                               *)
  found       (* index of the resource found; -1 before the lookup, 0: none *)

vars == <<mq, regexes, resources, metric, found>>

Dimension == DOMAIN Value

(* To be stated as an assumption where the module is instantiated: the     *)
(* dimensions of a service are finitely many.                              *)
ConstantsOK ==
  /\ IsFiniteSet(Dimension) /\ DOMAIN Stem = UNION {Value[d] : d \in Dimension}
  /\ MaxRegexes \in Nat /\ MaxResources \in Nat

(* Values of some dimensions: cw_metric_from_attributes for a metric.      *)
Labels ==
  UNION {{f \in [D -> UNION {Value[d] : d \in D}] : \A d \in D : f[d] \in Value[d]} :
           D \in SUBSET Dimension}

Init ==
  /\ mq \in BOOLEAN
  /\ regexes \in BoundedSeq(SUBSET Dimension, MaxRegexes)
  /\ resources \in BoundedSeq(Labels \ {<<>>}, MaxResources)
  /\ metric \in Labels
  /\ found = -1

-----------------------------------------------------------------------------
(* Variant: only the names of the dimensions are hashed. *)
SignatureOfNames(labels, dims) == dims

(* What is in one of the sets: exclusive or. *)
Xor(S, T) == (S \ T) \union (T \ S)

(* The values that occur an odd number of times. *)
OddValues(labels, dims) ==
  {v \in {labels[d] : d \in dims} : Cardinality({d \in dims : labels[d] = v}) % 2 = 1}

(* labels_to_signature of the labels for dims: names and values are        *)
(* combined with exclusive or, so that what occurs twice is not there.     *)
Signature(labels, dims) == Xor(dims, OddValues(labels, dims))

(* Variant: the broker's instance is looked up by its own name. *)
SoughtAsIs == metric

(* The dimensions the metric is looked up by: the instances of a broker    *)
(* have the name of their broker and a number.                             *)
Sought ==
  [d \in DOMAIN metric |->
     IF mq /\ d = "Broker" THEN Stem[metric[d]] ELSE metric[d]]

(* The regexes that match resource r; one that names no dimension counts   *)
(* for nothing.                                                            *)
Matching(r) ==
  {k \in DOMAIN regexes : regexes[k] # {} /\ regexes[k] \subseteq DOMAIN resources[r]}

(* Associator::new: the resources mapped under regex k. *)
Mapped(k) == {r \in DOMAIN resources : k \in Matching(r) /\ k = Min(Matching(r))}

Hits(k) ==
  {r \in Mapped(k) : Signature(resources[r], regexes[k]) = Signature(Sought, regexes[k])}

(* Variant: the other way round. *)
PrecedesIfFewer(j, k) ==
  \/ Cardinality(regexes[j]) < Cardinality(regexes[k])
  \/ Cardinality(regexes[j]) = Cardinality(regexes[k]) /\ j <= k

(* The order of the mappings: more dimensions first, otherwise as given. *)
Precedes(j, k) ==
  \/ Cardinality(regexes[j]) > Cardinality(regexes[k])
  \/ Cardinality(regexes[j]) = Cardinality(regexes[k]) /\ j <= k

(* The mappings that answer: the metric has all their dimensions. *)
Candidates == {k \in DOMAIN regexes : regexes[k] \subseteq DOMAIN metric /\ Hits(k) # {}}

(* associate_metric_to_resource: of resources with the same signature the  *)
(* last one mapped is kept.                                                *)
Associate ==
  /\ found = -1
  /\ found' = IF metric = <<>> \/ Candidates = {} THEN 0
              ELSE Max(Hits(CHOOSE k \in Candidates : \A j \in Candidates : Precedes(k, j)))
  /\ UNCHANGED <<mq, regexes, resources, metric>>

Next == Associate

Spec == Init /\ [][Next]_vars

-----------------------------------------------------------------------------
(* Resource r is known by regex k, all of whose dimensions the metric has.  *)
Known(r, k) ==
  /\ Matching(r) # {} /\ k = Min(Matching(r))
  /\ regexes[k] \subseteq DOMAIN metric

(* The value of the metric for dimension d is that of resource r; a broker *)
(* of Amazon MQ may have a number of its instance behind it.               *)
Same(r, d) ==
  resources[r][d] = IF mq /\ d = "Broker" THEN Stem[metric[d]] ELSE metric[d]

(* Resource r and the metric agree on the dimensions the resource is known *)
(* by, those of regex k.                                                   *)
Agree(r, k) == Known(r, k) /\ \A d \in regexes[k] : Same(r, d)

(* Two dimensions of regex k share a value, in the resource, in the metric *)
(* or across: exclusive or makes nothing of equal values and does not tell *)
(* which dimension a value belongs to (tag_enrichment.rs:38).              *)
Confusable(r, k) ==
  \E d, e \in regexes[k] :
    /\ d # e
    /\ \/ resources[r][d] = resources[r][e]
       \/ Sought[d] = Sought[e]
       \/ resources[r][d] = Sought[e]

(* A metric gets the tags of a resource only if they agree on every        *)
(* dimension the resource is known by, or if the values of two of these    *)
(* dimensions can be confused: never by a single dimension.                *)
RightResource ==
  found > 0 =>
    \E k \in DOMAIN regexes : Agree(found, k) \/ (Known(found, k) /\ Confusable(found, k))

(* No resource that agrees with the metric is missed, and none that is     *)
(* known by fewer dimensions is preferred.                                 *)
MostSpecificFound ==
  found >= 0 =>
    \A r \in DOMAIN resources, k \in DOMAIN regexes :
      Agree(r, k) =>
        \E q \in DOMAIN regexes :
          found > 0 /\ Known(found, q) /\ Cardinality(regexes[q]) >= Cardinality(regexes[k])

(* The lookup finds a resource that agrees with the metric as far as       *)
(* exclusive or can tell, and the best.                                    *)
BestResource == RightResource /\ MostSpecificFound
=============================================================================
