---------------------------- MODULE MetricsMode ----------------------------
(***************************************************************************)
(* The metrics mode, put together: the Firehose event is transformed and   *)
(* posted, and its metrics get the tags of the best resource among those   *)
(* of the cache.  The cache outlives an event: this module extends it and  *)
(* has an instance of each other part.                                     *)
(***************************************************************************)
EXTENDS ResourceCache

CONSTANTS
  MaxRecords, MaxMessages, Size, MaxBatch,              (* MetricsFirehose   *)
  Value, Stem, MaxRegexes, MaxResources                 (* Associator        *)

VARIABLES
  batching, event, rec, msg, batch, posts, eventAnswer,
  mq, regexes, resources, metric, found

firehose == <<batching, event, rec, msg, batch, posts, eventAnswer>>
lookup   == <<mq, regexes, resources, metric, found>>

F == INSTANCE MetricsFirehose WITH answer <- eventAnswer
A == INSTANCE Associator

ASSUME FirehoseAssumption == F!ConstantsOK
ASSUME LookupAssumption == A!ConstantsOK

-----------------------------------------------------------------------------
(* The posts of an event are its messages, in order and well packed.       *)
PostsAreSound == F!PostsAreSound

(* The event succeeds if and only if all it owes was posted and answered.  *)
Shipped == F!Shipped

(* The lookup finds a resource that agrees with the metric as far as       *)
(* exclusive or can tell, and the best.                                    *)
BestResource == A!BestResource
=============================================================================
