---------------------------- MODULE MCDeployment ----------------------------
(***************************************************************************)
(* What deploying the shipper runs, for TLC: the custom resource or a cold *)
(* start.  The other stays in an initial state.                            *)
(***************************************************************************)
EXTENDS Deployment

VARIABLE part                                 (* the one that runs           *)

MCBuckets == <<"b1", "b2">>

MCInit ==
  /\ part \in {"buckets", "start"}
  /\ IF part = "buckets" THEN Init ELSE kept = [b \in Names |-> {}] /\ Init
  /\ IF part = "start" THEN S!Init ELSE env = (CHOOSE e \in S!Env : TRUE) /\ S!Init

MCVars == <<part, vars, start>>

Wiring   == part = "buckets" /\ Next /\ UNCHANGED <<part, start>>
Starting == part = "start" /\ S!Next /\ UNCHANGED <<part, vars>>

MCNext == Wiring \/ Starting

MCSpec == MCInit /\ [][MCNext]_MCVars
=============================================================================
