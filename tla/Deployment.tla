---------------------------- MODULE Deployment ----------------------------
(***************************************************************************)
(* What deploying the shipper runs, put together: the custom resource that *)
(* wires it to the buckets, which this module extends, and a cold start of *)
(* the Lambda function under the configuration of the stack.               *)
(***************************************************************************)
EXTENDS BucketNotifications

CONSTANT MaxHeaders                                     (* StartUp           *)

VARIABLES env, step, route, headers, identity, secrets

start == <<env, step, route, headers, identity, secrets>>

S == INSTANCE StartUp

ASSUME StartAssumption == S!ConstantsOK

-----------------------------------------------------------------------------
(* What runs has its own credentials and nobody else's.                    *)
StartIsSound == S!StartIsSound
=============================================================================
