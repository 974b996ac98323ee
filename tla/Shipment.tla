------------------------------ MODULE Shipment ------------------------------
(***************************************************************************)
(* What one run of the log pipeline promises its caller, whatever batching *)
(* and concurrency it uses: the run discovers what it has to ship, the     *)
(* exporter acknowledges part of it, request by request, and the run       *)
(* answers exactly once, with success if and only if everything owed has   *)
(* been acknowledged.  The retry machinery around the handler (the Lambda  *)
(* service, the dead-letter queue) relies on nothing but this answer.      *)
(***************************************************************************)
VARIABLES
  owed,      (* what the run knows it has to ship                           *)
  acked,     (* what the exporter has acknowledged                          *)
  answer     (* "none" until the run returns, then "ok" or "err"            *)

vars == <<owed, acked, answer>>

Init ==
  /\ acked = {}
  /\ answer = "none"

(* The run finds out about more. *)
Owe ==
  /\ answer = "none"
  /\ owed \subseteq owed'
  /\ UNCHANGED <<acked, answer>>

(* The exporter acknowledges a request. *)
Ack ==
  /\ answer = "none"
  /\ acked \subseteq acked'
  /\ acked' \subseteq owed
  /\ UNCHANGED <<owed, answer>>

(* The run returns. *)
Answer ==
  /\ answer = "none"
  /\ answer' = IF owed = acked THEN "ok" ELSE "err"
  /\ UNCHANGED <<owed, acked>>

Next == Owe \/ Ack \/ Answer

Spec == Init /\ [][Next]_vars
=============================================================================
