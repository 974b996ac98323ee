---------------------------- MODULE EventCustody ----------------------------
(***************************************************************************)
(* What the shipper together with its queues promises about an event it    *)
(* has been given: somebody holds it until it is settled, that is shipped  *)
(* to Coralogix or archived in the bucket for failed events.  Delivery is  *)
(* at least once: a settled event may still be held, or be held again, and *)
(* be shipped a second time.                                               *)
(***************************************************************************)
CONSTANT Event

VARIABLES
  accepted,  (* events handed to the shipper                                *)
  held,      (* events that a queue still keeps                             *)
  settled    (* events shipped or archived                                  *)

vars == <<accepted, held, settled>>

Init ==
  /\ accepted = {}
  /\ held = {}
  /\ settled = {}

(* A new event arrives. *)
Accept ==
  /\ \E e \in Event \ accepted : /\ accepted' = accepted \cup {e}
                                 /\ held' = held \cup {e}
  /\ UNCHANGED settled

(* A held event is shipped or archived; its holder may forget it at once. *)
Settle ==
  /\ \E e \in held : /\ settled' = settled \cup {e}
                     /\ held' \in {held, held \ {e}}
  /\ UNCHANGED accepted

(* Queues forget events, but only settled ones. *)
Release ==
  /\ held' \subseteq held
  /\ held \ held' \subseteq settled
  /\ UNCHANGED <<accepted, settled>>

(* A settled event is queued once more: the price of at-least-once. *)
Repeat ==
  /\ \E e \in settled : held' = held \cup {e}
  /\ UNCHANGED <<accepted, settled>>

Next == Accept \/ Settle \/ Release \/ Repeat

Spec == Init /\ [][Next]_vars
=============================================================================
