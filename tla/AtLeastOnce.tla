---------------------------- MODULE AtLeastOnce ----------------------------
(***************************************************************************)
(* What the outbox relay and the consumer loop each promise (FR-10, FR-11, *)
(* AC-8): nothing is delivered that was not offered, and everything that   *)
(* is offered is delivered in the end.  Redeliveries are not visible here: *)
(* delivered is a set.                                                     *)
(***************************************************************************)
CONSTANT Items

VARIABLES offered, delivered

DeliveryInit == offered = {} /\ delivered = {}

Offer(i) ==
  /\ i \notin offered
  /\ offered' = offered \cup {i}
  /\ UNCHANGED delivered

Deliver(i) ==
  /\ i \in offered \ delivered
  /\ delivered' = delivered \cup {i}
  /\ UNCHANGED offered

DeliveryNext == \E i \in Items : Offer(i) \/ Deliver(i)

DeliverySafety == DeliveryInit /\ [][DeliveryNext]_<<offered, delivered>>

DeliverySpec ==
  DeliverySafety /\ \A i \in Items : WF_<<offered, delivered>>(Deliver(i))
=============================================================================
