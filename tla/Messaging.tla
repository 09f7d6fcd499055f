----------------------------- MODULE Messaging -----------------------------
(***************************************************************************)
(* What the three services share: the saga events, the transactional       *)
(* outboxes they are committed to, and the Kafka topics the outbox relays  *)
(* publish them on.                                                        *)
(*                                                                         *)
(* A row inserted in an outbox carries an envelope with a fresh UUID as    *)
(* its idempotency key.  An event is therefore identified by its topic,    *)
(* its saga and the number of rows that topic had received for that saga:  *)
(* two rows are two events even when their contents agree.  The rest of a  *)
(* payload is determined by the order's request.  A topic has a single     *)
(* producer, so the three outboxes are one function.                       *)
(*                                                                         *)
(* Delivery is at least once and unordered across topics: a published      *)
(* event stays in the topic, and its consumers may be handed it at any     *)
(* later moment, any number of times.                                      *)
(***************************************************************************)
EXTENDS Naturals

CONSTANTS Sagas,      \* the order ids, which are also the saga ids
          SKUs        \* the SKUs an order, a request or a stock row may name

Topics == {"order.created", "order.cancelled",
           "payment.processed", "payment.failed", "payment.refunded",
           "inventory.reserved", "inventory.reservation_failed",
           "inventory.released"}

Event == [topic : Topics, saga : Sagas, n : Nat \ {0}]

VARIABLES emitted,    \* emitted[s][t]: rows for saga s and topic t ever inserted
          published   \* the events some relay has published at least once

messagingVars == <<emitted, published>>

MessagingTypeOK ==
  /\ emitted \in [Sagas -> [Topics -> Nat]]
  /\ published \subseteq Event

MessagingInit ==
  /\ emitted = [s \in Sagas |-> [t \in Topics |-> 0]]
  /\ published = {}

\* The outboxes after one more row for saga s and topic t.
InsertOutbox(s, t) == [emitted EXCEPT ![s][t] = @ + 1]

\* The event of the n-th row for saga s and topic t.
Ev(t, s, n) == [topic |-> t, saga |-> s, n |-> n]

\* The rows of saga s and topic t that no relay has published yet.
PendingRows(s, t) ==
  {Ev(t, s, n) : n \in 1 .. emitted[s][t]} \ published

(***************************************************************************)
(* A relay publishes one PENDING row and, once the broker has acknowledged *)
(* it, marks it PUBLISHED.  Publishing a row again (a crash between the    *)
(* two, a late acknowledgement) leaves published as it is.                 *)
(***************************************************************************)
RelayPublish(s, t) ==
  /\ \E e \in PendingRows(s, t) : published' = published \cup {e}
  /\ UNCHANGED emitted
=============================================================================
