---------------------------- MODULE OrderService ----------------------------
(***************************************************************************)
(* The Order service (Go): CreateOrder over gRPC and the handler of the    *)
(* consumed saga events, services/order/internal/{grpcapi,app,store}.      *)
(* One database transaction is one step.                                   *)
(***************************************************************************)
EXTENDS Messaging, Integers, OrderDomain

CONSTANTS Quantities,   \* the quantities a client may ask for, valid or not
          Amounts       \* the amounts a client may state, in thousandths

ASSUME OrderAssumption ==
  /\ Quantities \subseteq Int
  /\ Amounts \subseteq Int

Request == [sku : SKUs, quantity : Quantities, amount : Amounts]

VARIABLES order,          \* order[s]: the status column, "NONE" before the row exists
          request,        \* request[s]: the sku, quantity and amount columns
          orderSeen,      \* the processed_messages of consumer "order-service"
          skipped,        \* events dropped unapplied with their offset committed
          terminalCount   \* terminalCount[s]: what saga s added to saga_terminal_total

orderVars == <<order, request, orderSeen, skipped, terminalCount>>

OrderTypeOK ==
  /\ order \in [Sagas -> Status \cup {"NONE"}]
  /\ request \in [{s \in Sagas : order[s] # "NONE"} -> Request]
  /\ orderSeen \subseteq Event
  /\ skipped \subseteq Event
  /\ terminalCount \in [Sagas -> Nat]

OrderInit ==
  /\ order = [s \in Sagas |-> "NONE"]
  /\ request = [s \in {} |-> s]
  /\ orderSeen = {}
  /\ skipped = {}
  /\ terminalCount = [s \in Sagas |-> 0]

OrderConsumedTopics ==
  {"payment.processed", "payment.failed", "inventory.reserved",
   "inventory.reservation_failed", "payment.refunded"}

TopicTrigger(topic) ==
  CASE topic = "payment.processed"            -> "PaymentProcessed"
    [] topic = "payment.failed"               -> "PaymentFailed"
    [] topic = "inventory.reserved"           -> "InventoryReserved"
    [] topic = "inventory.reservation_failed" -> "InventoryReservationFailed"
    [] topic = "payment.refunded"             -> "PaymentRefunded"

\* Mutation: any quantity is accepted.
ValidRequestAny(r) == TRUE

(***************************************************************************)
(* CreateOrder rejects a quantity that is not positive; otherwise the      *)
(* PENDING order (under a fresh id) and its OrderCreated row commit in one *)
(* transaction.                                                            *)
(***************************************************************************)
ValidRequest(r) == r.quantity > 0

CreateOrder(s, r) ==
  /\ ValidRequest(r)
  /\ order[s] = "NONE"
  /\ order' = [order EXCEPT ![s] = "PENDING"]
  /\ request' = [x \in DOMAIN request \cup {s} |-> IF x = s THEN r ELSE request[x]]
  /\ emitted' = InsertOutbox(s, "order.created")
  /\ UNCHANGED <<published, orderSeen, skipped, terminalCount>>

(***************************************************************************)
(* What the transaction of HandleEvent decides for event e: the order is   *)
(* looked up, then the state machine is applied.                           *)
(***************************************************************************)
Outcome(e) ==
  IF order[e.saga] = "NONE"
    THEN [Invalid("PENDING") EXCEPT !.err = "not_found"]
    ELSE Apply(order[e.saga], TopicTrigger(e.topic))

\* recordTerminal, called after every event that was applied: it reads the
\* order back and counts it if its status is terminal.
RecordTerminal(s, status) ==
  IF IsTerminal(status)
    THEN [terminalCount EXCEPT ![s] = @ + 1]
    ELSE terminalCount

(***************************************************************************)
(* HandleEvent.  A duplicate (its key already in processed_messages) and a *)
(* premature event (the transaction rolls back and the consumer rewinds)   *)
(* change nothing: those deliveries are stuttering steps.  An invalid      *)
(* transition or an unknown order rolls back as well, but the handler      *)
(* reports success, so the event is skipped for good.                      *)
(***************************************************************************)
OrderApply(e, res) ==
  /\ orderSeen' = orderSeen \cup {e}
  /\ order' = [order EXCEPT ![e.saga] = IF res.changed THEN res.next ELSE @]
  /\ emitted' = IF res.emit THEN InsertOutbox(e.saga, "order.cancelled") ELSE emitted
  /\ terminalCount' = RecordTerminal(e.saga, order'[e.saga])
  /\ UNCHANGED skipped

OrderSkip(e) ==
  /\ skipped' = skipped \cup {e}
  /\ UNCHANGED <<order, orderSeen, emitted, terminalCount>>

OrderHandleEvent(e) ==
  /\ e \in published
  /\ e.topic \in OrderConsumedTopics
  /\ e \notin orderSeen
  /\ LET res == Outcome(e)
     IN /\ res.err # "premature"
        /\ IF res.err = "none" THEN OrderApply(e, res) ELSE OrderSkip(e)
  /\ UNCHANGED <<published, request>>
=============================================================================
