--------------------------- MODULE PaymentService ---------------------------
(***************************************************************************)
(* The Payment service (Python): the handlers of order.created and of      *)
(* inventory.reservation_failed, services/payment/src/payment/{app,db,     *)
(* domain,inventory_client}.py.  One database transaction is one step; the *)
(* synchronous ReserveStock call is made after the transaction and is a    *)
(* step of its own, and so is its return.                                  *)
(***************************************************************************)
EXTENDS Messaging, Integers

CONSTANTS ForceFailure,   \* the FORCE_PAYMENT_FAILURE flag
          Faults          \* the faults of the environment: a subset of Fault

Fault == {"crash", "rpc"}

ASSUME PaymentAssumption ==
  /\ ForceFailure \in BOOLEAN
  /\ Faults \subseteq Fault

VARIABLES payment,    \* payment[s]: the status column, "NONE" before the row exists
          refundSeen, \* the processed_messages of the refund consumer
          reserver,   \* the consumer thread: {} or {<<order.created event, stage>>}
          rpc         \* the ReserveStock requests on their way to Inventory

paymentVars == <<payment, refundSeen, reserver, rpc>>

PaymentTypeOK ==
  /\ payment \in [Sagas -> {"NONE", "PROCESSED", "FAILED", "REFUNDED"}]
  /\ refundSeen \subseteq Event
  /\ reserver \subseteq Event \X {"call", "wait"}
  /\ rpc \subseteq Event

PaymentInit ==
  /\ payment = [s \in Sagas |-> "NONE"]
  /\ refundSeen = {}
  /\ reserver = {}
  /\ rpc = {}

\* decide_payment: the charge fails when the flag is set or when the amount is
\* within half a cent of 66.06.
MagicFailureAmount == 66060
AmountEpsilon == 5
Approved(amount) ==
  /\ ~ ForceFailure
  /\ ~ (/\ amount - MagicFailureAmount < AmountEpsilon
        /\ MagicFailureAmount - amount < AmountEpsilon)

\* Mutation: the payment of a redelivered order is recorded again.
NewPaymentAlways(s) == TRUE

\* record_payment inserts a row: the saga has none yet.
NewPayment(s) == payment[s] = "NONE"

(***************************************************************************)
(* _handle_order_created up to the end of record_payment's transaction,    *)
(* for an order of the given amount.  A duplicate (the payments row of the *)
(* saga exists) returns without the call and changes nothing.  The         *)
(* consumer is one thread: it starts no handler while another one is       *)
(* waiting for Inventory.                                                  *)
(***************************************************************************)
PaymentHandleOrderCreated(e, amount) ==
  /\ e \in published
  /\ e.topic = "order.created"
  /\ reserver = {}
  /\ NewPayment(e.saga)
  /\ IF Approved(amount)
       THEN /\ payment' = [payment EXCEPT ![e.saga] = "PROCESSED"]
            /\ emitted' = InsertOutbox(e.saga, "payment.processed")
            /\ reserver' = {<<e, "call">>}
       ELSE /\ payment' = [payment EXCEPT ![e.saga] = "FAILED"]
            /\ emitted' = InsertOutbox(e.saga, "payment.failed")
            /\ UNCHANGED reserver
  /\ UNCHANGED <<published, refundSeen, rpc>>

\* The handler issues ReserveStock with the envelope's idempotency key.
PaymentCallReserve(e) ==
  /\ <<e, "call">> \in reserver
  /\ reserver' = {<<e, "wait">>}
  /\ rpc' = rpc \cup {e}
  /\ UNCHANGED <<messagingVars, payment, refundSeen>>

(***************************************************************************)
(* The call returns: with the answer, with a transport error, or because   *)
(* its five-second deadline expired while the request is still under way.  *)
(* An RpcError is logged and the handler ends normally in every case.      *)
(***************************************************************************)
PaymentReserveReturns(e) ==
  /\ <<e, "wait">> \in reserver
  /\ reserver' = {}
  /\ UNCHANGED <<messagingVars, payment, refundSeen, rpc>>

\* Mutation: the refund is bound to the wrong topic.
CompensationTopicWrong == "inventory.reserved"

CompensationTopic == "inventory.reservation_failed"

\* Mutation: the event is inserted but the status is not updated.
RefundedNot(s) == payment

Refunded(s) == [payment EXCEPT ![s] = "REFUNDED"]

(***************************************************************************)
(* _handle_compensation: the marker, the conditional update and the        *)
(* PaymentRefunded row are one transaction.  A duplicate changes nothing.  *)
(***************************************************************************)
PaymentHandleCompensation(e) ==
  /\ e \in published
  /\ e.topic = CompensationTopic
  /\ reserver = {}
  /\ e \notin refundSeen
  /\ refundSeen' = refundSeen \cup {e}
  /\ IF payment[e.saga] = "PROCESSED"
       THEN /\ payment' = Refunded(e.saga)
            /\ emitted' = InsertOutbox(e.saga, "payment.refunded")
       ELSE UNCHANGED <<payment, emitted>>
  /\ UNCHANGED <<published, reserver, rpc>>

(***************************************************************************)
(* The environment.  The process dies between the payment's commit and the *)
(* call (dying while it waits is PaymentReserveReturns: the request goes   *)
(* on).  A ReserveStock request is lost on the way, or Inventory's handler *)
(* throws and its transaction rolls back.                                  *)
(***************************************************************************)
PaymentCrash(e) ==
  /\ "crash" \in Faults
  /\ <<e, "call">> \in reserver
  /\ reserver' = {}
  /\ UNCHANGED <<messagingVars, payment, refundSeen, rpc>>

ReserveRequestLost(e) ==
  /\ "rpc" \in Faults
  /\ e \in rpc
  /\ rpc' = rpc \ {e}
  /\ UNCHANGED <<messagingVars, payment, refundSeen, reserver>>
=============================================================================
