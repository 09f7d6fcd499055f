-------------------------- MODULE ChoreographySaga --------------------------
(***************************************************************************)
(* The saga: the three services, their outboxes and topics, and the one    *)
(* synchronous call, composed.                                             *)
(***************************************************************************)
EXTENDS OrderService, PaymentService, InventoryService

vars == <<messagingVars, orderVars, paymentVars, inventoryVars>>

TypeOK == MessagingTypeOK /\ OrderTypeOK /\ PaymentTypeOK /\ InventoryTypeOK

Init == MessagingInit /\ OrderInit /\ PaymentInit /\ InventoryInit

-----------------------------------------------------------------------------
(* The steps of the composition.                                           *)

ClientCreatesOrder(s) ==
  /\ \E r \in Request : CreateOrder(s, r)
  /\ UNCHANGED <<paymentVars, inventoryVars>>

OutboxPublishes(s, t) ==
  /\ RelayPublish(s, t)
  /\ UNCHANGED <<orderVars, paymentVars, inventoryVars>>

OrderConsumes(e) ==
  /\ OrderHandleEvent(e)
  /\ UNCHANGED <<paymentVars, inventoryVars>>

PaymentConsumes(e) ==
  /\ \/ PaymentHandleOrderCreated(e, request[e.saga].amount)
     \/ PaymentHandleCompensation(e)
  /\ UNCHANGED <<orderVars, inventoryVars>>

PaymentCalls(e) ==
  /\ PaymentCallReserve(e) \/ PaymentReserveReturns(e)
  /\ UNCHANGED <<orderVars, inventoryVars>>

\* Inventory executes a request; Payment passed on the order's sku and quantity.
InventoryServes(e) ==
  /\ e \in rpc
  /\ rpc' = rpc \ {e}
  /\ ReserveStock(e.saga, e, request[e.saga].sku, request[e.saga].quantity)
  /\ UNCHANGED <<orderVars, payment, refundSeen, reserver>>

InventoryConsumes(e) ==
  /\ InventoryHandleOrderCancelled(e)
  /\ UNCHANGED <<orderVars, paymentVars>>

Fails(e) ==
  /\ PaymentCrash(e) \/ ReserveRequestLost(e)
  /\ UNCHANGED <<orderVars, inventoryVars>>

Next ==
  \/ \E s \in Sagas :
       ClientCreatesOrder(s) \/ \E t \in Topics : OutboxPublishes(s, t)
  \/ \E e \in published :
       \/ OrderConsumes(e) \/ PaymentConsumes(e) \/ InventoryConsumes(e)
       \/ PaymentCalls(e) \/ InventoryServes(e) \/ Fails(e)

Spec == Init /\ [][Next]_vars

(***************************************************************************)
(* Fairness, per saga and topic.  A relay polls its outbox for ever and    *)
(* retries what it could not publish; a consumer is handed every event     *)
(* until it has processed it; a handler that has started goes on to its    *)
(* next statement; a request that is not lost is executed.  Nothing makes  *)
(* a client create an order, and nothing makes a fault happen.             *)
(***************************************************************************)
Of(e, s, t) == e.saga = s /\ e.topic = t

Fairness ==
  \A s \in Sagas, t \in Topics :
    /\ WF_vars(OutboxPublishes(s, t))
    /\ WF_vars(\E e \in published : Of(e, s, t) /\ OrderConsumes(e))
    /\ WF_vars(\E e \in published : Of(e, s, t) /\ PaymentConsumes(e))
    /\ WF_vars(\E e \in published : Of(e, s, t) /\ PaymentCalls(e))
    /\ WF_vars(\E e \in published : Of(e, s, t) /\ InventoryServes(e))
    /\ WF_vars(\E e \in published : Of(e, s, t) /\ InventoryConsumes(e))

FairSpec == Spec /\ Fairness

-----------------------------------------------------------------------------
(* What a finished saga looks like.                                        *)

\* Charged, stock held, order confirmed.
Committed(s) ==
  /\ order[s] = "CONFIRMED"
  /\ payment[s] = "PROCESSED"
  /\ reservation[s].status = "RESERVED"

\* Order cancelled, no stock held, no payment captured.
Compensated(s) ==
  /\ order[s] = "CANCELLED"
  /\ payment[s] \in {"FAILED", "REFUNDED"}
  /\ reservation[s].status # "RESERVED"

\* The payment is captured but no reservation was ever attempted.
Stranded(s) ==
  /\ order[s] = "PAYMENT_OK"
  /\ payment[s] = "PROCESSED"
  /\ reservation[s].status = "NONE"
  /\ \A t \in {"inventory.reserved", "inventory.reservation_failed"} : emitted[s][t] = 0

\* Nothing is left to do for saga s: every event it emitted has been published
\* and processed by every consumer of its topic, and no call is under way.
Quiescent(s) ==
  /\ order[s] # "NONE"
  /\ \A t \in Topics : \A n \in 1 .. emitted[s][t] :
       /\ Ev(t, s, n) \in published
       /\ t = "order.created" => payment[s] # "NONE"
       /\ t \in OrderConsumedTopics => Ev(t, s, n) \in orderSeen \cup skipped
       /\ t = "inventory.reservation_failed" => Ev(t, s, n) \in refundSeen
       /\ t = "order.cancelled" =>
            <<"inventory-order-cancelled", Ev(t, s, n)>> \in inventorySeen
  /\ \A e \in rpc : e.saga # s
  /\ \A call \in reserver : call[1].saga # s

-----------------------------------------------------------------------------
(* Safety.                                                                 *)

(***************************************************************************)
(* No duplicate side effects (FR-12, AC-9): whatever is redelivered, each  *)
(* saga inserts at most one row per topic in the outboxes.  The guards are *)
(* scattered: the unique saga_id of payments, the processed_messages of    *)
(* three services, the status tested by the refund and by Apply.           *)
(***************************************************************************)
EmitOnce == \A s \in Sagas, t \in Topics : emitted[s][t] <= 1

(***************************************************************************)
(* HandleEvent never drops an event (ErrInvalidTransition or ErrNotFound,  *)
(* both logged and committed): in every interleaving the event that meets  *)
(* a status too early is classified as premature, not as invalid.          *)
(***************************************************************************)
NothingSkipped == skipped = {}

(***************************************************************************)
(* The final statuses of the three services agree (NFR-1): a CONFIRMED     *)
(* order is paid and holds its stock; a CANCELLED order holds no stock,    *)
(* and either was never charged or has a failed reservation on record, so  *)
(* that its refund is done or on its way.                                  *)
(***************************************************************************)
OutcomesAgree ==
  \A s \in Sagas :
    /\ order[s] = "CONFIRMED" => Committed(s)
    /\ order[s] = "CANCELLED" =>
         /\ reservation[s].status # "RESERVED"
         /\ \/ payment[s] = "FAILED"
            \/ emitted[s]["inventory.reservation_failed"] > 0

(***************************************************************************)
(* Stock is never held for an order whose payment failed or was refunded.  *)
(***************************************************************************)
NoUnpaidStock ==
  \A s \in Sagas :
    reservation[s].status = "RESERVED" => payment[s] = "PROCESSED"

(***************************************************************************)
(* When nothing is left to do for a saga it is fully committed or fully    *)
(* compensated (NFR-1, FR-21, AC-5), or, if the environment may lose the   *)
(* ReserveStock call, stranded by exactly that loss: there is no other way *)
(* for a saga to stop half-way.                                            *)
(***************************************************************************)
QuiescentSettled ==
  \A s \in Sagas :
    Quiescent(s) => \/ Committed(s)
                    \/ Compensated(s)
                    \/ Faults # {} /\ Stranded(s)

-----------------------------------------------------------------------------
(* What a step may never do.                                               *)

(***************************************************************************)
(* Compensation runs in reverse order (FR-7, ARCHITECTURE 8): an order     *)
(* leaves COMPENSATING only for CANCELLED, and only once the payment has   *)
(* been refunded.                                                          *)
(***************************************************************************)
RefundBeforeCancel ==
  [][\A s \in Sagas :
       order[s] = "COMPENSATING" /\ order'[s] # order[s] =>
         order'[s] = "CANCELLED" /\ payment[s] = "REFUNDED"]_vars

-----------------------------------------------------------------------------
(* The saga is atomic.                                                     *)

OutcomeOf(s) ==
  IF order[s] = "NONE" THEN "absent"
  ELSE IF Committed(s) THEN "committed"
  ELSE IF Compensated(s) THEN "aborted"
  ELSE "running"

Atomic == INSTANCE AtomicSaga WITH outcome <- [s \in Sagas |-> OutcomeOf(s)]

(***************************************************************************)
(* The choreography implements the atomic saga: the step that completes    *)
(* the last of charge, reservation, refund and status change decides the   *)
(* outcome, and no late or redelivered event changes it (NFR-1).           *)
(***************************************************************************)
ImplementsAtomicSaga == Atomic!AtomicSpec

-----------------------------------------------------------------------------
(* The inductive invariant behind the safety properties.                   *)

Has(s, t) == emitted[s][t] = 1

\* Inventory has executed the ReserveStock request of saga s.
Decided(s) == <<"inventory-reserve", Ev("order.created", s, 1)>> \in inventorySeen

\* Payment is about to issue the call of saga s.
Calling(s) == <<Ev("order.created", s, 1), "call">> \in reserver

\* The call of saga s is on its way to Inventory.
Requested(s) == Ev("order.created", s, 1) \in rpc

\* Only emitted events are published, and only published events are used.
EventsInv ==
  /\ \A e \in published : e.n <= emitted[e.saga][e.topic]
  /\ orderSeen \cup refundSeen \subseteq published
  /\ \A e \in orderSeen : e.topic \in OrderConsumedTopics
  /\ \A e \in refundSeen : e.topic = "inventory.reservation_failed"
  /\ \A e \in rpc : e \in published /\ e.topic = "order.created"
  /\ \A c \in reserver : c[1] \in published /\ c[1].topic = "order.created"
  /\ \A c, d \in reserver : c = d

\* The order's status tells which events have been applied.
OrderInv(s) ==
  /\ order[s] # "NONE" <=> Has(s, "order.created")
  /\ order[s] # "NONE" => request[s].quantity > 0
  /\ order[s] \in {"NONE", "PENDING"} => \A t \in Topics : Ev(t, s, 1) \notin orderSeen
  /\ order[s] = "PAYMENT_OK" =>
       \A t \in Topics : Ev(t, s, 1) \in orderSeen <=> t = "payment.processed"
  /\ order[s] = "COMPENSATING" =>
       \A t \in Topics : Ev(t, s, 1) \in orderSeen <=>
         t \in {"payment.processed", "inventory.reservation_failed"}
  /\ order[s] = "CONFIRMED" => Has(s, "inventory.reserved")
  /\ order[s] = "CANCELLED" <=> Has(s, "order.cancelled")
  /\ order[s] = "CANCELLED" =>
       Has(s, "payment.failed") \/ Has(s, "inventory.reservation_failed")

\* The payment's status tells which events Payment has emitted, and a refund
\* is the answer to a failed reservation.
PaymentInv(s) ==
  /\ payment[s] # "NONE" => Has(s, "order.created")
  /\ payment[s] = "FAILED" <=> Has(s, "payment.failed")
  /\ payment[s] \in {"PROCESSED", "REFUNDED"} <=> Has(s, "payment.processed")
  /\ payment[s] = "REFUNDED" <=> Has(s, "payment.refunded")
  /\ payment[s] = "REFUNDED" <=> Ev("inventory.reservation_failed", s, 1) \in refundSeen

\* Inventory decides once, after the charge, and never has to release.
InventoryInv(s) ==
  /\ Decided(s) <=> Has(s, "inventory.reserved") \/ Has(s, "inventory.reservation_failed")
  /\ ~ (Has(s, "inventory.reserved") /\ Has(s, "inventory.reservation_failed"))
  /\ Decided(s) => Has(s, "payment.processed")
  /\ reservation[s].status = "RESERVED" <=> Has(s, "inventory.reserved")
  /\ reservation[s].status # "RELEASED"
  /\ ~ Has(s, "inventory.released")

\* The call is made once, after the charge; without faults it is not lost.
CallInv(s) ==
  /\ Calling(s) \/ Requested(s) => Has(s, "payment.processed") /\ ~ Decided(s)
  /\ ~ (Calling(s) /\ Requested(s))
  /\ Faults = {} /\ Has(s, "payment.processed") =>
       Calling(s) \/ Requested(s) \/ Decided(s)

(***************************************************************************)
(* Every status, marker and outbox row of a saga is determined by how far  *)
(* the others have come.  This is what makes the scattered guards of the   *)
(* three services add up; the safety properties follow from it.            *)
(***************************************************************************)
IInv ==
  /\ TypeOK
  /\ EmitOnce
  /\ EventsInv
  /\ skipped = {}
  /\ StockConserved
  /\ \A s \in Sagas : OrderInv(s) /\ PaymentInv(s) /\ InventoryInv(s) /\ CallInv(s)

-----------------------------------------------------------------------------
(* Liveness.                                                               *)

\* The charge is captured and the call that should follow it is gone.
CallLost(s) ==
  /\ order[s] = "PAYMENT_OK"
  /\ payment[s] = "PROCESSED"
  /\ ~ Calling(s) /\ ~ Requested(s) /\ ~ Decided(s)

(***************************************************************************)
(* Every order that is created ends fully committed or fully compensated   *)
(* (AC-1, AC-4, AC-5), or its ReserveStock call was lost after the charge: *)
(* neither a crash elsewhere nor any interleaving makes a saga hang, and   *)
(* an order cancelled before its refund is refunded.                       *)
(***************************************************************************)
SettlesUnlessLost ==
  \A s \in Sagas : order[s] # "NONE" ~> Committed(s) \/ Compensated(s) \/ CallLost(s)

-----------------------------------------------------------------------------
(* Claims of the source that the code does not keep.                       *)

(***************************************************************************)
(* Every order that is created ends fully committed or fully compensated   *)
(* (AC-1, AC-4, AC-5), also when the ReserveStock call fails.              *)
(***************************************************************************)
EventuallySettled ==
  \A s \in Sagas : order[s] # "NONE" ~> Committed(s) \/ Compensated(s)

(***************************************************************************)
(* saga_terminal_total is described as "orders reaching a terminal saga    *)
(* state": recordTerminal counts an order at most once.                    *)
(***************************************************************************)
CountedOnce == \A s \in Sagas : terminalCount[s] <= 1
=============================================================================
