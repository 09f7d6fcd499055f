----------------------- MODULE ChoreographySagaProofs -----------------------
(***************************************************************************)
(* The steps of Payment and Inventory, and of the call between them,       *)
(* preserve the saga's invariant; and the theorems about the saga, for any *)
(* number of orders, SKUs, quantities and amounts, and any faults.         *)
(***************************************************************************)
EXTENDS SagaLemmas

\* Most leaves are first-order without arithmetic, and Zenon proves them; the
\* others name SMT.
USE OrderAssumption, PaymentAssumption, InventoryAssumption, Zenon
USE DEF NewPayment, CompensationTopic, Refunded, Processed, ReservedRow, Releasable

-----------------------------------------------------------------------------
(***************************************************************************)
(* Payment's _handle_order_created, up to the end of its transaction.      *)
(***************************************************************************)
LEMMA InvPaymentCharges ==
  ASSUME IInv, NEW e \in published, PaymentConsumes(e),
         PaymentHandleOrderCreated(e, request[e.saga].amount)
  PROVE  IInv'
<1> DEFINE s == e.saga
           ok == Approved(request[e.saga].amount)
           topic == IF ok THEN "payment.processed" ELSE "payment.failed"
<1>1. TypeOK'
  BY TypePaymentConsumes DEF IInv
<1>2. /\ s \in Sagas /\ e.topic = "order.created" /\ Has(s, "order.created")
      /\ e = Ev("order.created", s, 1)
      /\ payment[s] = "NONE" /\ reserver = {}
  BY PublishedEvent DEF PaymentHandleOrderCreated
<1>3. /\ UNCHANGED <<published, order, request, orderSeen, skipped>>
      /\ UNCHANGED <<refundSeen, rpc, stock, reservation, inventorySeen>>
      /\ reserver' = IF ok THEN {<<e, "call">>} ELSE {}
      /\ emitted' = InsertOutbox(s, topic)
      /\ topic \in Topics
  BY <1>2 DEF PaymentHandleOrderCreated, PaymentConsumes, orderVars, inventoryVars, Topics
<1>4. \A x \in Sagas : payment'[x] =
        IF x = s THEN IF ok THEN "PROCESSED" ELSE "FAILED" ELSE payment[x]
  BY <1>2 DEF PaymentHandleOrderCreated, IInv, TypeOK, PaymentTypeOK
<1>5. /\ ~ Has(s, "payment.processed") /\ ~ Has(s, "payment.failed")
      /\ ~ Has(s, "payment.refunded")
      /\ ~ Decided(s) /\ ~ Requested(s)
      /\ Ev("inventory.reservation_failed", s, 1) \notin refundSeen
  BY <1>2, SagaInvOf DEF PaymentInv, InventoryInv, CallInv
<1>6. /\ EmitOnce'
      /\ \A x \in Sagas, u \in Topics :
           /\ emitted[x][u] <= emitted'[x][u]
           /\ Has(x, u)' <=> Has(x, u) \/ (x = s /\ u = topic)
  <2>1. ~ Has(s, topic)
    BY <1>5
  <2> HIDE DEF topic
  <2>2. QED
    BY <1>2, <1>3, <2>1, FirstInsert
<1>7. EventsInv'
  <2>1. \A x \in published' : x.n <= emitted'[x.saga][x.topic]
    BY <1>1, <1>3, <1>6, PublishedStaysEmitted
  <2>2. \A c \in reserver' : c = <<e, "call">>
    BY <1>3
  <2>3. QED
    BY <1>2, <1>3, <2>1, <2>2, SMT DEF IInv, EventsInv
<1>8. skipped' = {} /\ StockConserved'
  BY <1>3 DEF IInv, StockConserved
<1>9. ASSUME NEW x \in Sagas
      PROVE  SagaInv(x)'
  <2>1. OrderInv(x) /\ PaymentInv(x) /\ InventoryInv(x) /\ CallInv(x)
    BY SagaInvOf
  <2>2. \A u \in Topics \ {"payment.processed", "payment.failed"} : Has(x, u)' <=> Has(x, u)
    BY <1>6
  <2>3. /\ Has(x, "payment.processed")' <=> Has(x, "payment.processed") \/ (x = s /\ ok)
        /\ Has(x, "payment.failed")' <=> Has(x, "payment.failed") \/ (x = s /\ ~ ok)
    BY <1>6 DEF Topics
  <2>4. OrderInv(x)'
    BY <1>3, <2>1, <2>2, <2>3 DEF OrderInv, Topics
  <2>5. PaymentInv(x)'
    BY <1>2, <1>3, <1>4, <1>5, <2>1, <2>2, <2>3 DEF PaymentInv, Topics
  <2>6. InventoryInv(x)'
    BY <1>3, <2>1, <2>2, <2>3 DEF InventoryInv, Decided, Topics
  <2>7. Calling(x)' <=> x = s /\ ok
    BY <1>2, <1>3, EvInjective, SMT DEF Calling
  <2>8. (Requested(x)' <=> Requested(x)) /\ (Decided(x)' <=> Decided(x)) /\ ~ Calling(x)
    BY <1>2, <1>3 DEF Requested, Decided, Calling
  <2>9. CallInv(x)'
    BY <1>5, <2>1, <2>3, <2>7, <2>8 DEF CallInv
  <2>10. QED
    BY <2>4, <2>5, <2>6, <2>9 DEF SagaInv
<1>10. QED
  BY <1>1, <1>6, <1>7, <1>8, <1>9 DEF IInv, SagaInv

(***************************************************************************)
(* Payment's _handle_compensation.  The payment of a failed reservation is *)
(* captured and not yet refunded, so the conditional update takes effect.  *)
(***************************************************************************)
LEMMA InvPaymentRefunds ==
  ASSUME IInv, NEW e \in published, PaymentConsumes(e), PaymentHandleCompensation(e)
  PROVE  IInv'
<1> DEFINE s == e.saga
<1>1. TypeOK'
  BY TypePaymentConsumes DEF IInv
<1>2. /\ s \in Sagas /\ e.topic = "inventory.reservation_failed"
      /\ Has(s, "inventory.reservation_failed")
      /\ e = Ev("inventory.reservation_failed", s, 1)
      /\ e \notin refundSeen
  BY PublishedEvent DEF PaymentHandleCompensation
<1>3. payment[s] = "PROCESSED" /\ ~ Has(s, "payment.refunded")
  BY <1>2, SagaInvOf DEF PaymentInv, InventoryInv
<1>4. /\ UNCHANGED <<published, order, request, orderSeen, skipped>>
      /\ UNCHANGED <<reserver, rpc, stock, reservation, inventorySeen>>
      /\ refundSeen' = refundSeen \cup {e}
      /\ emitted' = InsertOutbox(s, "payment.refunded")
      /\ "payment.refunded" \in Topics
  BY <1>3 DEF PaymentHandleCompensation, PaymentConsumes, orderVars, inventoryVars, Topics
<1>5. \A x \in Sagas : payment'[x] = IF x = s THEN "REFUNDED" ELSE payment[x]
  BY <1>2, <1>3 DEF PaymentHandleCompensation, IInv, TypeOK, PaymentTypeOK
<1>6. /\ EmitOnce'
      /\ \A x \in Sagas, u \in Topics :
           /\ emitted[x][u] <= emitted'[x][u]
           /\ Has(x, u)' <=> Has(x, u) \/ (x = s /\ u = "payment.refunded")
  BY <1>2, <1>3, <1>4, FirstInsert
<1>7. EventsInv'
  <2>1. \A x \in published' : x.n <= emitted'[x.saga][x.topic]
    BY <1>1, <1>4, <1>6, PublishedStaysEmitted
  <2>2. QED
    BY <1>2, <1>4, <2>1 DEF IInv, EventsInv
<1>8. skipped' = {} /\ StockConserved'
  BY <1>4 DEF IInv, StockConserved
<1>9. ASSUME NEW x \in Sagas
      PROVE  SagaInv(x)'
  <2>1. OrderInv(x) /\ PaymentInv(x) /\ InventoryInv(x) /\ CallInv(x)
    BY SagaInvOf
  <2>2. \A u \in Topics \ {"payment.refunded"} : Has(x, u)' <=> Has(x, u)
    BY <1>6
  <2>3. Has(x, "payment.refunded")' <=> Has(x, "payment.refunded") \/ x = s
    BY <1>4, <1>6
  <2>4. Ev("inventory.reservation_failed", x, 1) \in refundSeen' <=>
          Ev("inventory.reservation_failed", x, 1) \in refundSeen \/ x = s
    BY <1>2, <1>4, EvInjective, SMT
  <2>5. PaymentInv(x)'
    BY <1>3, <1>5, <2>1, <2>2, <2>3, <2>4 DEF PaymentInv, Topics
  <2>6. OrderInv(x)' /\ InventoryInv(x)' /\ CallInv(x)'
    BY <1>4, <2>1, <2>2 DEF OrderInv, InventoryInv, CallInv, Calling, Requested,
       Decided, Topics
  <2>7. QED
    BY <2>5, <2>6 DEF SagaInv
<1>10. QED
  BY <1>1, <1>6, <1>7, <1>8, <1>9 DEF IInv, SagaInv

(***************************************************************************)
(* The call leaves Payment, returns or is lost: only the stage of the call *)
(* changes, and it disappears only when a fault is possible.               *)
(***************************************************************************)
LEMMA InvPaymentCalls ==
  ASSUME IInv, NEW e \in published, PaymentCalls(e) \/ Fails(e)
  PROVE  IInv'
<1> DEFINE s == e.saga
<1>1. TypeOK'
  BY TypePaymentCalls DEF IInv
<1>2. /\ UNCHANGED <<emitted, published, order, request, orderSeen, skipped>>
      /\ UNCHANGED <<payment, refundSeen, stock, reservation, inventorySeen>>
  BY DEF PaymentCalls, PaymentCallReserve, PaymentReserveReturns, Fails, PaymentCrash,
     ReserveRequestLost, messagingVars, orderVars, inventoryVars
<1>3. \/ /\ <<e, "call">> \in reserver /\ reserver' = {<<e, "wait">>}
         /\ rpc' = rpc \cup {e}
      \/ /\ <<e, "wait">> \in reserver /\ reserver' = {} /\ rpc' = rpc
      \/ /\ Faults # {} /\ <<e, "call">> \in reserver /\ reserver' = {} /\ rpc' = rpc
      \/ /\ Faults # {} /\ e \in rpc /\ reserver' = reserver /\ rpc' = rpc \ {e}
  BY DEF PaymentCalls, PaymentCallReserve, PaymentReserveReturns, Fails, PaymentCrash,
     ReserveRequestLost
<1>4. s \in Sagas /\ e = Ev("order.created", s, 1)
  <2>1. e.topic = "order.created"
    BY <1>3 DEF IInv, EventsInv
  <2>2. QED
    BY <2>1, PublishedEvent
<1>5. EventsInv'
  <2>1. \A x \in published' : x.n <= emitted'[x.saga][x.topic]
    BY <1>2 DEF IInv, EventsInv
  <2>2. e.topic = "order.created"
    BY <1>4, SMT DEF Ev
  <2>3. \A x \in rpc' : x \in published' /\ x.topic = "order.created"
    BY <1>2, <1>3, <2>2 DEF IInv, EventsInv
  <2>4. /\ \A c \in reserver' : c[1] \in published' /\ c[1].topic = "order.created"
        /\ \A c, d \in reserver' : c = d
    BY <1>2, <1>3, <2>2, SMT DEF IInv, EventsInv
  <2>5. QED
    BY <1>2, <2>1, <2>3, <2>4 DEF IInv, EventsInv
<1>6. EmitOnce' /\ skipped' = {} /\ StockConserved'
  BY <1>2 DEF IInv, EmitOnce, StockConserved
<1>7. ASSUME NEW x \in Sagas
      PROVE  SagaInv(x)'
  <2>1. OrderInv(x) /\ PaymentInv(x) /\ InventoryInv(x) /\ CallInv(x)
    BY SagaInvOf
  <2>2. OrderInv(x)' /\ PaymentInv(x)' /\ InventoryInv(x)'
    BY <1>2, <2>1 DEF OrderInv, PaymentInv, InventoryInv, Decided, Has
  <2>3. (Decided(x)' <=> Decided(x))
        /\ (Has(x, "payment.processed")' <=> Has(x, "payment.processed"))
    BY <1>2 DEF Decided, Has
  <2>4. Ev("order.created", x, 1) = e <=> x = s
    BY <1>4, EvInjective, SMT
  <2>5. \A c, d \in reserver : c = d
    BY DEF IInv, EventsInv
  <2>6. \/ /\ Calling(x) <=> x = s
           /\ ~ Calling(x)'
           /\ Requested(x)' <=> Requested(x) \/ x = s
        \/ ~ Calling(x) /\ ~ Calling(x)' /\ (Requested(x)' <=> Requested(x))
        \/ Faults # {} /\ ~ Calling(x)' /\ (Requested(x)' <=> Requested(x))
        \/ /\ Faults # {} /\ (Calling(x)' <=> Calling(x))
           /\ Requested(x)' <=> Requested(x) /\ x # s
    <3>1. CASE <<e, "call">> \in reserver /\ reserver' = {<<e, "wait">>}
               /\ rpc' = rpc \cup {e}
      BY <2>4, <2>5, <3>1 DEF Calling, Requested
    <3>2. CASE <<e, "wait">> \in reserver /\ reserver' = {} /\ rpc' = rpc
      BY <2>4, <2>5, <3>2 DEF Calling, Requested
    <3>3. CASE Faults # {} /\ <<e, "call">> \in reserver /\ reserver' = {} /\ rpc' = rpc
      BY <3>3 DEF Calling, Requested
    <3>4. CASE Faults # {} /\ e \in rpc /\ reserver' = reserver /\ rpc' = rpc \ {e}
      BY <2>4, <3>4 DEF Calling, Requested
    <3>5. QED
      BY <1>3, <3>1, <3>2, <3>3, <3>4
  <2>7. CallInv(x)'
    BY <2>1, <2>3, <2>6 DEF CallInv
  <2>8. QED
    BY <2>2, <2>7 DEF SagaInv
<1>8. QED
  BY <1>1, <1>5, <1>6, <1>7 DEF IInv, SagaInv

(***************************************************************************)
(* A request that Inventory executes is the first and only one of its      *)
(* saga, and asks for the sku and the positive quantity of its order.      *)
(***************************************************************************)
LEMMA ServedRequest ==
  ASSUME IInv, NEW e \in published, InventoryServes(e)
  PROVE  /\ e.saga \in Sagas /\ e = Ev("order.created", e.saga, 1) /\ e \in Event
         /\ Requested(e.saga) /\ Has(e.saga, "payment.processed") /\ ~ Decided(e.saga)
         /\ ~ Has(e.saga, "inventory.reserved")
         /\ ~ Has(e.saga, "inventory.reservation_failed")
         /\ reservation[e.saga].status = "NONE"
         /\ order[e.saga] # "NONE"
         /\ request[e.saga].sku \in SKUs
         /\ request[e.saga].quantity \in Int /\ request[e.saga].quantity > 0
<1> DEFINE s == e.saga
           k == request[s].sku
           q == request[s].quantity
<1>1. s \in Sagas /\ e = Ev("order.created", s, 1) /\ e \in Event
  <2>1. e.topic = "order.created"
    BY DEF InventoryServes, IInv, EventsInv
  <2>2. QED
    BY <2>1, PublishedEvent
<1>2. Requested(s) /\ Has(s, "payment.processed") /\ ~ Decided(s)
  BY <1>1, SagaInvOf DEF InventoryServes, Requested, CallInv
<1>3. /\ ~ Has(s, "inventory.reserved") /\ ~ Has(s, "inventory.reservation_failed")
      /\ reservation[s].status = "NONE"
  BY <1>1, <1>2, SagaInvOf DEF InventoryInv, IInv, TypeOK, InventoryTypeOK
<1>4. /\ order[s] # "NONE" /\ k \in SKUs /\ q \in Int /\ q > 0
  <2>1. Has(s, "order.created")
    BY PublishedEvent, <1>1, SMT DEF Ev
  <2>2. order[s] # "NONE" /\ q > 0
    BY <1>1, <2>1, SagaInvOf DEF OrderInv
  <2>3. request[s] \in Request
    BY <1>1, <2>2 DEF IInv, TypeOK, OrderTypeOK
  <2>4. QED
    BY <2>2, <2>3 DEF Request
<1> QED
  BY <1>1, <1>2, <1>3, <1>4

(***************************************************************************)
(* Inventory executes the request.                                         *)
(***************************************************************************)
LEMMA InvInventoryServes ==
  ASSUME IInv, NEW e \in published, InventoryServes(e)
  PROVE  IInv'
<1> DEFINE s == e.saga
           k == request[s].sku
           q == request[s].quantity
           ok == Reservable(k, q)
           topic == IF ok THEN "inventory.reserved" ELSE "inventory.reservation_failed"
<1>1. s \in Sagas /\ e = Ev("order.created", s, 1) /\ e \in Event
  BY ServedRequest
<1>2. Requested(s) /\ Has(s, "payment.processed") /\ ~ Decided(s)
  BY ServedRequest
<1>3. /\ ~ Has(s, "inventory.reserved") /\ ~ Has(s, "inventory.reservation_failed")
      /\ reservation[s].status = "NONE"
  BY ServedRequest
<1>4. /\ order[s] # "NONE" /\ k \in SKUs /\ q \in Int /\ q > 0
  BY ServedRequest
<1>5. /\ UNCHANGED <<published, order, request, orderSeen, skipped, terminalCount>>
      /\ UNCHANGED <<payment, refundSeen, reserver>>
      /\ rpc' = rpc \ {e}
      /\ inventorySeen' = inventorySeen \cup {<<"inventory-reserve", e>>}
      /\ emitted' = InsertOutbox(s, topic)
      /\ topic \in Topics
  BY <1>1, <1>2 DEF InventoryServes, ReserveStock, Decided, orderVars, Topics
<1>6. /\ stock' = IF ok THEN MoveStock(k, q) ELSE stock
      /\ reservation' = IF ok
           THEN [reservation EXCEPT ![s] = [status |-> "RESERVED", sku |-> k, quantity |-> q]]
           ELSE reservation
  BY <1>1, <1>2, <1>3 DEF InventoryServes, ReserveStock, Decided
<1>7. TypeOK'
  <2>1. MessagingTypeOK'
    <3> HIDE DEF topic
    <3> QED
      BY <1>1, <1>5, InsertOutboxType DEF IInv, TypeOK, MessagingTypeOK
  <2>2. stock' \in [SKUs -> [available : Int, reserved : Int]]
    BY <1>4, <1>6, SMT DEF MoveStock, IInv, TypeOK, InventoryTypeOK
  <2>3. reservation' \in [Sagas -> [status : {"NONE", "RESERVED", "RELEASED"},
                                    sku : SKUs, quantity : Int]]
    BY <1>1, <1>4, <1>6 DEF IInv, TypeOK, InventoryTypeOK
  <2>4. InventoryTypeOK'
    BY <1>1, <1>5, <2>2, <2>3, SMT DEF IInv, TypeOK, InventoryTypeOK, InventoryConsumer
  <2>5. OrderTypeOK' /\ PaymentTypeOK'
    BY <1>5 DEF IInv, TypeOK, OrderTypeOK, PaymentTypeOK
  <2>6. QED
    BY <2>1, <2>4, <2>5 DEF TypeOK
<1>8. /\ EmitOnce'
      /\ \A x \in Sagas, u \in Topics :
           /\ emitted[x][u] <= emitted'[x][u]
           /\ Has(x, u)' <=> Has(x, u) \/ (x = s /\ u = topic)
  <2>1. ~ Has(s, topic)
    BY <1>3
  <2> HIDE DEF topic
  <2>2. QED
    BY <1>1, <1>5, <2>1, FirstInsert
<1>9. EventsInv'
  <2>1. \A x \in published' : x.n <= emitted'[x.saga][x.topic]
    BY <1>5, <1>7, <1>8, PublishedStaysEmitted
  <2>2. QED
    BY <1>5, <2>1 DEF IInv, EventsInv
<1>10. skipped' = {} /\ StockConserved'
  <2>1. CASE ok
    <3>1. \A j \in SKUs : stock'[j] = IF j = k /\ k \in Seeded
            THEN [available |-> stock[k].available - q, reserved |-> stock[k].reserved + q]
            ELSE stock[j]
      BY <1>4, <1>6, <2>1 DEF MoveStock, IInv, TypeOK, InventoryTypeOK
    <3>2. \A j \in SKUs : stock[j].available \in Int /\ stock[j].reserved \in Int
                          /\ InitStock[j] \in Nat
      BY DEF IInv, TypeOK, InventoryTypeOK
    <3>3. stock[k].available >= q
      BY <2>1 DEF Reservable
    <3>4. StockConserved'
      <4>1. CASE k \in Seeded
        BY <1>4, <3>1, <3>2, <3>3, <4>1, SMT DEF IInv, StockConserved
      <4>2. CASE k \notin Seeded
        BY <3>1, <4>2 DEF IInv, StockConserved
      <4> QED
        BY <4>1, <4>2
    <3>5. QED
      BY <1>5, <3>4 DEF IInv
  <2>2. CASE ~ ok
    BY <1>5, <1>6, <2>2 DEF IInv, StockConserved
  <2>3. QED
    BY <2>1, <2>2
<1>11. ASSUME NEW x \in Sagas
       PROVE  SagaInv(x)'
  <2>1. OrderInv(x) /\ PaymentInv(x) /\ InventoryInv(x) /\ CallInv(x)
    BY SagaInvOf
  <2>2. \A u \in Topics \ {"inventory.reserved", "inventory.reservation_failed"} :
          Has(x, u)' <=> Has(x, u)
    BY <1>8
  <2>3. /\ Has(x, "inventory.reserved")' <=> Has(x, "inventory.reserved") \/ (x = s /\ ok)
        /\ Has(x, "inventory.reservation_failed")' <=>
             Has(x, "inventory.reservation_failed") \/ (x = s /\ ~ ok)
    BY <1>8 DEF Topics
  <2>4. Decided(x)' <=> Decided(x) \/ x = s
    BY <1>1, <1>5, EvInjective, SMT DEF Decided
  <2>5. Requested(x)' <=> Requested(x) /\ x # s
    BY <1>1, <1>5, EvInjective, SMT DEF Requested
  <2>6. Calling(x)' <=> Calling(x)
    BY <1>5 DEF Calling
  <2>7. reservation'[x].status = IF x = s /\ ok THEN "RESERVED" ELSE reservation[x].status
    BY <1>1, <1>6 DEF IInv, TypeOK, InventoryTypeOK
  <2>8. OrderInv(x)'
    BY <1>5, <2>1, <2>2, <2>3 DEF OrderInv, Topics
  <2>9. PaymentInv(x)'
    BY <1>5, <2>1, <2>2 DEF PaymentInv, Topics
  <2>10. InventoryInv(x)'
    BY <1>2, <1>3, <2>1, <2>2, <2>3, <2>4, <2>7 DEF InventoryInv, Topics
  <2>11. CallInv(x)'
    BY <1>2, <1>3, <2>1, <2>2, <2>4, <2>5, <2>6, SagaInvOf DEF CallInv, Topics
  <2>12. QED
    BY <2>8, <2>9, <2>10, <2>11 DEF SagaInv
<1>12. QED
  BY <1>7, <1>8, <1>9, <1>10, <1>11 DEF IInv, SagaInv

(***************************************************************************)
(* Inventory's handle_order_cancelled.  A cancelled order holds no stock,  *)
(* so the handler only records the event as processed.                     *)
(***************************************************************************)
LEMMA InvInventoryConsumes ==
  ASSUME IInv, NEW e \in published, InventoryConsumes(e)
  PROVE  IInv'
<1> DEFINE s == e.saga
           mark == <<"inventory-order-cancelled", e>>
<1>1. s \in Sagas /\ e \in Event /\ Has(s, "order.cancelled")
  BY PublishedEvent DEF InventoryConsumes, InventoryHandleOrderCancelled
<1>2. reservation[s].status # "RESERVED"
  <2>1. Has(s, "payment.failed") \/ Has(s, "inventory.reservation_failed")
    BY <1>1, SagaInvOf DEF OrderInv
  <2>2. ~ Has(s, "inventory.reserved")
    BY <1>1, <2>1, SagaInvOf DEF PaymentInv, InventoryInv
  <2>3. QED
    BY <1>1, <2>2, SagaInvOf DEF InventoryInv
<1>3. /\ UNCHANGED <<emitted, published, order, request, orderSeen, skipped, terminalCount>>
      /\ UNCHANGED <<payment, refundSeen, reserver, rpc, stock, reservation>>
      /\ inventorySeen' = inventorySeen \cup {mark}
  BY <1>2 DEF InventoryConsumes, InventoryHandleOrderCancelled, Release, orderVars,
     paymentVars
<1>4. TypeOK'
  BY <1>1, <1>3, SMT DEF IInv, TypeOK, MessagingTypeOK, OrderTypeOK, PaymentTypeOK,
     InventoryTypeOK, InventoryConsumer
<1>5. EmitOnce' /\ EventsInv' /\ skipped' = {} /\ StockConserved'
  BY <1>3 DEF IInv, EmitOnce, EventsInv, StockConserved
<1>6. ASSUME NEW x \in Sagas
      PROVE  SagaInv(x)'
  <2>1. OrderInv(x) /\ PaymentInv(x) /\ InventoryInv(x) /\ CallInv(x)
    BY SagaInvOf
  <2>2. Decided(x)' <=> Decided(x)
    BY <1>3 DEF Decided
  <2>3. OrderInv(x)' /\ PaymentInv(x)'
    BY <1>3, <2>1 DEF OrderInv, PaymentInv, Has
  <2>4. InventoryInv(x)' /\ CallInv(x)'
    BY <1>3, <2>1, <2>2 DEF InventoryInv, CallInv, Has, Calling, Requested
  <2>5. QED
    BY <2>3, <2>4 DEF SagaInv
<1>7. QED
  BY <1>4, <1>5, <1>6 DEF IInv, SagaInv

-----------------------------------------------------------------------------
(***************************************************************************)
(* Every step of the saga preserves the invariant.                         *)
(***************************************************************************)
LEMMA InvNext == IInv /\ [Next]_vars => IInv'
<1> SUFFICES ASSUME IInv, [Next]_vars
             PROVE  IInv'
  OBVIOUS
<1>1. ASSUME NEW s \in Sagas, ClientCreatesOrder(s)
      PROVE  IInv'
  BY <1>1, InvClientCreatesOrder
<1>2. ASSUME NEW s \in Sagas, NEW t \in Topics, OutboxPublishes(s, t)
      PROVE  IInv'
  BY <1>2, InvOutboxPublishes
<1>3. ASSUME NEW e \in published, OrderConsumes(e)
      PROVE  IInv'
  BY <1>3, InvOrderConsumes
<1>4. ASSUME NEW e \in published, PaymentConsumes(e)
      PROVE  IInv'
  BY <1>4, InvPaymentCharges, InvPaymentRefunds DEF PaymentConsumes
<1>5. ASSUME NEW e \in published, InventoryConsumes(e)
      PROVE  IInv'
  BY <1>5, InvInventoryConsumes
<1>6. ASSUME NEW e \in published, PaymentCalls(e) \/ Fails(e)
      PROVE  IInv'
  BY <1>6, InvPaymentCalls
<1>7. ASSUME NEW e \in published, InventoryServes(e)
      PROVE  IInv'
  BY <1>7, InvInventoryServes
<1>8. CASE UNCHANGED vars
  <2>1. UNCHANGED <<emitted, published, order, request, orderSeen, skipped,
                    terminalCount, payment, refundSeen, reserver, rpc, stock,
                    reservation, inventorySeen>>
    BY <1>8 DEF vars, messagingVars, orderVars, paymentVars, inventoryVars
  <2>2. TypeOK' /\ EmitOnce' /\ EventsInv' /\ skipped' = {} /\ StockConserved'
    BY <2>1 DEF IInv, TypeOK, MessagingTypeOK, OrderTypeOK, PaymentTypeOK,
       InventoryTypeOK, EmitOnce, EventsInv, StockConserved
  <2>3. ASSUME NEW x \in Sagas
        PROVE  SagaInv(x)'
    BY <2>1, SagaInvOf, SMT DEF SagaInv, OrderInv, PaymentInv, InventoryInv, CallInv, Has,
       Decided, Calling, Requested
  <2>4. QED
    BY <2>2, <2>3 DEF IInv, SagaInv
<1>9. QED
  BY <1>1, <1>2, <1>3, <1>4, <1>5, <1>6, <1>7, <1>8 DEF Next

(***************************************************************************)
(* Every initial state satisfies the invariant.                            *)
(***************************************************************************)
LEMMA InvInit == Init => IInv
<1> SUFFICES ASSUME Init
             PROVE  IInv
  OBVIOUS
<1>1. TypeOK
  BY TypeInit
<1>2. /\ \A s \in Sagas, t \in Topics : emitted[s][t] = 0
      /\ published = {} /\ orderSeen = {} /\ skipped = {} /\ refundSeen = {}
      /\ reserver = {} /\ rpc = {} /\ inventorySeen = {}
      /\ \A s \in Sagas : /\ order[s] = "NONE" /\ payment[s] = "NONE"
                          /\ reservation[s].status = "NONE"
  BY DEF Init, MessagingInit, OrderInit, PaymentInit, InventoryInit
<1>3. EmitOnce /\ EventsInv
  BY <1>2, SMT DEF EmitOnce, EventsInv
<1>4. StockConserved
  BY SMT DEF StockConserved, Init, InventoryInit
<1>5. ASSUME NEW s \in Sagas
      PROVE  OrderInv(s) /\ PaymentInv(s) /\ InventoryInv(s) /\ CallInv(s)
  BY <1>2, SMT DEF OrderInv, PaymentInv, InventoryInv, CallInv, Has, Decided, Calling,
     Requested, Topics
<1>6. QED
  BY <1>1, <1>2, <1>3, <1>4, <1>5 DEF IInv

-----------------------------------------------------------------------------
(* What holds in every reachable state.                                    *)

(***************************************************************************)
(* The statuses, markers and outbox rows of a saga always fit together.    *)
(***************************************************************************)
THEOREM Invariance == Spec => []IInv
BY InvInit, InvNext, PTL DEF Spec

(***************************************************************************)
(* Every variable keeps its type.                                          *)
(***************************************************************************)
THEOREM TypeCorrect == Spec => []TypeOK
<1>1. IInv => TypeOK
  BY DEF IInv
<1>2. QED
  BY <1>1, Invariance, PTL

(***************************************************************************)
(* Whatever is redelivered, a saga has at most one outbox row per topic.   *)
(***************************************************************************)
THEOREM EmitsOnce == Spec => []EmitOnce
<1>1. IInv => EmitOnce
  BY DEF IInv
<1>2. QED
  BY <1>1, Invariance, PTL

(***************************************************************************)
(* HandleEvent never meets an invalid transition or an unknown order.      *)
(***************************************************************************)
THEOREM SkipsNothing == Spec => []NothingSkipped
<1>1. IInv => NothingSkipped
  BY DEF IInv, NothingSkipped
<1>2. QED
  BY <1>1, Invariance, PTL

(***************************************************************************)
(* available + reserved is what was seeded and neither becomes negative.   *)
(***************************************************************************)
THEOREM ConservesStock == Spec => []StockConserved
<1>1. IInv => StockConserved
  BY DEF IInv
<1>2. QED
  BY <1>1, Invariance, PTL

(***************************************************************************)
(* The invariant relates the final statuses of the three services.         *)
(***************************************************************************)
LEMMA InvAgreement == IInv => OutcomesAgree
<1>1. ASSUME IInv, NEW s \in Sagas, order[s] = "CONFIRMED"
      PROVE  Committed(s)
  <2>1. OrderInv(s) /\ PaymentInv(s) /\ InventoryInv(s)
    BY <1>1, SagaInvOf
  <2>2. Has(s, "inventory.reserved") /\ Has(s, "payment.processed")
        /\ ~ Has(s, "inventory.reservation_failed")
    BY <1>1, <2>1 DEF OrderInv, InventoryInv
  <2>3. Ev("inventory.reservation_failed", s, 1) \notin refundSeen
    BY <1>1, <2>2, SeenHas
  <2>4. QED
    BY <1>1, <2>1, <2>2, <2>3 DEF Committed, PaymentInv, InventoryInv
<1>2. ASSUME IInv, NEW s \in Sagas, order[s] = "CANCELLED"
      PROVE  /\ reservation[s].status # "RESERVED"
             /\ \/ payment[s] = "FAILED"
                \/ emitted[s]["inventory.reservation_failed"] > 0
  <2>1. OrderInv(s) /\ PaymentInv(s) /\ InventoryInv(s)
    BY <1>2, SagaInvOf
  <2>2. Has(s, "payment.failed") \/ Has(s, "inventory.reservation_failed")
    BY <1>2, <2>1 DEF OrderInv
  <2>3. reservation[s].status # "RESERVED"
    BY <2>1, <2>2 DEF PaymentInv, InventoryInv
  <2>4. payment[s] = "FAILED" \/ emitted[s]["inventory.reservation_failed"] > 0
    BY <2>1, <2>2, SMT DEF PaymentInv, Has
  <2>5. QED
    BY <2>3, <2>4
<1>3. QED
  BY <1>1, <1>2 DEF OutcomesAgree

(***************************************************************************)
(* A confirmed order is charged and holds its stock; a cancelled one holds *)
(* none and is unpaid or owed a refund that will come.                     *)
(***************************************************************************)
THEOREM Agreement == Spec => []OutcomesAgree
BY InvAgreement, Invariance, PTL

(***************************************************************************)
(* Stock is held only for orders whose payment is captured.                *)
(***************************************************************************)
THEOREM StockIsPaid == Spec => []NoUnpaidStock
<1>1. ASSUME IInv, NEW s \in Sagas, reservation[s].status = "RESERVED"
      PROVE  payment[s] = "PROCESSED"
  <2>1. PaymentInv(s) /\ InventoryInv(s)
    BY <1>1, SagaInvOf
  <2>2. Has(s, "payment.processed") /\ ~ Has(s, "inventory.reservation_failed")
    BY <1>1, <2>1 DEF InventoryInv
  <2>3. Ev("inventory.reservation_failed", s, 1) \notin refundSeen
    BY <1>1, <2>2, SeenHas
  <2>4. QED
    BY <2>1, <2>2, <2>3 DEF PaymentInv
<1>2. IInv => NoUnpaidStock
  BY <1>1 DEF NoUnpaidStock
<1>3. QED
  BY <1>2, Invariance, PTL

(***************************************************************************)
(* A saga with nothing left to do is committed or compensated, or stranded *)
(* by the loss of its ReserveStock call.                                   *)
(***************************************************************************)
THEOREM SettlesWhenQuiescent == Spec => []QuiescentSettled
<1>1. ASSUME IInv, NEW s \in Sagas, Quiescent(s)
      PROVE  Committed(s) \/ Compensated(s) \/ (Faults # {} /\ Stranded(s))
  <2>1. OrderInv(s) /\ PaymentInv(s) /\ InventoryInv(s) /\ CallInv(s)
    BY <1>1, SagaInvOf
  <2>2. order[s] \in Status
        /\ payment[s] \in {"NONE", "PROCESSED", "FAILED", "REFUNDED"}
        /\ reservation[s].status \in {"NONE", "RESERVED", "RELEASED"}
    BY <1>1 DEF Quiescent, IInv, TypeOK, OrderTypeOK, PaymentTypeOK, InventoryTypeOK
  <2>3. \A t \in Topics : Has(s, t) =>
          /\ t = "order.created" => payment[s] # "NONE"
          /\ t \in OrderConsumedTopics => Ev(t, s, 1) \in orderSeen
          /\ t = "inventory.reservation_failed" => Ev(t, s, 1) \in refundSeen
    <3>1. skipped = {}
      BY <1>1 DEF IInv
    <3>2. SUFFICES ASSUME NEW t \in Topics, emitted[s][t] = 1
                   PROVE  /\ t = "order.created" => payment[s] # "NONE"
                          /\ t \in OrderConsumedTopics => Ev(t, s, 1) \in orderSeen
                          /\ t = "inventory.reservation_failed" =>
                               Ev(t, s, 1) \in refundSeen
      BY DEF Has
    <3>3. 1 \in 1 .. emitted[s][t]
      BY <3>2, SMT
    <3>4. QED
      BY <1>1, <3>1, <3>3 DEF Quiescent
  <2>4. ~ Calling(s) /\ ~ Requested(s)
    BY <1>1 DEF Quiescent, Calling, Requested, Ev
  <2>5. payment[s] # "NONE"
    BY <1>1, <2>1, <2>3 DEF Quiescent, OrderInv, Topics
  <2>6. CASE Has(s, "payment.failed")
    <3>1. Ev("payment.failed", s, 1) \in orderSeen
      BY <2>3, <2>6 DEF Topics, OrderConsumedTopics
    <3>2. ~ Has(s, "inventory.reserved") /\ payment[s] = "FAILED"
      BY <2>1, <2>6 DEF PaymentInv, InventoryInv
    <3>3. order[s] = "CANCELLED"
      BY <2>1, <2>2, <3>1, <3>2 DEF OrderInv, Topics, Status
    <3>4. QED
      BY <2>1, <3>2, <3>3 DEF Compensated, InventoryInv
  <2>7. CASE Has(s, "inventory.reserved")
    <3>1. Ev("inventory.reserved", s, 1) \in orderSeen
      BY <2>3, <2>7 DEF Topics, OrderConsumedTopics
    <3>2. ~ Has(s, "inventory.reservation_failed") /\ ~ Has(s, "payment.failed")
          /\ Has(s, "payment.processed")
      BY <2>1, <2>7 DEF PaymentInv, InventoryInv
    <3>3. order[s] = "CONFIRMED"
      BY <2>1, <2>2, <3>1, <3>2 DEF OrderInv, Topics, Status
    <3>4. Ev("inventory.reservation_failed", s, 1) \notin refundSeen
      BY <1>1, <3>2, SeenHas
    <3>5. QED
      BY <2>1, <2>7, <3>2, <3>3, <3>4 DEF Committed, PaymentInv, InventoryInv
  <2>8. CASE Has(s, "inventory.reservation_failed")
    <3>1. payment[s] = "REFUNDED" /\ Has(s, "payment.refunded")
      BY <2>1, <2>3, <2>8 DEF PaymentInv, Topics
    <3>2. Ev("payment.refunded", s, 1) \in orderSeen
      BY <2>3, <3>1 DEF Topics, OrderConsumedTopics
    <3>3. ~ Has(s, "inventory.reserved")
      BY <2>1, <2>8 DEF InventoryInv
    <3>4. order[s] = "CANCELLED"
      BY <2>1, <2>2, <3>2, <3>3 DEF OrderInv, Topics, Status
    <3>5. QED
      BY <2>1, <3>1, <3>3, <3>4 DEF Compensated, InventoryInv
  <2>9. CASE /\ ~ Has(s, "payment.failed") /\ ~ Has(s, "inventory.reserved")
             /\ ~ Has(s, "inventory.reservation_failed")
    <3>1. Has(s, "payment.processed")
      BY <2>1, <2>2, <2>5, <2>9 DEF PaymentInv
    <3>2. Faults # {}
      BY <2>1, <2>4, <2>9, <3>1 DEF CallInv, InventoryInv
    <3>3. Ev("payment.processed", s, 1) \in orderSeen
      BY <2>3, <3>1 DEF Topics, OrderConsumedTopics
    <3>4. /\ Ev("inventory.reservation_failed", s, 1) \notin orderSeen
          /\ Ev("inventory.reservation_failed", s, 1) \notin refundSeen
      BY <1>1, <2>9, SeenHas
    <3>5. order[s] = "PAYMENT_OK" /\ payment[s] = "PROCESSED"
      BY <2>1, <2>2, <2>9, <3>1, <3>3, <3>4 DEF OrderInv, PaymentInv, Topics, Status
    <3>6. /\ emitted[s]["inventory.reserved"] = 0
          /\ emitted[s]["inventory.reservation_failed"] = 0
      <4>1. \A t \in Topics : emitted[s][t] \in Nat /\ emitted[s][t] <= 1
        BY <1>1 DEF IInv, TypeOK, MessagingTypeOK, EmitOnce
      <4>2. QED
        BY <2>9, <4>1, SMT DEF Has, Topics
    <3>7. reservation[s].status = "NONE"
      BY <2>1, <2>2, <2>9 DEF InventoryInv
    <3>8. QED
      BY <3>2, <3>5, <3>6, <3>7 DEF Stranded
  <2>10. QED
    BY <2>6, <2>7, <2>8, <2>9
<1>2. IInv => QuiescentSettled
  BY <1>1 DEF QuiescentSettled
<1>3. QED
  BY <1>2, Invariance, PTL

-----------------------------------------------------------------------------
(* What a step may never do.                                               *)

(***************************************************************************)
(* Only HandleEvent changes the status of an existing order.               *)
(***************************************************************************)
LEMMA StatusChange ==
  ASSUME IInv, [Next]_vars, NEW s \in Sagas, order[s] # "NONE", order'[s] # order[s]
  PROVE  \E e \in published : e.saga = s /\ OrderConsumes(e)
<1>1. CASE UNCHANGED vars
  BY <1>1 DEF vars, orderVars
<1>2. ASSUME NEW x \in Sagas, ClientCreatesOrder(x)
      PROVE  FALSE
  BY <1>2 DEF ClientCreatesOrder, CreateOrder, IInv, TypeOK, OrderTypeOK
<1>3. ASSUME NEW x \in Sagas, NEW t \in Topics, OutboxPublishes(x, t)
      PROVE  FALSE
  BY <1>3 DEF OutboxPublishes, orderVars
<1>4. ASSUME NEW e \in published,
             \/ PaymentConsumes(e) \/ InventoryConsumes(e) \/ PaymentCalls(e)
             \/ InventoryServes(e) \/ Fails(e)
      PROVE  FALSE
  BY <1>4 DEF PaymentConsumes, InventoryConsumes, PaymentCalls, InventoryServes, Fails,
     orderVars
<1>5. ASSUME NEW e \in published, OrderConsumes(e)
      PROVE  e.saga = s
  BY <1>5 DEF OrderConsumes, OrderHandleEvent, OrderApply, OrderSkip, IInv, TypeOK,
     OrderTypeOK
<1>6. QED
  BY <1>1, <1>2, <1>3, <1>4, <1>5 DEF Next

(***************************************************************************)
(* What HandleEvent does to an order's status, by its present status.      *)
(***************************************************************************)
LEMMA StatusMoves ==
  ASSUME IInv, NEW e \in published, OrderConsumes(e)
  PROVE  /\ e.saga \in Sagas
         /\ Has(e.saga, e.topic)
         /\ \/ order[e.saga] = "PENDING" /\ order'[e.saga] = "PAYMENT_OK"
            \/ order[e.saga] = "PENDING" /\ order'[e.saga] = "CANCELLED"
            \/ order[e.saga] = "PAYMENT_OK" /\ order'[e.saga] = "CONFIRMED"
            \/ order[e.saga] = "PAYMENT_OK" /\ order'[e.saga] = "COMPENSATING"
            \/ /\ order[e.saga] = "COMPENSATING" /\ order'[e.saga] = "CANCELLED"
               /\ e.topic = "payment.refunded"
            \/ /\ order[e.saga] \in {"CONFIRMED", "CANCELLED"}
               /\ order'[e.saga] = order[e.saga]
<1>1. e.saga \in Sagas /\ Has(e.saga, e.topic)
  BY PublishedEvent
<1>2. Transition(e)
  BY OnlyTransitions
<1>3. OrderApply(e, Outcome(e))
  BY <1>2 DEF Transition, Moves, OrderConsumes, OrderHandleEvent
<1>4. order'[e.saga] = IF Outcome(e).changed THEN Outcome(e).next ELSE order[e.saga]
  BY <1>1, <1>3 DEF OrderApply, IInv, TypeOK, OrderTypeOK
<1>5. QED
  BY <1>1, <1>2, <1>4 DEF Transition, Moves

(***************************************************************************)
(* A new order starts PENDING.                                             *)
(***************************************************************************)
LEMMA FirstStatus ==
  ASSUME IInv, [Next]_vars, NEW s \in Sagas, order[s] = "NONE"
  PROVE  order'[s] \in {"NONE", "PENDING"}
<1>1. CASE UNCHANGED order
  BY <1>1
<1>2. ASSUME NEW x \in Sagas, ClientCreatesOrder(x)
      PROVE  order'[s] \in {"NONE", "PENDING"}
  BY <1>2 DEF ClientCreatesOrder, CreateOrder, IInv, TypeOK, OrderTypeOK
<1>3. ASSUME NEW e \in published, OrderConsumes(e)
      PROVE  order'[s] = order[s]
  <2>1. e.saga # s
    BY <1>3, StatusMoves
  <2>2. QED
    BY <1>3, <2>1 DEF OrderConsumes, OrderHandleEvent, OrderApply, OrderSkip, IInv,
       TypeOK, OrderTypeOK
<1>4. QED
  BY <1>1, <1>2, <1>3 DEF Next, OutboxPublishes, PaymentConsumes, InventoryConsumes,
     PaymentCalls, InventoryServes, Fails, vars, orderVars

(***************************************************************************)
(* A compensating order is cancelled only after its payment was refunded.  *)
(***************************************************************************)
THEOREM CompensationOrder == Spec => RefundBeforeCancel
<1> DEFINE A == \A s \in Sagas :
                  order[s] = "COMPENSATING" /\ order'[s] # order[s] =>
                    order'[s] = "CANCELLED" /\ payment[s] = "REFUNDED"
<1>1. ASSUME IInv, [Next]_vars, NEW s \in Sagas,
             order[s] = "COMPENSATING", order'[s] # order[s]
      PROVE  order'[s] = "CANCELLED" /\ payment[s] = "REFUNDED"
  <2>1. PICK e \in published : e.saga = s /\ OrderConsumes(e)
    BY <1>1, StatusChange
  <2>2. order'[s] = "CANCELLED" /\ Has(s, "payment.refunded")
    BY <1>1, <2>1, StatusMoves
  <2>3. QED
    BY <1>1, <2>2, SagaInvOf DEF PaymentInv
<1>2. IInv /\ [Next]_vars => [A]_vars
  BY <1>1
<1>3. QED
  BY <1>2, Invariance, PTL DEF Spec, RefundBeforeCancel

-----------------------------------------------------------------------------
(* The choreography implements the atomic saga.                            *)

(***************************************************************************)
(* A recorded payment only ever goes from PROCESSED to REFUNDED, and only  *)
(* for a failed reservation.                                               *)
(***************************************************************************)
LEMMA PaymentSteps ==
  ASSUME IInv, [Next]_vars, NEW s \in Sagas
  PROVE  /\ payment[s] \in {"FAILED", "REFUNDED"} => payment'[s] = payment[s]
         /\ payment'[s] # payment[s] /\ payment[s] # "NONE" =>
              /\ Has(s, "inventory.reservation_failed")
              /\ payment'[s] = "REFUNDED"
<1> SUFFICES ASSUME payment'[s] # payment[s], payment[s] # "NONE"
             PROVE  /\ payment[s] = "PROCESSED" /\ payment'[s] = "REFUNDED"
                    /\ Has(s, "inventory.reservation_failed")
  OBVIOUS
<1>1. PICK e \in published : PaymentConsumes(e)
  <2>1. ~ UNCHANGED payment
    OBVIOUS
  <2>2. QED
    BY <2>1 DEF Next, ClientCreatesOrder, OutboxPublishes, OrderConsumes, PaymentCalls,
       PaymentCallReserve, PaymentReserveReturns, InventoryServes, InventoryConsumes,
       Fails, PaymentCrash, ReserveRequestLost, vars, paymentVars
<1>2. Has(e.saga, e.topic) /\ e.saga \in Sagas
  BY <1>1, PublishedEvent
<1>3. /\ e.saga = s /\ e.topic = "inventory.reservation_failed"
      /\ payment[s] = "PROCESSED" /\ payment'[s] = "REFUNDED"
  BY <1>1, <1>2 DEF PaymentConsumes, PaymentHandleOrderCreated, PaymentHandleCompensation,
     IInv, TypeOK, PaymentTypeOK
<1>4. QED
  BY <1>2, <1>3

(***************************************************************************)
(* A step changes the rows of one saga only.                               *)
(***************************************************************************)
LEMMA OneSagaPerStep ==
  ASSUME IInv, [Next]_vars
  PROVE  \/ UNCHANGED <<order, payment, reservation>>
         \/ \E z \in Sagas : \A x \in Sagas \ {z} :
              /\ order'[x] = order[x]
              /\ payment'[x] = payment[x]
              /\ reservation'[x] = reservation[x]
<1>1. CASE UNCHANGED vars
  BY <1>1 DEF vars, orderVars, paymentVars, inventoryVars
<1>2. ASSUME NEW z \in Sagas, ClientCreatesOrder(z)
      PROVE  \A x \in Sagas \ {z} : order'[x] = order[x] /\ payment'[x] = payment[x]
                                    /\ reservation'[x] = reservation[x]
  BY <1>2 DEF ClientCreatesOrder, CreateOrder, paymentVars, inventoryVars, IInv, TypeOK,
     OrderTypeOK
<1>3. ASSUME NEW z \in Sagas, NEW t \in Topics, OutboxPublishes(z, t)
      PROVE  UNCHANGED <<order, payment, reservation>>
  BY <1>3 DEF OutboxPublishes, orderVars, paymentVars, inventoryVars
<1>4. ASSUME NEW e \in published, OrderConsumes(e)
      PROVE  \A x \in Sagas \ {e.saga} : order'[x] = order[x] /\ payment'[x] = payment[x]
                                         /\ reservation'[x] = reservation[x]
  BY <1>4 DEF OrderConsumes, OrderHandleEvent, OrderApply, OrderSkip, paymentVars,
     inventoryVars, IInv, TypeOK, OrderTypeOK
<1>5. ASSUME NEW e \in published, PaymentConsumes(e)
      PROVE  \A x \in Sagas \ {e.saga} : order'[x] = order[x] /\ payment'[x] = payment[x]
                                         /\ reservation'[x] = reservation[x]
  BY <1>5 DEF PaymentConsumes, PaymentHandleOrderCreated, PaymentHandleCompensation,
     orderVars, inventoryVars, IInv, TypeOK, PaymentTypeOK
<1>6. ASSUME NEW e \in published, InventoryServes(e)
      PROVE  \A x \in Sagas \ {e.saga} : order'[x] = order[x] /\ payment'[x] = payment[x]
                                         /\ reservation'[x] = reservation[x]
  BY <1>6 DEF InventoryServes, ReserveStock, orderVars, IInv, TypeOK, InventoryTypeOK
<1>7. ASSUME NEW e \in published, InventoryConsumes(e)
      PROVE  \A x \in Sagas \ {e.saga} : order'[x] = order[x] /\ payment'[x] = payment[x]
                                         /\ reservation'[x] = reservation[x]
  BY <1>7 DEF InventoryConsumes, InventoryHandleOrderCancelled, Release, orderVars,
     paymentVars, IInv, TypeOK, InventoryTypeOK
<1>8. ASSUME NEW e \in published, PaymentCalls(e) \/ Fails(e)
      PROVE  UNCHANGED <<order, payment, reservation>>
  BY <1>8 DEF PaymentCalls, PaymentCallReserve, PaymentReserveReturns, Fails,
     PaymentCrash, ReserveRequestLost, orderVars, inventoryVars
<1>9. \A e \in published : e.saga \in Sagas
  BY DEF IInv, TypeOK, MessagingTypeOK, Event
<1>10. QED
  BY <1>1, <1>2, <1>3, <1>4, <1>5, <1>6, <1>7, <1>8, <1>9, SMT DEF Next

(***************************************************************************)
(* The outcome of a saga, read off the order and the payment alone.        *)
(***************************************************************************)
LEMMA OutcomeByStatus ==
  ASSUME IInv, NEW s \in Sagas
  PROVE  OutcomeOf(s) =
           IF order[s] = "NONE" THEN "absent"
           ELSE IF order[s] = "CONFIRMED" THEN "committed"
           ELSE IF order[s] = "CANCELLED" /\ payment[s] \in {"FAILED", "REFUNDED"}
             THEN "aborted"
           ELSE "running"
<1>1. OutcomesAgree
  BY InvAgreement
<1>2. Committed(s) <=> order[s] = "CONFIRMED"
  BY <1>1 DEF OutcomesAgree, Committed
<1>3. Compensated(s) <=> order[s] = "CANCELLED" /\ payment[s] \in {"FAILED", "REFUNDED"}
  BY <1>1 DEF OutcomesAgree, Compensated
<1>4. QED
  BY <1>2, <1>3 DEF OutcomeOf

(***************************************************************************)
(* The outcome of one saga begins, commits, aborts or stays.               *)
(***************************************************************************)
LEMMA OutcomeSteps ==
  ASSUME IInv, IInv', [Next]_vars, NEW s \in Sagas
  PROVE  \/ OutcomeOf(s)' = OutcomeOf(s)
         \/ OutcomeOf(s) = "absent" /\ OutcomeOf(s)' = "running"
         \/ OutcomeOf(s) = "running" /\ OutcomeOf(s)' \in {"committed", "aborted"}
<1>1. OutcomeOf(s)' =
        IF order'[s] = "NONE" THEN "absent"
        ELSE IF order'[s] = "CONFIRMED" THEN "committed"
        ELSE IF order'[s] = "CANCELLED" /\ payment'[s] \in {"FAILED", "REFUNDED"}
          THEN "aborted"
        ELSE "running"
  <2>1. OutcomesAgree'
    <3>1. (IInv => OutcomesAgree)'
      BY InvAgreement, PTL
    <3>2. QED
      BY <3>1
  <2>2. Committed(s)' <=> order'[s] = "CONFIRMED"
    BY <2>1 DEF OutcomesAgree, Committed
  <2>3. Compensated(s)' <=>
          order'[s] = "CANCELLED" /\ payment'[s] \in {"FAILED", "REFUNDED"}
    BY <2>1 DEF OutcomesAgree, Compensated
  <2>4. QED
    BY <2>2, <2>3 DEF OutcomeOf
<1>2. CASE order[s] = "NONE"
  <2>1. order'[s] \in {"NONE", "PENDING"}
    BY <1>2, FirstStatus
  <2>2. QED
    BY <1>1, <1>2, <2>1, OutcomeByStatus
<1>3. CASE order[s] # "NONE"
  <2>1. \/ order'[s] = order[s]
        \/ order[s] \notin {"CONFIRMED", "CANCELLED"} /\ order'[s] # "NONE"
    BY <1>3, StatusChange, StatusMoves
  <2>2. payment[s] \in {"FAILED", "REFUNDED"} => payment'[s] = payment[s]
    BY PaymentSteps
  <2>3. QED
    BY <1>1, <1>3, <2>1, <2>2, OutcomeByStatus
<1>4. QED
  BY <1>2, <1>3

(***************************************************************************)
(* The choreography implements the atomic saga: each step begins, commits  *)
(* or aborts one saga, or leaves every outcome as it was.                  *)
(***************************************************************************)
THEOREM Refinement == Spec => ImplementsAtomicSaga
<1> DEFINE out == [s \in Sagas |-> OutcomeOf(s)]
<1>1. Init => Atomic!AtomicInit
  BY DEF Init, OrderInit, OutcomeOf, Atomic!AtomicInit
<1>2. ASSUME IInv, IInv', [Next]_vars
      PROVE  [Atomic!AtomicNext]_out
  <2>1. CASE UNCHANGED <<order, payment, reservation>>
    BY <2>1 DEF OutcomeOf, Committed, Compensated
  <2>2. ASSUME NEW z \in Sagas,
               \A x \in Sagas \ {z} : /\ order'[x] = order[x]
                                      /\ payment'[x] = payment[x]
                                      /\ reservation'[x] = reservation[x]
        PROVE  [Atomic!AtomicNext]_out
    <3>1. \A x \in Sagas \ {z} : OutcomeOf(x)' = OutcomeOf(x)
      BY <2>2 DEF OutcomeOf, Committed, Compensated
    <3>2. out' = [out EXCEPT ![z] = OutcomeOf(z)']
      BY <3>1
    <3>3. out[z] = OutcomeOf(z)
      BY <2>2
    <3>4. CASE OutcomeOf(z)' = OutcomeOf(z)
      BY <3>1, <3>4
    <3>5. CASE OutcomeOf(z) = "absent" /\ OutcomeOf(z)' = "running"
      BY <3>2, <3>3, <3>5 DEF Atomic!AtomicNext, Atomic!Begin
    <3>6. CASE OutcomeOf(z) = "running" /\ OutcomeOf(z)' \in {"committed", "aborted"}
      BY <3>2, <3>3, <3>6 DEF Atomic!AtomicNext, Atomic!Commit, Atomic!Abort
    <3>7. QED
      BY <1>2, <3>4, <3>5, <3>6, OutcomeSteps
  <2>3. QED
    BY <1>2, <2>1, <2>2, OneSagaPerStep
<1>3. QED
  BY <1>1, <1>2, Invariance, PTL DEF Spec, ImplementsAtomicSaga, Atomic!AtomicSpec
=============================================================================
