----------------------------- MODULE SagaLemmas -----------------------------
(***************************************************************************)
(* Lemmas about the saga's operators, type correctness step by step, the   *)
(* two steps that any order takes first (its creation and the publication  *)
(* of its events), and the Order service's handler.                        *)
(***************************************************************************)
EXTENDS ChoreographySaga, TLAPS

\* Most leaves are first-order without arithmetic, and Zenon proves them; the
\* others name SMT.
USE OrderAssumption, PaymentAssumption, InventoryAssumption, Zenon
USE DEF NewPayment, CompensationTopic, Refunded, Processed, ReservedRow, Releasable

-----------------------------------------------------------------------------
(* Lemmas about the operators.                                             *)

(***************************************************************************)
(* The state machine of domain.Apply is total: every status and trigger    *)
(* yields a well-formed result.                                            *)
(***************************************************************************)
LEMMA ApplyType ==
  ASSUME NEW c \in Status, NEW t \in Trigger
  PROVE  Apply(c, t) \in Result
<1>1. CASE c = "PENDING"
  BY <1>1 DEF Apply, ApplyPending, Result, Status, Trigger, Advance, Cancel, Premature
<1>2. CASE c = "PAYMENT_OK"
  BY <1>2 DEF Apply, ApplyPaymentOK, Result, Status, Trigger, Advance, Ignore,
              Premature, Invalid
<1>3. CASE c = "COMPENSATING"
  BY <1>3 DEF Apply, ApplyCompensating, Result, Status, Trigger, Cancel, Ignore, Invalid
<1>4. CASE c \notin {"PENDING", "PAYMENT_OK", "COMPENSATING"}
  BY <1>4 DEF Apply, Result, Status, Ignore
<1>5. QED
  BY <1>1, <1>2, <1>3, <1>4

(***************************************************************************)
(* topicTrigger has an entry for every topic the Order service consumes.   *)
(***************************************************************************)
LEMMA TopicTriggerType ==
  ASSUME NEW t \in OrderConsumedTopics
  PROVE  TopicTrigger(t) \in Trigger
BY DEF OrderConsumedTopics, TopicTrigger, Trigger

(***************************************************************************)
(* An event is its topic, its saga and its number.                         *)
(***************************************************************************)
LEMMA EvInjective ==
  ASSUME NEW t, NEW s, NEW n, NEW u, NEW r, NEW m
  PROVE  Ev(t, s, n) = Ev(u, r, m) <=> t = u /\ s = r /\ n = m
BY DEF Ev

(***************************************************************************)
(* Every event is built by Ev.                                             *)
(***************************************************************************)
LEMMA EvOfEvent ==
  ASSUME NEW e \in Event
  PROVE  e = Ev(e.topic, e.saga, e.n)
BY DEF Ev, Event

(***************************************************************************)
(* Inserting an outbox row keeps the type of the outboxes.                 *)
(***************************************************************************)
LEMMA InsertOutboxType ==
  ASSUME MessagingTypeOK, NEW s \in Sagas, NEW t \in Topics
  PROVE  InsertOutbox(s, t) \in [Sagas -> [Topics -> Nat]]
BY SMT DEF MessagingTypeOK, InsertOutbox

(***************************************************************************)
(* The effect of an insertion, row count by row count.                     *)
(***************************************************************************)
LEMMA InsertOutboxValue ==
  ASSUME MessagingTypeOK, NEW s \in Sagas, NEW t \in Topics,
         NEW r \in Sagas, NEW u \in Topics
  PROVE  InsertOutbox(s, t)[r][u] =
           IF r = s /\ u = t THEN emitted[r][u] + 1 ELSE emitted[r][u]
BY DEF MessagingTypeOK, InsertOutbox

-----------------------------------------------------------------------------
(* Type correctness.                                                       *)

(***************************************************************************)
(* The outcome of HandleEvent's transaction is a result of Apply, or the   *)
(* order does not exist.                                                   *)
(***************************************************************************)
LEMMA OutcomeType ==
  ASSUME TypeOK, NEW e \in published, e.topic \in OrderConsumedTopics
  PROVE  \/ order[e.saga] = "NONE" /\ Outcome(e).err = "not_found"
         \/ /\ order[e.saga] \in Status
            /\ Outcome(e) = Apply(order[e.saga], TopicTrigger(e.topic))
            /\ Outcome(e) \in Result
<1>1. e.saga \in Sagas /\ order[e.saga] \in Status \cup {"NONE"}
  BY DEF TypeOK, MessagingTypeOK, OrderTypeOK, Event
<1>2. CASE order[e.saga] = "NONE"
  BY <1>2 DEF Outcome, Invalid
<1>3. CASE order[e.saga] \in Status /\ order[e.saga] # "NONE"
  BY <1>3, ApplyType, TopicTriggerType DEF Outcome
<1>4. QED
  BY <1>1, <1>2, <1>3 DEF Status

(***************************************************************************)
(* The initial tables and topics are well typed.                           *)
(***************************************************************************)
LEMMA TypeInit == Init => TypeOK
BY SMT DEF Init, MessagingInit, OrderInit, PaymentInit, InventoryInit,
       TypeOK, MessagingTypeOK, OrderTypeOK, PaymentTypeOK, InventoryTypeOK

(***************************************************************************)
(* CreateOrder keeps the types of the rows it inserts.                     *)
(***************************************************************************)
LEMMA TypeClientCreatesOrder ==
  ASSUME TypeOK, NEW s \in Sagas, ClientCreatesOrder(s)
  PROVE  TypeOK'
<1> PICK r \in Request : CreateOrder(s, r)
  BY DEF ClientCreatesOrder
<1>1. MessagingTypeOK'
  BY InsertOutboxType DEF TypeOK, MessagingTypeOK, CreateOrder, Topics
<1>2. OrderTypeOK'
  BY DEF TypeOK, OrderTypeOK, CreateOrder, Status
<1>3. PaymentTypeOK' /\ InventoryTypeOK'
  BY DEF TypeOK, PaymentTypeOK, InventoryTypeOK, ClientCreatesOrder, paymentVars,
         inventoryVars
<1>4. QED
  BY <1>1, <1>2, <1>3 DEF TypeOK

(***************************************************************************)
(* A relay publishes events only.                                          *)
(***************************************************************************)
LEMMA TypeOutboxPublishes ==
  ASSUME TypeOK, NEW s \in Sagas, NEW t \in Topics, OutboxPublishes(s, t)
  PROVE  TypeOK'
<1>1. MessagingTypeOK'
  <2>1. \A n \in 1 .. emitted[s][t] : Ev(t, s, n) \in Event
    BY SMT DEF TypeOK, MessagingTypeOK, Ev, Event
  <2>2. PendingRows(s, t) \subseteq Event
    BY <2>1 DEF PendingRows
  <2>3. QED
    BY <2>2 DEF TypeOK, MessagingTypeOK, OutboxPublishes, RelayPublish
<1>2. OrderTypeOK' /\ PaymentTypeOK' /\ InventoryTypeOK'
  BY DEF TypeOK, OrderTypeOK, PaymentTypeOK, InventoryTypeOK, OutboxPublishes,
         orderVars, paymentVars, inventoryVars
<1>3. QED
  BY <1>1, <1>2 DEF TypeOK

(***************************************************************************)
(* HandleEvent stores a status of the state machine.                       *)
(***************************************************************************)
LEMMA TypeOrderConsumes ==
  ASSUME TypeOK, NEW e \in published, OrderConsumes(e)
  PROVE  TypeOK'
<1>1. e \in Event /\ e.saga \in Sagas /\ e.topic \in OrderConsumedTopics
  BY DEF TypeOK, MessagingTypeOK, Event, OrderConsumes, OrderHandleEvent
<1>2. PaymentTypeOK' /\ InventoryTypeOK'
  BY DEF TypeOK, PaymentTypeOK, InventoryTypeOK, OrderConsumes, paymentVars, inventoryVars
<1>3. CASE Outcome(e).err = "none"
  <2>1. OrderApply(e, Outcome(e)) /\ UNCHANGED <<published, request>>
    BY <1>3 DEF OrderConsumes, OrderHandleEvent
  <2>2. order[e.saga] \in Status /\ Outcome(e) \in Result
    BY <1>1, <1>3, OutcomeType
  <2>3. MessagingTypeOK'
    BY <1>1, <2>1, InsertOutboxType DEF TypeOK, MessagingTypeOK, OrderApply, Topics
  <2>4. order' \in [Sagas -> Status \cup {"NONE"}]
    BY <1>1, <2>1, <2>2 DEF OrderApply, Result, TypeOK, OrderTypeOK
  <2>5. {s \in Sagas : order'[s] # "NONE"} = {s \in Sagas : order[s] # "NONE"}
    BY <1>1, <2>1, <2>2 DEF OrderApply, Result, TypeOK, OrderTypeOK, Status
  <2>6. terminalCount' \in [Sagas -> Nat]
    BY <1>1, <2>1, SMT DEF OrderApply, RecordTerminal, TypeOK, OrderTypeOK
  <2>7. OrderTypeOK'
    BY <1>1, <2>1, <2>4, <2>5, <2>6 DEF OrderApply, TypeOK, OrderTypeOK
  <2>8. QED
    BY <1>2, <2>3, <2>7 DEF TypeOK
<1>4. CASE Outcome(e).err # "none"
  BY <1>1, <1>2, <1>4 DEF TypeOK, MessagingTypeOK, OrderTypeOK, OrderConsumes,
     OrderHandleEvent, OrderSkip
<1>5. QED
  BY <1>3, <1>4

(***************************************************************************)
(* Both handlers of Payment store a payment status.                        *)
(***************************************************************************)
LEMMA TypePaymentConsumes ==
  ASSUME TypeOK, NEW e \in published, PaymentConsumes(e)
  PROVE  TypeOK'
<1>1. e \in Event /\ e.saga \in Sagas
  BY DEF TypeOK, MessagingTypeOK, Event
<1>2. OrderTypeOK' /\ InventoryTypeOK'
  BY DEF TypeOK, OrderTypeOK, InventoryTypeOK, PaymentConsumes, orderVars, inventoryVars
<1>3. MessagingTypeOK'
  BY <1>1, InsertOutboxType, SMT DEF TypeOK, MessagingTypeOK, PaymentConsumes,
     PaymentHandleOrderCreated, PaymentHandleCompensation, Topics
<1>4. PaymentTypeOK'
  BY <1>1, SMT DEF TypeOK, PaymentTypeOK, PaymentConsumes, PaymentHandleOrderCreated,
     PaymentHandleCompensation
<1>5. QED
  BY <1>2, <1>3, <1>4 DEF TypeOK

(***************************************************************************)
(* The stages of the call are well typed.                                  *)
(***************************************************************************)
LEMMA TypePaymentCalls ==
  ASSUME TypeOK, NEW e \in published, PaymentCalls(e) \/ Fails(e)
  PROVE  TypeOK'
<1>1. e \in Event
  BY DEF TypeOK, MessagingTypeOK
<1>2. PaymentTypeOK'
  BY <1>1, SMT DEF TypeOK, PaymentTypeOK, PaymentCalls, PaymentCallReserve,
     PaymentReserveReturns, Fails, PaymentCrash, ReserveRequestLost
<1>3. MessagingTypeOK' /\ OrderTypeOK' /\ InventoryTypeOK'
  <2>1. UNCHANGED <<messagingVars, orderVars, inventoryVars>>
    BY DEF PaymentCalls, PaymentCallReserve, PaymentReserveReturns, Fails, PaymentCrash,
       ReserveRequestLost
  <2>2. QED
    BY <2>1 DEF TypeOK, MessagingTypeOK, OrderTypeOK, InventoryTypeOK, messagingVars,
       orderVars, inventoryVars
<1>4. QED
  BY <1>2, <1>3 DEF TypeOK

-----------------------------------------------------------------------------
(* The invariant is inductive.                                             *)

SagaInv(s) == OrderInv(s) /\ PaymentInv(s) /\ InventoryInv(s) /\ CallInv(s)

(***************************************************************************)
(* A published event is the only one of its topic and saga.                *)
(***************************************************************************)
LEMMA PublishedEvent ==
  ASSUME IInv, NEW e \in published
  PROVE  /\ e \in Event
         /\ e.saga \in Sagas
         /\ e.topic \in Topics
         /\ e = Ev(e.topic, e.saga, 1)
         /\ Has(e.saga, e.topic)
<1>1. e \in Event
  BY DEF IInv, TypeOK, MessagingTypeOK
<1>2. e.saga \in Sagas /\ e.topic \in Topics /\ e.n \in Nat \ {0}
  BY <1>1 DEF Event
<1>3. /\ emitted[e.saga][e.topic] \in Nat
      /\ emitted[e.saga][e.topic] <= 1
      /\ e.n <= emitted[e.saga][e.topic]
  BY <1>2 DEF IInv, TypeOK, MessagingTypeOK, EmitOnce, EventsInv
<1>4. e.n = 1 /\ emitted[e.saga][e.topic] = 1
  BY <1>2, <1>3, SMT
<1>5. QED
  BY <1>1, <1>2, <1>4, EvOfEvent DEF Has

(***************************************************************************)
(* Inserting the first row of a topic for a saga keeps EmitOnce and adds   *)
(* exactly that row.                                                       *)
(***************************************************************************)
LEMMA FirstInsert ==
  ASSUME IInv, NEW s \in Sagas, NEW t \in Topics, ~ Has(s, t),
         emitted' = InsertOutbox(s, t)
  PROVE  /\ EmitOnce'
         /\ \A r \in Sagas, u \in Topics :
              /\ emitted[r][u] <= emitted'[r][u]
              /\ Has(r, u)' <=> Has(r, u) \/ (r = s /\ u = t)
<1>1. \A r \in Sagas, u \in Topics : emitted[r][u] \in {0, 1}
  <2>1. \A r \in Sagas, u \in Topics : emitted[r][u] \in Nat /\ emitted[r][u] <= 1
    BY DEF IInv, TypeOK, MessagingTypeOK, EmitOnce
  <2>2. QED
    BY <2>1, SMT
<1>2. emitted[s][t] = 0
  BY <1>1 DEF Has
<1>3. \A r \in Sagas, u \in Topics :
        emitted'[r][u] = IF r = s /\ u = t THEN emitted[r][u] + 1 ELSE emitted[r][u]
  BY InsertOutboxValue, SMT DEF IInv, TypeOK
<1>4. QED
  BY <1>1, <1>2, <1>3, SMT DEF EmitOnce, Has

(***************************************************************************)
(* The invariant, for one saga.                                            *)
(***************************************************************************)
LEMMA SagaInvOf ==
  ASSUME IInv, NEW s \in Sagas
  PROVE  OrderInv(s) /\ PaymentInv(s) /\ InventoryInv(s) /\ CallInv(s)
BY DEF IInv

(***************************************************************************)
(* An applied event was emitted.                                           *)
(***************************************************************************)
LEMMA SeenHas ==
  ASSUME IInv, NEW s, NEW t, Ev(t, s, 1) \in orderSeen \cup refundSeen
  PROVE  Has(s, t)
<1>1. Ev(t, s, 1) \in published
  BY DEF IInv, EventsInv
<1>2. QED
  BY <1>1, PublishedEvent DEF Ev

(***************************************************************************)
(* Outboxes only grow, so what was published stays emitted.                *)
(***************************************************************************)
LEMMA PublishedStaysEmitted ==
  ASSUME IInv, TypeOK', UNCHANGED published,
         \A r \in Sagas, u \in Topics : emitted[r][u] <= emitted'[r][u]
  PROVE  \A e \in published' : e.n <= emitted'[e.saga][e.topic]
<1>1. \A e \in published : e.saga \in Sagas /\ e.topic \in Topics /\ e.n \in Nat
                           /\ emitted[e.saga][e.topic] \in Nat
                           /\ emitted'[e.saga][e.topic] \in Nat
  BY DEF IInv, TypeOK, MessagingTypeOK, Event
<1>2. QED
  BY <1>1, SMT DEF IInv, EventsInv

(***************************************************************************)
(* CreateOrder.                                                            *)
(***************************************************************************)
LEMMA InvClientCreatesOrder ==
  ASSUME IInv, NEW s \in Sagas, ClientCreatesOrder(s)
  PROVE  IInv'
<1> PICK r \in Request : CreateOrder(s, r)
  BY DEF ClientCreatesOrder
<1>1. TypeOK'
  BY TypeClientCreatesOrder DEF IInv
<1>2. /\ UNCHANGED <<published, orderSeen, skipped>>
      /\ UNCHANGED <<payment, refundSeen, reserver, rpc>>
      /\ UNCHANGED <<stock, reservation, inventorySeen>>
  BY DEF CreateOrder, ClientCreatesOrder, paymentVars, inventoryVars
<1>3. ~ Has(s, "order.created") /\ "order.created" \in Topics
  BY SagaInvOf DEF OrderInv, CreateOrder, Topics
<1>4. /\ EmitOnce'
      /\ \A x \in Sagas, u \in Topics :
           /\ emitted[x][u] <= emitted'[x][u]
           /\ Has(x, u)' <=> Has(x, u) \/ (x = s /\ u = "order.created")
  BY <1>3, FirstInsert DEF CreateOrder
<1>5. EventsInv'
  <2>1. \A e \in published : e.saga \in Sagas /\ e.topic \in Topics /\ e.n \in Nat
                             /\ emitted[e.saga][e.topic] \in Nat
                             /\ emitted'[e.saga][e.topic] \in Nat
    BY <1>1 DEF IInv, TypeOK, MessagingTypeOK, Event
  <2>2. \A e \in published : e.n <= emitted'[e.saga][e.topic]
    BY <1>4, <2>1, SMT DEF IInv, EventsInv
  <2>3. QED
    BY <1>2, <2>2 DEF IInv, EventsInv
<1>6. skipped' = {} /\ StockConserved'
  BY <1>2 DEF IInv, StockConserved
<1>7. ASSUME NEW x \in Sagas
      PROVE  SagaInv(x)'
  <2>1. OrderInv(x) /\ PaymentInv(x) /\ InventoryInv(x) /\ CallInv(x)
    BY SagaInvOf
  <2>2. \A u \in Topics \ {"order.created"} : Has(x, u)' <=> Has(x, u)
    BY <1>4
  <2>3. Has(x, "order.created")' <=> Has(x, "order.created") \/ x = s
    BY <1>3, <1>4
  <2>4. /\ order'[x] = IF x = s THEN "PENDING" ELSE order[x]
        /\ order[s] = "NONE"
    BY DEF CreateOrder, IInv, TypeOK, OrderTypeOK
  <2>5. order'[x] # "NONE" => request'[x].quantity > 0
    BY <2>1, <2>4 DEF CreateOrder, ValidRequest, OrderInv, IInv, TypeOK, OrderTypeOK
  <2>6. OrderInv(x)'
    BY <1>2, <2>1, <2>2, <2>3, <2>4, <2>5 DEF OrderInv, Topics
  <2>7. PaymentInv(x)'
    BY <1>2, <2>1, <2>2, <2>3 DEF PaymentInv, Topics
  <2>8. InventoryInv(x)'
    BY <1>2, <2>1, <2>2 DEF InventoryInv, Decided, Topics
  <2>9. CallInv(x)'
    BY <1>2, <2>1, <2>2 DEF CallInv, Calling, Requested, Decided, Topics
  <2>10. QED
    BY <2>6, <2>7, <2>8, <2>9 DEF SagaInv
<1>8. QED
  BY <1>1, <1>4, <1>5, <1>6, <1>7 DEF IInv, SagaInv

(***************************************************************************)
(* A relay publishes a row.                                                *)
(***************************************************************************)
LEMMA InvOutboxPublishes ==
  ASSUME IInv, NEW s \in Sagas, NEW t \in Topics, OutboxPublishes(s, t)
  PROVE  IInv'
<1>1. TypeOK'
  BY TypeOutboxPublishes DEF IInv
<1>2. UNCHANGED <<emitted, orderVars, paymentVars, inventoryVars>>
  BY DEF OutboxPublishes, RelayPublish
<1>3. PICK e \in PendingRows(s, t) : published' = published \cup {e}
  BY DEF OutboxPublishes, RelayPublish
<1>4. PICK n \in 1 .. emitted[s][t] : e = Ev(t, s, n)
  BY <1>3 DEF PendingRows
<1>5. e.n <= emitted[e.saga][e.topic]
  BY <1>4, SMT DEF Ev, IInv, TypeOK, MessagingTypeOK
<1>6. EventsInv'
  BY <1>2, <1>3, <1>5 DEF IInv, EventsInv, orderVars, paymentVars, inventoryVars
<1>7. EmitOnce' /\ skipped' = {} /\ StockConserved'
  BY <1>2 DEF IInv, EmitOnce, StockConserved, orderVars, inventoryVars
<1>8. ASSUME NEW x \in Sagas
      PROVE  SagaInv(x)'
  BY <1>2, SagaInvOf, SMT DEF SagaInv, OrderInv, PaymentInv, InventoryInv, CallInv, Has,
     Decided, Calling, Requested, orderVars, paymentVars, inventoryVars
<1>9. QED
  BY <1>1, <1>6, <1>7, <1>8 DEF IInv, SagaInv

-----------------------------------------------------------------------------
(* The Order service's HandleEvent preserves the saga's invariant: the     *)
(* state machine meets only the transitions of its diagram.                *)

(***************************************************************************)
(* The table of domain.Apply, field by field.                              *)
(***************************************************************************)
LEMMA ApplyTable ==
  /\ Apply("PENDING", "PaymentProcessed") = Advance("PAYMENT_OK")
  /\ Apply("PENDING", "PaymentFailed") = Cancel
  /\ Apply("PENDING", "InventoryReservationFailed") = Cancel
  /\ Apply("PENDING", "InventoryReserved") = Premature("PENDING")
  /\ Apply("PENDING", "PaymentRefunded") = Premature("PENDING")
  /\ Apply("PAYMENT_OK", "InventoryReserved") = Advance("CONFIRMED")
  /\ Apply("PAYMENT_OK", "InventoryReservationFailed") = Advance("COMPENSATING")
  /\ Apply("PAYMENT_OK", "PaymentRefunded") = Premature("PAYMENT_OK")
  /\ Apply("COMPENSATING", "PaymentRefunded") = Cancel
  /\ \A t \in Trigger : Apply("CONFIRMED", t) = Ignore("CONFIRMED")
  /\ \A t \in Trigger : Apply("CANCELLED", t) = Ignore("CANCELLED")
<1>1. /\ Apply("PENDING", "PaymentProcessed") = Advance("PAYMENT_OK")
      /\ Apply("PENDING", "PaymentFailed") = Cancel
      /\ Apply("PENDING", "InventoryReservationFailed") = Cancel
      /\ Apply("PENDING", "InventoryReserved") = Premature("PENDING")
      /\ Apply("PENDING", "PaymentRefunded") = Premature("PENDING")
  BY DEF Apply, ApplyPending
<1>2. /\ Apply("PAYMENT_OK", "InventoryReserved") = Advance("CONFIRMED")
      /\ Apply("PAYMENT_OK", "InventoryReservationFailed") = Advance("COMPENSATING")
      /\ Apply("PAYMENT_OK", "PaymentRefunded") = Premature("PAYMENT_OK")
  BY DEF Apply, ApplyPaymentOK
<1>3. Apply("COMPENSATING", "PaymentRefunded") = Cancel
  BY DEF Apply, ApplyCompensating
<1>4. \A t \in Trigger : /\ Apply("CONFIRMED", t) = Ignore("CONFIRMED")
                         /\ Apply("CANCELLED", t) = Ignore("CANCELLED")
  BY DEF Apply
<1>5. QED
  BY <1>1, <1>2, <1>3, <1>4

(***************************************************************************)
(* The table of topicTrigger, entry by entry.                              *)
(***************************************************************************)
LEMMA TopicTriggerTable ==
  /\ TopicTrigger("payment.processed") = "PaymentProcessed"
  /\ TopicTrigger("payment.failed") = "PaymentFailed"
  /\ TopicTrigger("inventory.reserved") = "InventoryReserved"
  /\ TopicTrigger("inventory.reservation_failed") = "InventoryReservationFailed"
  /\ TopicTrigger("payment.refunded") = "PaymentRefunded"
BY DEF TopicTrigger

(***************************************************************************)
(* What the handler of a consumed event can do to the order: one of the    *)
(* transitions of the diagram in ARCHITECTURE 5, the direct cancellation   *)
(* on a failed reservation, or nothing because the order is terminal.      *)
(***************************************************************************)
Moves(e, next) ==
  /\ Outcome(e).err = "none"
  /\ (IF Outcome(e).changed THEN Outcome(e).next ELSE order[e.saga]) = next

Transition(e) ==
  \/ /\ order[e.saga] = "PENDING" /\ e.topic = "payment.processed"
     /\ Moves(e, "PAYMENT_OK") /\ ~ Outcome(e).emit
  \/ /\ order[e.saga] = "PENDING"
     /\ e.topic \in {"payment.failed", "inventory.reservation_failed"}
     /\ Moves(e, "CANCELLED") /\ Outcome(e).emit
  \/ /\ order[e.saga] = "PAYMENT_OK" /\ e.topic = "inventory.reserved"
     /\ Moves(e, "CONFIRMED") /\ ~ Outcome(e).emit
  \/ /\ order[e.saga] = "PAYMENT_OK" /\ e.topic = "inventory.reservation_failed"
     /\ Moves(e, "COMPENSATING") /\ ~ Outcome(e).emit
  \/ /\ order[e.saga] = "COMPENSATING" /\ e.topic = "payment.refunded"
     /\ Moves(e, "CANCELLED") /\ Outcome(e).emit
  \/ /\ order[e.saga] \in {"CONFIRMED", "CANCELLED"}
     /\ Moves(e, order[e.saga]) /\ ~ Outcome(e).emit

(***************************************************************************)
(* An event that is applied makes one of those transitions: the invalid    *)
(* pairs of Apply cannot occur, because an order's events exclude them.    *)
(***************************************************************************)
LEMMA OnlyTransitions ==
  ASSUME IInv, NEW e \in published, OrderConsumes(e)
  PROVE  Transition(e)
<1> DEFINE s == e.saga
           o == order[s]
<1>1. /\ s \in Sagas /\ e.topic \in Topics /\ e = Ev(e.topic, s, 1) /\ Has(s, e.topic)
      /\ e.topic \in OrderConsumedTopics
      /\ e \notin orderSeen
      /\ Outcome(e).err # "premature"
  BY PublishedEvent DEF OrderConsumes, OrderHandleEvent
<1>2. OrderInv(s) /\ PaymentInv(s) /\ InventoryInv(s)
  BY <1>1, SagaInvOf
<1>3. o # "NONE" /\ o \in Status
  <2>1. Has(s, "order.created")
    BY <1>1, <1>2 DEF OrderConsumedTopics, PaymentInv, InventoryInv
  <2>2. QED
    BY <1>1, <1>2, <2>1 DEF OrderInv, IInv, TypeOK, OrderTypeOK
<1>4. Outcome(e) = Apply(o, TopicTrigger(e.topic))
  BY <1>3 DEF Outcome
<1>5. CASE o = "PENDING"
  <2>1. CASE e.topic = "payment.processed"
    <3>1. Outcome(e) = Advance("PAYMENT_OK")
      BY <1>4, <1>5, <2>1, ApplyTable, TopicTriggerTable
    <3>2. QED
      BY <1>5, <2>1, <3>1, SMT DEF Transition, Moves, Advance
  <2>2. CASE e.topic \in {"payment.failed", "inventory.reservation_failed"}
    <3>1. Outcome(e) = Cancel
      BY <1>4, <1>5, <2>2, ApplyTable, TopicTriggerTable
    <3>2. QED
      BY <1>5, <2>2, <3>1, SMT DEF Transition, Moves, Cancel
  <2>3. CASE e.topic \in {"inventory.reserved", "payment.refunded"}
    <3>1. Outcome(e) = Premature("PENDING")
      BY <1>4, <1>5, <2>3, ApplyTable, TopicTriggerTable
    <3>2. QED
      BY <1>1, <3>1, SMT DEF Premature
  <2>4. QED
    BY <1>1, <2>1, <2>2, <2>3 DEF OrderConsumedTopics
<1>6. CASE o = "PAYMENT_OK"
  <2>1. e.topic # "payment.processed" /\ e.topic # "payment.failed"
    <3>1. Ev("payment.processed", s, 1) \in orderSeen
      BY <1>2, <1>6 DEF OrderInv, Topics
    <3>2. Has(s, "payment.processed")
      BY <3>1, SeenHas
    <3>3. ~ Has(s, "payment.failed")
      BY <1>2, <3>2 DEF PaymentInv
    <3>4. QED
      BY <1>1, <3>1, <3>3
  <2>2. CASE e.topic = "inventory.reserved"
    <3>1. Outcome(e) = Advance("CONFIRMED")
      BY <1>4, <1>6, <2>2, ApplyTable, TopicTriggerTable
    <3>2. QED
      BY <1>6, <2>2, <3>1, SMT DEF Transition, Moves, Advance
  <2>3. CASE e.topic = "inventory.reservation_failed"
    <3>1. Outcome(e) = Advance("COMPENSATING")
      BY <1>4, <1>6, <2>3, ApplyTable, TopicTriggerTable
    <3>2. QED
      BY <1>6, <2>3, <3>1, SMT DEF Transition, Moves, Advance
  <2>4. CASE e.topic = "payment.refunded"
    <3>1. Outcome(e) = Premature("PAYMENT_OK")
      BY <1>4, <1>6, <2>4, ApplyTable, TopicTriggerTable
    <3>2. QED
      BY <1>1, <3>1, SMT DEF Premature
  <2>5. QED
    BY <1>1, <2>1, <2>2, <2>3, <2>4 DEF OrderConsumedTopics
<1>7. CASE o = "COMPENSATING"
  <2>1. /\ Ev("payment.processed", s, 1) \in orderSeen
        /\ Ev("inventory.reservation_failed", s, 1) \in orderSeen
    BY <1>1, <1>2, <1>7 DEF OrderInv, Topics
  <2>2. Has(s, "payment.processed") /\ Has(s, "inventory.reservation_failed")
    BY <2>1, SeenHas
  <2>3. e.topic = "payment.refunded"
    BY <1>1, <1>2, <2>1, <2>2 DEF PaymentInv, InventoryInv, OrderConsumedTopics
  <2>4. Outcome(e) = Cancel
    BY <1>4, <1>7, <2>3, ApplyTable, TopicTriggerTable
  <2>5. QED
    BY <1>7, <2>3, <2>4, SMT DEF Transition, Moves, Cancel
<1>8. CASE o \in {"CONFIRMED", "CANCELLED"}
  <2>1. Outcome(e) = Ignore(o)
    BY <1>1, <1>4, <1>8, ApplyTable, TopicTriggerType
  <2>2. QED
    BY <1>8, <2>1, SMT DEF Transition, Moves, Ignore
<1>9. QED
  BY <1>3, <1>5, <1>6, <1>7, <1>8 DEF Status

(***************************************************************************)
(* The Order service's HandleEvent.                                        *)
(***************************************************************************)
LEMMA InvOrderConsumes ==
  ASSUME IInv, NEW e \in published, OrderConsumes(e)
  PROVE  IInv'
<1> DEFINE s == e.saga
           next == order'[s]
<1>1. TypeOK'
  BY TypeOrderConsumes DEF IInv
<1>2. /\ s \in Sagas /\ e.topic \in OrderConsumedTopics /\ e.topic \in Topics
      /\ e = Ev(e.topic, s, 1) /\ Has(s, e.topic) /\ e \notin orderSeen
  BY PublishedEvent DEF OrderConsumes, OrderHandleEvent
<1>3. Transition(e)
  BY OnlyTransitions
<1>4. OrderApply(e, Outcome(e))
  BY <1>3 DEF Transition, Moves, OrderConsumes, OrderHandleEvent
<1>5. /\ UNCHANGED <<published, request, skipped>>
      /\ UNCHANGED <<payment, refundSeen, reserver, rpc>>
      /\ UNCHANGED <<stock, reservation, inventorySeen>>
      /\ orderSeen' = orderSeen \cup {e}
  BY <1>4 DEF OrderApply, OrderConsumes, OrderHandleEvent, paymentVars, inventoryVars
<1>6. \A x \in Sagas : order'[x] = IF x = s
        THEN IF Outcome(e).changed THEN Outcome(e).next ELSE order[s] ELSE order[x]
  BY <1>2, <1>4 DEF OrderApply, IInv, TypeOK, OrderTypeOK
<1>7. \/ order[s] = "PENDING" /\ e.topic = "payment.processed"
         /\ next = "PAYMENT_OK" /\ ~ Outcome(e).emit
      \/ order[s] = "PENDING"
         /\ e.topic \in {"payment.failed", "inventory.reservation_failed"}
         /\ next = "CANCELLED" /\ Outcome(e).emit
      \/ order[s] = "PAYMENT_OK" /\ e.topic = "inventory.reserved"
         /\ next = "CONFIRMED" /\ ~ Outcome(e).emit
      \/ order[s] = "PAYMENT_OK" /\ e.topic = "inventory.reservation_failed"
         /\ next = "COMPENSATING" /\ ~ Outcome(e).emit
      \/ order[s] = "COMPENSATING" /\ e.topic = "payment.refunded"
         /\ next = "CANCELLED" /\ Outcome(e).emit
      \/ order[s] \in {"CONFIRMED", "CANCELLED"} /\ next = order[s] /\ ~ Outcome(e).emit
  BY <1>2, <1>3, <1>6 DEF Transition, Moves
<1>8. /\ EmitOnce'
      /\ \A x \in Sagas, u \in Topics :
           /\ emitted[x][u] <= emitted'[x][u]
           /\ Has(x, u)' <=> \/ Has(x, u)
                             \/ x = s /\ u = "order.cancelled" /\ Outcome(e).emit
  <2>1. CASE Outcome(e).emit
    <3>1. emitted' = InsertOutbox(s, "order.cancelled") /\ "order.cancelled" \in Topics
      BY <1>4, <2>1 DEF OrderApply, Topics
    <3>2. ~ Has(s, "order.cancelled")
      BY <1>2, <1>7, <2>1, SagaInvOf DEF OrderInv
    <3>3. QED
      BY <1>2, <2>1, <3>1, <3>2, FirstInsert, SMT
  <2>2. CASE ~ Outcome(e).emit
    <3>1. emitted' = emitted
      BY <1>4, <2>2 DEF OrderApply
    <3>2. \A x \in Sagas, u \in Topics : emitted[x][u] \in Nat
      BY DEF IInv, TypeOK, MessagingTypeOK
    <3>3. QED
      BY <2>2, <3>1, <3>2, SMT DEF IInv, EmitOnce, Has
  <2>3. QED
    BY <2>1, <2>2
<1>9. EventsInv'
  <2>1. \A x \in published' : x.n <= emitted'[x.saga][x.topic]
    BY <1>1, <1>5, <1>8, PublishedStaysEmitted
  <2>2. QED
    BY <1>2, <1>5, <2>1 DEF IInv, EventsInv
<1>10. skipped' = {} /\ StockConserved'
  BY <1>5 DEF IInv, StockConserved
<1>11. ASSUME NEW x \in Sagas
       PROVE  SagaInv(x)'
  <2>1. OrderInv(x) /\ PaymentInv(x) /\ InventoryInv(x) /\ CallInv(x)
    BY SagaInvOf
  <2>2. \A u \in Topics \ {"order.cancelled"} : Has(x, u)' <=> Has(x, u)
    BY <1>8
  <2>3. Has(x, "order.cancelled")' <=>
          Has(x, "order.cancelled") \/ (x = s /\ Outcome(e).emit)
    BY <1>8 DEF Topics
  <2>4. OrderInv(x)'
    <3>1. CASE x # s
      <4>1. order'[x] = order[x] /\ request' = request
        BY <1>5, <1>6, <3>1
      <4>2. \A t \in Topics : Ev(t, x, 1) \in orderSeen' <=> Ev(t, x, 1) \in orderSeen
        BY <1>2, <1>5, <3>1, EvInjective, SMT
      <4>3. QED
        BY <2>1, <2>2, <2>3, <3>1, <4>1, <4>2 DEF OrderInv, Topics
    <3>2. CASE x = s
      <4>1. \A t \in Topics :
              Ev(t, x, 1) \in orderSeen' <=> Ev(t, x, 1) \in orderSeen \/ t = e.topic
        BY <1>2, <1>5, <3>2, EvInjective, SMT
      <4>2. request' = request /\ order[x] # "NONE" /\ next # "NONE"
        BY <1>5, <1>7, <3>2
      <4>3. Has(x, e.topic) /\ Has(x, e.topic)'
        BY <1>2, <1>8, <3>2
      <4>4. /\ order'[x] # "NONE" <=> Has(x, "order.created")'
            /\ order'[x] # "NONE" => request'[x].quantity > 0
        BY <2>1, <2>2, <3>2, <4>2 DEF OrderInv, Topics
      <4>5. /\ order'[x] \in {"NONE", "PENDING"} =>
                 \A t \in Topics : Ev(t, x, 1) \notin orderSeen'
            /\ order'[x] = "PAYMENT_OK" =>
                 \A t \in Topics : Ev(t, x, 1) \in orderSeen' <=> t = "payment.processed"
        BY <1>7, <2>1, <3>2, <4>1 DEF OrderInv
      <4>6. order'[x] = "COMPENSATING" =>
              \A t \in Topics : Ev(t, x, 1) \in orderSeen' <=>
                t \in {"payment.processed", "inventory.reservation_failed"}
        BY <1>7, <2>1, <3>2, <4>1 DEF OrderInv
      <4>7. /\ order'[x] = "CONFIRMED" => Has(x, "inventory.reserved")'
            /\ order'[x] = "CANCELLED" <=> Has(x, "order.cancelled")'
        BY <1>7, <2>1, <2>2, <2>3, <3>2, <4>3 DEF OrderInv, Topics
      <4>8. order'[x] = "CANCELLED" =>
              Has(x, "payment.failed")' \/ Has(x, "inventory.reservation_failed")'
        <5>1. CASE order[s] = "COMPENSATING"
          <6>1. Ev("inventory.reservation_failed", x, 1) \in orderSeen
            BY <2>1, <3>2, <5>1 DEF OrderInv, Topics
          <6>2. Has(x, "inventory.reservation_failed")
            BY <6>1, SeenHas
          <6>3. QED
            BY <2>2, <6>2 DEF Topics
        <5>2. CASE order[s] # "COMPENSATING"
          BY <1>7, <2>1, <2>2, <3>2, <4>3, <5>2 DEF OrderInv, Topics
        <5>3. QED
          BY <5>1, <5>2
      <4>9. QED
        BY <4>4, <4>5, <4>6, <4>7, <4>8 DEF OrderInv
    <3>3. QED
      BY <3>1, <3>2
  <2>5. PaymentInv(x)' /\ InventoryInv(x)' /\ CallInv(x)'
    BY <1>5, <2>1, <2>2 DEF PaymentInv, InventoryInv, CallInv, Calling, Requested,
       Decided, Topics
  <2>6. QED
    BY <2>4, <2>5 DEF SagaInv
<1>12. QED
  BY <1>1, <1>8, <1>9, <1>10, <1>11 DEF IInv, SagaInv
=============================================================================
