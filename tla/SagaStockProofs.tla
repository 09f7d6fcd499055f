-------------------------- MODULE SagaStockProofs ---------------------------
(***************************************************************************)
(* The saga's stock and reservations tables agree to the unit, for any     *)
(* number of orders, SKUs, quantities and amounts, and any faults.         *)
(***************************************************************************)
EXTENDS ChoreographySagaProofs, InventoryServiceProofs

USE InventoryAssumption

(***************************************************************************)
(* Only ReserveStock touches the two tables: a cancelled order holds no    *)
(* stock, so the handler of order.cancelled finds nothing to release.      *)
(***************************************************************************)
LEMMA TablesStay ==
  ASSUME IInv, [Next]_vars, \A e \in published : ~ InventoryServes(e)
  PROVE  UNCHANGED <<stock, reservation>>
<1>1. ASSUME NEW s \in Sagas,
             ClientCreatesOrder(s) \/ \E t \in Topics : OutboxPublishes(s, t)
      PROVE  UNCHANGED <<stock, reservation>>
  BY <1>1 DEF ClientCreatesOrder, OutboxPublishes, inventoryVars
<1>2. ASSUME NEW e \in published,
             OrderConsumes(e) \/ PaymentConsumes(e) \/ PaymentCalls(e) \/ Fails(e)
      PROVE  UNCHANGED <<stock, reservation>>
  BY <1>2 DEF OrderConsumes, PaymentConsumes, PaymentCalls, Fails, inventoryVars
<1>3. ASSUME NEW e \in published, InventoryConsumes(e)
      PROVE  UNCHANGED <<stock, reservation>>
  <2>1. e.topic = "order.cancelled" /\ e.saga \in Sagas /\ Has(e.saga, "order.cancelled")
    BY <1>3, PublishedEvent DEF InventoryConsumes, InventoryHandleOrderCancelled
  <2>2. order[e.saga] = "CANCELLED"
    BY <2>1, SagaInvOf DEF OrderInv
  <2>3. reservation[e.saga].status # "RESERVED"
    BY <2>1, <2>2, InvAgreement DEF OutcomesAgree
  <2> QED
    BY <1>3, <2>3 DEF InventoryConsumes, InventoryHandleOrderCancelled, Release,
       Releasable
<1>4. CASE UNCHANGED vars
  BY <1>4 DEF vars, inventoryVars
<1> QED
  BY <1>1, <1>2, <1>3, <1>4 DEF Next

(***************************************************************************)
(* The stock table and the reservations table agree: every reserved unit   *)
(* belongs to the row of some saga, and the other way round.  IInv gives   *)
(* that a saga reaches ReserveStock once, with no row yet, and never has a *)
(* reservation released.                                                   *)
(***************************************************************************)
THEOREM AccountsStock == Spec => []StockAccounted
<1> DEFINE Rows == \A k \in SKUs : UnitsInv(k)
<1>1. Init => StockAccounted /\ Rows
  BY TablesInitInv DEF Init, TablesInv
<1>2. ASSUME IInv, StockAccounted, Rows, [Next]_vars
      PROVE  StockAccounted' /\ Rows'
  <2>1. CASE \A e \in published : ~ InventoryServes(e)
    <3>1. UNCHANGED <<stock, reservation>>
      BY <1>2, <2>1, TablesStay
    <3> QED
      BY <1>2, <3>1, TablesSame
  <2>2. ASSUME NEW e \in published, InventoryServes(e)
        PROVE  StockAccounted' /\ Rows'
    <3>1. /\ e.saga \in Sagas /\ reservation[e.saga].status = "NONE"
          /\ request[e.saga].sku \in SKUs
          /\ request[e.saga].quantity \in Int /\ request[e.saga].quantity > 0
      BY <1>2, <2>2, ServedRequest
    <3>2. request[e.saga].quantity \in Nat
      BY <3>1, SMT
    <3>3. PICK s \in Sagas, k \in SKUs, q \in Nat :
            ReserveStock(s, e, k, q) /\ reservation[s].status = "NONE"
      BY <2>2, <3>1, <3>2 DEF InventoryServes
    <3>4. InventoryTypeOK /\ StockConserved
      BY <1>2 DEF IInv, TypeOK
    <3> QED
      BY <1>2, <3>3, <3>4, ReserveAccounts
  <2> QED
    BY <2>1, <2>2
<1> QED
  BY <1>1, <1>2, Invariance, PTL DEF Spec
=============================================================================
