-------------------------- MODULE InventoryService --------------------------
(***************************************************************************)
(* The Inventory service (C++): ReserveStock and ReleaseStock over gRPC    *)
(* and the handler of order.cancelled, services/inventory/src/{service,db, *)
(* grpc_server}.cpp.  Every call holds the database mutex for the whole of *)
(* its one transaction, so a call is one step.                             *)
(***************************************************************************)
EXTENDS Messaging, Integers, FiniteSets

CONSTANTS PoisonSku,    \* kPoisonSku, for which every reservation fails
          Seeded,       \* the SKUs with a row in the stock table
          InitStock     \* InitStock[k]: seeded units of k; 0 if there is no row

ASSUME InventoryAssumption ==
  /\ PoisonSku \in SKUs
  /\ Seeded \subseteq SKUs
  /\ InitStock \in [SKUs -> Nat]
  /\ \A k \in SKUs \ Seeded : InitStock[k] = 0

VARIABLES stock,        \* stock[k].available and stock[k].reserved, 0 without a row
          reservation,  \* reservation[s]: the row of saga s, status "NONE" if none
          inventorySeen \* processed_messages: pairs of a consumer and a key

inventoryVars == <<stock, reservation, inventorySeen>>

InventoryConsumer ==
  {"inventory-reserve", "inventory-release", "inventory-order-cancelled"}

InventoryTypeOK ==
  /\ stock \in [SKUs -> [available : Int, reserved : Int]]
  /\ reservation \in [Sagas -> [status : {"NONE", "RESERVED", "RELEASED"},
                                sku : SKUs, quantity : Int]]
  /\ inventorySeen \subseteq InventoryConsumer \X Event

InventoryInit ==
  /\ stock = [k \in SKUs |-> [available |-> InitStock[k], reserved |-> 0]]
  /\ reservation = [s \in Sagas |->
       [status |-> "NONE", sku |-> PoisonSku, quantity |-> 0]]
  /\ inventorySeen = {}

\* Mutations: the units leave available but are not added to reserved; one
\* unit is moved whatever the quantity.
MoveStockLoses(k, q) == [stock EXCEPT ![k].available = @ - q]
MoveStockOne(k, q) ==
  [stock EXCEPT ![k] = [available |-> @.available - 1, reserved |-> @.reserved + 1]]

\* The stock table after q units of k moved from available to reserved.  The
\* UPDATE finds nothing to change if k has no row.
MoveStock(k, q) ==
  [stock EXCEPT ![k] = IF k \in Seeded
                         THEN [available |-> @.available - q, reserved |-> @.reserved + q]
                         ELSE @]

IsPoisonSku(k) == k = PoisonSku

\* Mutation: off by one.
ReservableOffByOne(k, q) == ~ IsPoisonSku(k) /\ stock[k].available >= q - 1

Reservable(k, q) == ~ IsPoisonSku(k) /\ stock[k].available >= q

\* Mutation: the marker is not looked at.
ProcessedNever(consumer, key) == FALSE

\* mark_processed finds the key.
Processed(consumer, key) == <<consumer, key>> \in inventorySeen

\* Mutation: the row has a status the queries do not look for.
ReservedRowMisspelt(k, q) == [status |-> "reserved", sku |-> k, quantity |-> q]

ReservedRow(k, q) == [status |-> "RESERVED", sku |-> k, quantity |-> q]

\* Mutation: a repeated request is answered by a look at the stock.
ReserveAnswerAnew(s, key, k, q) ==
  IF Reservable(k, q) THEN "RESERVED" ELSE "INSUFFICIENT_STOCK"

\* The status that the caller of ReserveStock is told.
ReserveAnswer(s, key, k, q) ==
  IF IF Processed("inventory-reserve", key) THEN reservation[s].status = "RESERVED"
     ELSE Reservable(k, q)
    THEN "RESERVED"
    ELSE "INSUFFICIENT_STOCK"

(***************************************************************************)
(* Database::reserve.  A key seen before is answered from the reservations *)
(* table and changes nothing.  Otherwise the outcome and its event commit  *)
(* together with the marker.  The INSERT keeps the row the saga already    *)
(* has, if it has one.                                                     *)
(***************************************************************************)
ReserveStock(s, key, k, q) ==
  /\ IF Processed("inventory-reserve", key)
       THEN UNCHANGED <<emitted, stock, reservation, inventorySeen>>
       ELSE /\ inventorySeen' = inventorySeen \cup {<<"inventory-reserve", key>>}
            /\ IF Reservable(k, q)
                 THEN /\ stock' = MoveStock(k, q)
                      /\ reservation' = [reservation EXCEPT ![s] =
                           IF @.status = "NONE" THEN ReservedRow(k, q) ELSE @]
                      /\ emitted' = InsertOutbox(s, "inventory.reserved")
                 ELSE /\ emitted' = InsertOutbox(s, "inventory.reservation_failed")
                      /\ UNCHANGED <<stock, reservation>>
  /\ UNCHANGED published

\* Mutation: the update does not test the status.
ReleasableAlways(s) == reservation[s].status # "NONE"

Releasable(s) == reservation[s].status = "RESERVED"

(***************************************************************************)
(* Database::release for a given consumer label.  Only a RESERVED row is   *)
(* released; its own sku and quantity go back to the stock.                *)
(***************************************************************************)
Release(s, consumer, key) ==
  /\ ~ Processed(consumer, key)
  /\ inventorySeen' = inventorySeen \cup {<<consumer, key>>}
  /\ IF Releasable(s)
       THEN /\ reservation' = [reservation EXCEPT ![s].status = "RELEASED"]
            /\ stock' = MoveStock(reservation[s].sku, - reservation[s].quantity)
            /\ emitted' = InsertOutbox(s, "inventory.released")
       ELSE UNCHANGED <<stock, reservation, emitted>>
  /\ UNCHANGED published

\* The ReleaseStock RPC.
ReleaseStock(s, key) == Release(s, "inventory-release", key)

\* The handler of the order.cancelled topic.
InventoryHandleOrderCancelled(e) ==
  /\ e \in published
  /\ e.topic = "order.cancelled"
  /\ Release(e.saga, "inventory-order-cancelled", e)

-----------------------------------------------------------------------------
(***************************************************************************)
(* Units are neither created nor lost, and never oversold: available plus  *)
(* reserved is what was seeded, and neither goes below zero, whatever      *)
(* orders compete for the row.                                             *)
(***************************************************************************)
StockConserved ==
  \A k \in SKUs :
    /\ stock[k].available + stock[k].reserved = InitStock[k]
    /\ stock[k].available >= 0
    /\ stock[k].reserved >= 0

\* The sagas whose RESERVED row is for SKU k.
Held(k) == {s \in Sagas : reservation[s].status = "RESERVED" /\ reservation[s].sku = k}

\* The units of a row, one pair for each.
RowUnits(s) == {s} \X (1 .. reservation[s].quantity)

\* The units of SKU k that the reservations table holds for some saga.
HeldUnits(k) == UNION {RowUnits(s) : s \in Held(k)}

(***************************************************************************)
(* The stock table and the reservations table agree: the reserved units of *)
(* a SKU are those of the RESERVED rows, so no unit is reserved for nobody *)
(* and a release returns what its reservation took.                        *)
(***************************************************************************)
StockAccounted == \A k \in SKUs : stock[k].reserved = Cardinality(HeldUnits(k))

\* The RESERVED rows of SKU k are backed by reserved units, so that releasing
\* them does not take more out of stock.reserved than there is.
Backed(k) == stock[k].reserved >= Cardinality(HeldUnits(k))

\* What a count of the units of SKU k needs: a row is for some number of them,
\* and there are finitely many.
UnitsInv(k) ==
  /\ \A s \in Held(k) : reservation[s].quantity \in Nat
  /\ IsFiniteSet(HeldUnits(k))

(***************************************************************************)
(* The inductive invariant of the two tables, as far as SKU k goes.  That  *)
(* no counter is negative is not inductive alone: a release subtracts from *)
(* stock.reserved without a test, and only Backed says that the result is  *)
(* not negative.                                                           *)
(***************************************************************************)
TablesInv(k) == UnitsInv(k) /\ stock[k].available >= 0 /\ Backed(k)
=============================================================================
