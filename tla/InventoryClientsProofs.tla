----------------------- MODULE InventoryClientsProofs -----------------------
(***************************************************************************)
(* Proofs about the Inventory service under arbitrary clients, for any     *)
(* number of sagas, SKUs and keys, and any quantities, negative or not.    *)
(***************************************************************************)
EXTENDS InventoryClients, InventoryServiceProofs

\* Most leaves are first-order without arithmetic, and Zenon proves them; the
\* others name SMT.
USE InventoryAssumption, ClientsAssumption, Zenon

\* The effect of an outbox row on the counts.
LEMMA OutboxCount ==
  ASSUME MessagingTypeOK, NEW s \in Sagas, NEW t \in Topics
  PROVE  /\ InsertOutbox(s, t) \in [Sagas -> [Topics -> Nat]]
         /\ \A r \in Sagas, u \in Topics :
              InsertOutbox(s, t)[r][u] =
                IF r = s /\ u = t THEN emitted[r][u] + 1 ELSE emitted[r][u]
BY SMT DEF MessagingTypeOK, InsertOutbox

\* Moving stock keeps the type of the table.
LEMMA MoveStockType ==
  ASSUME InventoryTypeOK, NEW k \in SKUs, NEW q \in Int
  PROVE  MoveStock(k, q) \in [SKUs -> [available : Int, reserved : Int]]
BY SMT DEF InventoryTypeOK, MoveStock

\* Keys are events.
LEMMA KeyIsEvent ==
  ASSUME NEW s \in Sagas, NEW n \in 1 .. NKeys
  PROVE  Key(s, n) \in Event /\ Key(s, n).saga = s
BY SMT DEF Key, Ev, Event, Topics

\* A step of a client asks for a quantity of a SKU.
LEMMA RequestPicked ==
  ASSUME NEW s \in Sagas, NEW n \in 1 .. NKeys, Reserves(s, n)
  PROVE  \E k \in SKUs, q \in Int : ReservesFor(s, n, k, q)
<1>1. PICK r \in Requests : ReservesFor(s, n, r.sku, r.quantity)
  BY DEF Reserves
<1>2. r.sku \in SKUs /\ r.quantity \in Int
  BY SMT
<1> QED
  BY <1>1, <1>2

\* The freshly migrated database satisfies the invariant.
LEMMA ClientsInitInv == ClientsInit => ClientsInv
<1> SUFFICES ASSUME ClientsInit PROVE ClientsInv
  OBVIOUS
<1>1. ClientsTypeOK
  BY SMT DEF ClientsInit, MessagingInit, InventoryInit, ClientsTypeOK, MessagingTypeOK,
     InventoryTypeOK
<1>2. IsFiniteSet(inventorySeen)
  BY FS_EmptySet DEF ClientsInit, InventoryInit
<1>3. OneOutcomePerKey
  <2>1. ASSUME NEW s \in Sagas PROVE Cardinality(ReserveMarkers(s)) = 0
    <3>1. ReserveMarkers(s) = {}
      BY DEF ReserveMarkers, ClientsInit, InventoryInit
    <3> QED
      BY <3>1, FS_EmptySet
  <2>2. ASSUME NEW s \in Sagas
        PROVE  /\ reservation[s].status = "NONE"
               /\ emitted[s]["inventory.reserved"] = 0
               /\ emitted[s]["inventory.reservation_failed"] = 0
               /\ emitted[s]["inventory.released"] = 0
    BY DEF ClientsInit, MessagingInit, InventoryInit, Topics
  <2>3. ASSUME NEW s \in Sagas
        PROVE  /\ emitted[s]["inventory.reserved"] + emitted[s]["inventory.reservation_failed"]
                    = Cardinality(ReserveMarkers(s))
               /\ emitted[s]["inventory.released"] =
                    IF reservation[s].status = "RELEASED" THEN 1 ELSE 0
    <3>1. 0 + 0 = 0
      BY SMT
    <3> QED
      BY <2>1, <2>2, <3>1
  <2> QED
    BY <2>3 DEF OneOutcomePerKey
<1>4. AnswersInv
  BY DEF ClientsInit, InventoryInit, AnswersInv, Processed
<1>5. StockConserved /\ \A k \in SKUs : TablesInv(k)
  BY TablesInitInv DEF ClientsInit
<1>6. ConservedUnlessReversed
  BY <1>5 DEF StockConserved, ConservedUnlessReversed
<1> QED
  BY <1>1, <1>2, <1>3, <1>4, <1>5, <1>6 DEF ClientsInv

-----------------------------------------------------------------------------
(* The types.                                                              *)

\* The reserve transaction, taken or not, keeps the tables well typed.
LEMMA ReserveType ==
  ASSUME ClientsTypeOK, NEW s \in Sagas, NEW n \in 1 .. NKeys, Reserves(s, n)
  PROVE  ClientsTypeOK'
<1> PICK k \in SKUs, q \in Int : ReservesFor(s, n, k, q)
  BY RequestPicked
<1> USE DEF ReservesFor
<1>1. Key(s, n) \in Event /\ MessagingTypeOK /\ InventoryTypeOK
  BY KeyIsEvent DEF ClientsTypeOK
<1>2. ReserveAnswer(s, Key(s, n), k, q) \in {"RESERVED", "INSUFFICIENT_STOCK"}
  BY DEF ReserveAnswer
<1>3. answers' \in [Sagas -> [1 .. NKeys -> SUBSET {"RESERVED", "INSUFFICIENT_STOCK"}]]
  BY <1>2 DEF ClientsTypeOK
<1>4. MessagingTypeOK'
  <2>1. \/ emitted' = emitted
        \/ \E t \in Topics : emitted' = InsertOutbox(s, t)
    BY DEF ReserveStock, Topics
  <2>2. emitted' \in [Sagas -> [Topics -> Nat]]
    BY <1>1, <2>1, OutboxCount, SMT DEF MessagingTypeOK
  <2> QED
    BY <1>1, <2>2 DEF MessagingTypeOK, ReserveStock
<1>5. stock' \in [SKUs -> [available : Int, reserved : Int]]
  <2>1. stock' = stock \/ stock' = MoveStock(k, q)
    BY DEF ReserveStock
  <2>2. MoveStock(k, q) \in [SKUs -> [available : Int, reserved : Int]]
    BY <1>1, MoveStockType
  <2> QED
    BY <1>1, <2>1, <2>2 DEF InventoryTypeOK
<1>6. reservation' \in [Sagas -> [status : {"NONE", "RESERVED", "RELEASED"},
                                  sku : SKUs, quantity : Int]]
  BY <1>1, SMT DEF InventoryTypeOK, ReserveStock, ReservedRow
<1>7. inventorySeen' \subseteq InventoryConsumer \X Event
  BY <1>1, SMT DEF ClientsTypeOK, InventoryTypeOK, ReserveStock, InventoryConsumer
<1>8. reversed' \subseteq SKUs
  BY DEF ClientsTypeOK
<1> QED
  BY <1>3, <1>4, <1>5, <1>6, <1>7, <1>8 DEF ClientsTypeOK, InventoryTypeOK

\* So does the release transaction.
LEMMA ReleaseType ==
  ASSUME ClientsTypeOK, NEW s \in Sagas, NEW c \in InventoryConsumer, NEW key \in Event,
         Release(s, c, key), UNCHANGED <<answers, reversed>>
  PROVE  ClientsTypeOK'
<1>1. /\ MessagingTypeOK /\ InventoryTypeOK
      /\ reservation[s].sku \in SKUs /\ - reservation[s].quantity \in Int
  BY SMT DEF ClientsTypeOK, InventoryTypeOK
<1>2. MessagingTypeOK'
  <2>1. emitted' = emitted \/ emitted' = InsertOutbox(s, "inventory.released")
    BY DEF Release
  <2>2. emitted' \in [Sagas -> [Topics -> Nat]]
    BY <1>1, <2>1, OutboxCount, SMT DEF MessagingTypeOK, Topics
  <2> QED
    BY <1>1, <2>2 DEF MessagingTypeOK, Release
<1>3. stock' \in [SKUs -> [available : Int, reserved : Int]]
  <2>1. stock' = stock \/ stock' = MoveStock(reservation[s].sku, - reservation[s].quantity)
    BY DEF Release
  <2>2. MoveStock(reservation[s].sku, - reservation[s].quantity)
          \in [SKUs -> [available : Int, reserved : Int]]
    BY <1>1, MoveStockType
  <2> QED
    BY <1>1, <2>1, <2>2 DEF InventoryTypeOK
<1>4. reservation' \in [Sagas -> [status : {"NONE", "RESERVED", "RELEASED"},
                                  sku : SKUs, quantity : Int]]
  <2>1. \/ reservation' = reservation
        \/ reservation' = [reservation EXCEPT ![s] = [@ EXCEPT !.status = "RELEASED"]]
    BY DEF Release
  <2>2. [reservation[s] EXCEPT !.status = "RELEASED"]
          \in [status : {"NONE", "RESERVED", "RELEASED"}, sku : SKUs, quantity : Int]
    BY <1>1 DEF InventoryTypeOK
  <2> QED
    BY <1>1, <2>1, <2>2 DEF InventoryTypeOK
<1>5. inventorySeen' \subseteq InventoryConsumer \X Event
  BY SMT DEF ClientsTypeOK, InventoryTypeOK, Release
<1> QED
  BY <1>2, <1>3, <1>4, <1>5 DEF ClientsTypeOK, InventoryTypeOK

-----------------------------------------------------------------------------
(* One outcome per key.                                                    *)

\* Markers of other consumers are not markers of ReserveStock, and a new one
\* of ReserveStock counts for its own saga.
LEMMA MarkerCount ==
  ASSUME IsFiniteSet(inventorySeen), NEW s \in Sagas, NEW c, NEW key, key.saga = s,
         <<c, key>> \notin inventorySeen, inventorySeen' = inventorySeen \cup {<<c, key>>}
  PROVE  /\ IsFiniteSet(inventorySeen')
         /\ \A r \in Sagas :
              Cardinality(ReserveMarkers(r)') =
                IF r = s /\ c = "inventory-reserve" THEN Cardinality(ReserveMarkers(r)) + 1
                ELSE Cardinality(ReserveMarkers(r))
<1>1. IsFiniteSet(inventorySeen')
  BY FS_AddElement
<1>2. ASSUME NEW r \in Sagas
      PROVE  Cardinality(ReserveMarkers(r)') =
               IF r = s /\ c = "inventory-reserve" THEN Cardinality(ReserveMarkers(r)) + 1
               ELSE Cardinality(ReserveMarkers(r))
  <2>1. <<c, key>>[1] = c /\ <<c, key>>[2] = key
    OBVIOUS
  <2>2. CASE r = s /\ c = "inventory-reserve"
    <3>1. ReserveMarkers(r)' = ReserveMarkers(r) \cup {<<c, key>>}
      BY <2>1, <2>2 DEF ReserveMarkers
    <3>2. <<c, key>> \notin ReserveMarkers(r)
      BY DEF ReserveMarkers
    <3>3. IsFiniteSet(ReserveMarkers(r))
      BY FS_Subset DEF ReserveMarkers
    <3> QED
      BY <2>2, <3>1, <3>2, <3>3, FS_AddElement
  <2>3. CASE ~ (r = s /\ c = "inventory-reserve")
    <3>1. ReserveMarkers(r)' = ReserveMarkers(r)
      BY <2>1, <2>3 DEF ReserveMarkers
    <3> QED
      BY <2>3, <3>1
  <2> QED
    BY <2>2, <2>3
<1> QED
  BY <1>1, <1>2

\* reserve commits its marker together with one outcome row, or does nothing
\* when the key was seen.
LEMMA ReserveOutcome ==
  ASSUME ClientsInv, NEW s \in Sagas, NEW key \in Event, key.saga = s,
         NEW k \in SKUs, NEW q \in Int, ReserveStock(s, key, k, q)
  PROVE  IsFiniteSet(inventorySeen') /\ OneOutcomePerKey'
<1> USE DEF ClientsInv
<1>1. MessagingTypeOK /\ InventoryTypeOK
  BY DEF ClientsTypeOK
<1>2. CASE Processed("inventory-reserve", key)
  <2>1. UNCHANGED <<emitted, reservation, inventorySeen>>
    BY <1>2 DEF ReserveStock
  <2> QED
    BY <2>1 DEF OneOutcomePerKey, ReserveMarkers
<1>3. CASE ~ Processed("inventory-reserve", key)
  <2>1. /\ <<"inventory-reserve", key>> \notin inventorySeen
        /\ inventorySeen' = inventorySeen \cup {<<"inventory-reserve", key>>}
    BY <1>3 DEF ReserveStock, Processed
  <2>2. /\ IsFiniteSet(inventorySeen')
        /\ \A r \in Sagas : Cardinality(ReserveMarkers(r)') =
             IF r = s THEN Cardinality(ReserveMarkers(r)) + 1 ELSE Cardinality(ReserveMarkers(r))
    BY <2>1, MarkerCount
  <2>3. \/ emitted' = InsertOutbox(s, "inventory.reserved")
        \/ emitted' = InsertOutbox(s, "inventory.reservation_failed")
    BY <1>3 DEF ReserveStock
  <2>4. \A r \in Sagas :
          (reservation'[r].status = "RELEASED") <=> (reservation[r].status = "RELEASED")
    BY <1>1, <1>3, SMT DEF ReserveStock, InventoryTypeOK, ReservedRow
  <2>5. ASSUME NEW r \in Sagas
        PROVE  /\ emitted'[r]["inventory.reserved"] + emitted'[r]["inventory.reservation_failed"]
                    = IF r = s THEN emitted[r]["inventory.reserved"]
                                    + emitted[r]["inventory.reservation_failed"] + 1
                      ELSE emitted[r]["inventory.reserved"]
                           + emitted[r]["inventory.reservation_failed"]
               /\ emitted'[r]["inventory.released"] = emitted[r]["inventory.released"]
    <3>1. \A u \in Topics : emitted[r][u] \in Nat
      BY <1>1 DEF MessagingTypeOK
    <3>2. \A t \in Topics, u \in Topics :
            InsertOutbox(s, t)[r][u] = IF r = s /\ u = t THEN emitted[r][u] + 1
                                       ELSE emitted[r][u]
      BY <1>1, OutboxCount, SMT
    <3> QED
      BY <2>3, <3>1, <3>2, SMT DEF Topics
  <2> QED
    BY <2>2, <2>4, <2>5, SMT DEF OneOutcomePerKey
<1> QED
  BY <1>2, <1>3

\* release emits an event only for a RESERVED row, which it turns RELEASED.
LEMMA ReleaseOutcome ==
  ASSUME ClientsInv, NEW s \in Sagas,
         NEW c \in {"inventory-release", "inventory-order-cancelled"},
         NEW key \in Event, key.saga = s, Release(s, c, key)
  PROVE  IsFiniteSet(inventorySeen') /\ OneOutcomePerKey'
<1> USE DEF ClientsInv
<1>1. MessagingTypeOK /\ InventoryTypeOK
  BY DEF ClientsTypeOK
<1>2. /\ <<c, key>> \notin inventorySeen
      /\ inventorySeen' = inventorySeen \cup {<<c, key>>}
  BY DEF Release, Processed
<1>3. /\ IsFiniteSet(inventorySeen')
      /\ \A r \in Sagas : Cardinality(ReserveMarkers(r)') = Cardinality(ReserveMarkers(r))
  BY <1>2, MarkerCount
<1>4. CASE Releasable(s)
  <2>1. /\ emitted' = InsertOutbox(s, "inventory.released")
        /\ reservation' = [reservation EXCEPT ![s].status = "RELEASED"]
        /\ reservation[s].status = "RESERVED"
    BY <1>4 DEF Release, Releasable
  <2>2. \A r \in Sagas : reservation'[r].status =
                           IF r = s THEN "RELEASED" ELSE reservation[r].status
    BY <1>1, <2>1 DEF InventoryTypeOK
  <2>3. ASSUME NEW r \in Sagas
        PROVE  /\ emitted'[r]["inventory.reserved"] = emitted[r]["inventory.reserved"]
               /\ emitted'[r]["inventory.reservation_failed"] =
                    emitted[r]["inventory.reservation_failed"]
               /\ emitted'[r]["inventory.released"] =
                    IF r = s THEN emitted[r]["inventory.released"] + 1
                    ELSE emitted[r]["inventory.released"]
    <3>1. "inventory.released" \in Topics
      BY DEF Topics
    <3>2. \A t \in Topics, u \in Topics :
            InsertOutbox(s, t)[r][u] = IF r = s /\ u = t THEN emitted[r][u] + 1
                                       ELSE emitted[r][u]
      BY <1>1, OutboxCount, SMT
    <3>3. \A u \in Topics :
            emitted'[r][u] = IF r = s /\ u = "inventory.released" THEN emitted[r][u] + 1
                             ELSE emitted[r][u]
      BY <2>1, <3>1, <3>2
    <3> QED
      BY <3>3 DEF Topics
  <2> QED
    BY <1>3, <2>1, <2>2, <2>3, SMT DEF OneOutcomePerKey
<1>5. CASE ~ Releasable(s)
  <2>1. UNCHANGED <<emitted, reservation>>
    BY <1>5 DEF Release
  <2> QED
    BY <1>3, <2>1 DEF OneOutcomePerKey
<1> QED
  BY <1>4, <1>5

-----------------------------------------------------------------------------
(* Retries agree.                                                          *)

\* An answer of reserve is what the row of the saga tells once the
\* transaction has committed; for a seen key, what it told before.
LEMMA ReserveAnswers ==
  ASSUME ClientsInv, NEW s \in Sagas, NEW n \in 1 .. NKeys, NEW k \in SKUs, NEW q \in Int,
         ReserveStock(s, Key(s, n), k, q),
         answers' = [answers EXCEPT ![s][n] = @ \cup {ReserveAnswer(s, Key(s, n), k, q)}]
  PROVE  AnswersInv'
<1> DEFINE told == ReserveAnswer(s, Key(s, n), k, q)
<1>1. ClientsTypeOK /\ InventoryTypeOK /\ AnswersInv
  BY DEF ClientsInv, ClientsTypeOK
<1>2. ASSUME NEW r \in Sagas, NEW m \in 1 .. NKeys
      PROVE  answers'[r][m] = IF r = s /\ m = n THEN answers[s][n] \cup {told} ELSE answers[r][m]
  BY <1>1 DEF ClientsTypeOK
<1> HIDE DEF told
<1>3. \A r \in Sagas : r # s => reservation'[r] = reservation[r]
  BY <1>1 DEF ReserveStock, InventoryTypeOK
<1>4. ASSUME NEW r \in Sagas, NEW m \in 1 .. NKeys
      PROVE  Processed("inventory-reserve", Key(r, m))' <=>
               Processed("inventory-reserve", Key(r, m)) \/ (r = s /\ m = n)
  <2>1. Key(r, m) = Key(s, n) <=> r = s /\ m = n
    BY DEF Key, Ev
  <2> QED
    BY <2>1, SMT DEF ReserveStock, Processed
<1>5. answers[s][n] # {} <=> Processed("inventory-reserve", Key(s, n))
  BY <1>1 DEF AnswersInv
<1>6. answers'[s][n] # {}
  BY <1>2, SMT
<1>7. \/ answers'[s][n] \subseteq {Told(s)'}
      \/ reservation'[s].status = "RELEASED"
      \/ \E m \in (1 .. NKeys) \ {n} : answers'[s][m] # {}
  <2>1. SUFFICES ASSUME reservation'[s].status # "RELEASED",
                        \A m \in (1 .. NKeys) \ {n} : answers'[s][m] = {}
                 PROVE  answers'[s][n] \subseteq {Told(s)'}
    OBVIOUS
  <2>2. \A m \in (1 .. NKeys) \ {n} : answers[s][m] = {}
    BY <1>2, <2>1, SMT
  <2>3. CASE Processed("inventory-reserve", Key(s, n))
    <3>1. reservation' = reservation
      BY <2>3 DEF ReserveStock
    <3>2. told = Told(s) /\ Told(s)' = Told(s)
      BY <2>3, <3>1 DEF told, ReserveAnswer, Told
    <3>3. answers[s][n] \subseteq {Told(s)}
      BY <1>1, <2>1, <2>2, <3>1, SMT DEF AnswersInv
    <3> QED
      BY <1>2, <3>2, <3>3, SMT
  <2>4. CASE ~ Processed("inventory-reserve", Key(s, n))
    <3>1. answers[s][n] = {}
      BY <1>5, <2>4
    <3>2. reservation[s].status = "NONE"
      BY <1>1, <2>2, <3>1 DEF AnswersInv
    <3>3. reservation'[s].status = IF Reservable(k, q) THEN "RESERVED" ELSE "NONE"
      BY <1>1, <2>4, <3>2, SMT DEF ReserveStock, InventoryTypeOK, ReservedRow
    <3>4. told = Told(s)'
      BY <2>4, <3>3 DEF told, ReserveAnswer, Told
    <3> QED
      BY <1>2, <3>1, <3>4, SMT
  <2> QED
    BY <2>3, <2>4
<1>8. ASSUME NEW r \in Sagas
      PROVE  /\ (\A m \in 1 .. NKeys : answers'[r][m] = {}) => reservation'[r].status = "NONE"
             /\ \A m \in 1 .. NKeys :
                  /\ answers'[r][m] # {} <=> Processed("inventory-reserve", Key(r, m))'
                  /\ \/ answers'[r][m] \subseteq {Told(r)'}
                     \/ reservation'[r].status = "RELEASED"
                     \/ \E o \in (1 .. NKeys) \ {m} : answers'[r][o] # {}
  <2>1. \A m \in 1 .. NKeys : answers'[r][m] # {} <=> Processed("inventory-reserve", Key(r, m))'
    BY <1>1, <1>2, <1>4, <1>6, SMT DEF AnswersInv
  <2>2. CASE r = s
    <3>1. (\A m \in 1 .. NKeys : answers'[r][m] = {}) => reservation'[r].status = "NONE"
      BY <1>6, <2>2
    <3>2. ASSUME NEW m \in 1 .. NKeys, m # n
          PROVE  \E o \in (1 .. NKeys) \ {m} : answers'[r][o] # {}
      BY <1>6, <2>2, <3>2
    <3>3. Told(r)' = Told(s)'
      BY <2>2 DEF Told
    <3> QED
      BY <1>7, <2>1, <2>2, <3>1, <3>2, <3>3
  <2>3. CASE r # s
    <3>1. reservation'[r] = reservation[r] /\ Told(r)' = Told(r)
      <4>1. reservation'[r] = reservation[r]
        BY <1>3, <2>3
      <4> QED
        BY <4>1 DEF Told
    <3>2. \A m \in 1 .. NKeys : answers'[r][m] = answers[r][m]
      BY <1>2, <2>3, SMT
    <3>3. /\ (\A m \in 1 .. NKeys : answers[r][m] = {}) => reservation[r].status = "NONE"
          /\ \A m \in 1 .. NKeys :
               \/ answers[r][m] \subseteq {Told(r)}
               \/ reservation[r].status = "RELEASED"
               \/ \E o \in (1 .. NKeys) \ {m} : answers[r][o] # {}
      BY <1>1 DEF AnswersInv
    <3> QED
      BY <2>1, <3>1, <3>2, <3>3, SMT
  <2> QED
    BY <2>2, <2>3
<1> QED
  BY <1>1, <1>8 DEF AnswersInv

\* A release leaves the row of its saga alone or turns it RELEASED, and
\* touches no other.
LEMMA ReleaseAnswers ==
  ASSUME ClientsInv, NEW s \in Sagas,
         NEW c \in {"inventory-release", "inventory-order-cancelled"},
         NEW key \in Event, Release(s, c, key), UNCHANGED answers
  PROVE  AnswersInv'
<1> USE DEF ClientsInv
<1>1. ASSUME NEW r \in Sagas
      PROVE  reservation'[r].status \in {reservation[r].status, "RELEASED"}
             /\ (reservation[r].status = "NONE" => reservation'[r].status = "NONE")
  <2>1. \/ reservation' = reservation
        \/ /\ reservation[s].status = "RESERVED"
           /\ reservation' = [reservation EXCEPT ![s].status = "RELEASED"]
    BY DEF Release, Releasable
  <2> QED
    BY <2>1 DEF ClientsTypeOK, InventoryTypeOK
<1>2. ASSUME NEW r \in Sagas, NEW m \in 1 .. NKeys
      PROVE  Processed("inventory-reserve", Key(r, m))' <=>
               Processed("inventory-reserve", Key(r, m))
  BY DEF Release, Processed
<1>3. \A r \in Sagas : reservation'[r].status = "RELEASED" \/ Told(r)' = Told(r)
  BY <1>1 DEF Told
<1> QED
  BY <1>1, <1>2, <1>3, SMT DEF AnswersInv

-----------------------------------------------------------------------------
(* The tables.                                                             *)

(***************************************************************************)
(* TablesInv(k) and the units of k give the property of the counters of k. *)
(* The tables of a SKU that has been reversed keep the units and no more.  *)
(***************************************************************************)
LEMMA CountersKept ==
  ASSUME ClientsInv, InventoryTypeOK', reversed \subseteq reversed',
         \A k \in SKUs : Units(k)' = Units(k),
         \A k \in SKUs \ reversed' : TablesInv(k)'
  PROVE  ConservedUnlessReversed'
<1>1. ASSUME NEW k \in SKUs
      PROVE  stock'[k].available + stock'[k].reserved = InitStock[k]
  BY <1>1 DEF ClientsInv, ConservedUnlessReversed, Units
<1>2. ASSUME NEW k \in SKUs, k \notin reversed'
      PROVE  stock'[k].available >= 0 /\ stock'[k].reserved >= 0
  <2>1. UnitsInv(k)' /\ stock'[k].available >= 0 /\ Backed(k)'
    BY <1>2 DEF TablesInv
  <2>2. Cardinality(HeldUnits(k)') \in Nat
    BY <2>1, FS_CardinalityType DEF UnitsInv
  <2>3. stock'[k].reserved \in Int /\ stock'[k].reserved >= Cardinality(HeldUnits(k)')
    BY <2>1, SMT DEF InventoryTypeOK, Backed
  <2> QED
    BY <2>1, <2>2, <2>3, SMT
<1> QED
  BY <1>1, <1>2 DEF ConservedUnlessReversed

LEMMA ReserveTables ==
  ASSUME ClientsInv, ClientsTypeOK', NEW s \in Sagas, NEW n \in 1 .. NKeys,
         NEW k \in SKUs, NEW q \in Int, ReservesFor(s, n, k, q)
  PROVE  ConservedUnlessReversed' /\ \A j \in SKUs \ reversed' : TablesInv(j)'
<1>1. ReserveStock(s, Key(s, n), k, q) /\ InventoryTypeOK /\ InventoryTypeOK'
  BY DEF ReservesFor, ClientsInv, ClientsTypeOK
<1>2. /\ reversed \subseteq reversed'
      /\ Reverses(Key(s, n), k, q) => k \in reversed'
  BY DEF ReservesFor
<1>3. ASSUME NEW j \in SKUs \ reversed' PROVE TablesInv(j)'
  <2>1. TablesInv(j)
    BY <1>2 DEF ClientsInv
  <2>2. Units(j) = InitStock[j]
    BY DEF ClientsInv, ConservedUnlessReversed, Units
  <2>3. q < 0 \/ q \in Nat
    BY SMT
  <2>4. ~ Processed("inventory-reserve", Key(s, n)) /\ Reservable(k, q) => q \in Nat \/ j # k
    BY <1>2, <2>3 DEF Reverses
  <2> QED
    BY <1>1, <2>1, <2>2, <2>4, ReserveKeepsTables
<1>4. \A j \in SKUs : Units(j)' = Units(j)
  BY <1>1, ReserveMovesUnits
<1> QED
  BY <1>1, <1>2, <1>3, <1>4, CountersKept

LEMMA ReleaseTables ==
  ASSUME ClientsInv, ClientsTypeOK', NEW s \in Sagas, NEW c, NEW key, Release(s, c, key),
         UNCHANGED reversed
  PROVE  ConservedUnlessReversed' /\ \A j \in SKUs \ reversed' : TablesInv(j)'
<1>1. InventoryTypeOK /\ InventoryTypeOK'
  BY DEF ClientsInv, ClientsTypeOK
<1>2. \A j \in SKUs \ reversed' : TablesInv(j)'
  BY <1>1, ReleaseKeepsTables DEF ClientsInv
<1>3. \A j \in SKUs : Units(j)' = Units(j)
  BY <1>1, ReleaseMovesUnits
<1> QED
  BY <1>1, <1>2, <1>3, CountersKept

-----------------------------------------------------------------------------
(* The theorems.                                                           *)

(***************************************************************************)
(* Whatever calls and cancellations come, with whatever quantities and     *)
(* however often, the invariant stands: one outcome per key, answers that  *)
(* agree, units that are kept; and the rows of each SKU of which no        *)
(* negative quantity was reserved are backed.                              *)
(***************************************************************************)
THEOREM ClientsInvariance == ClientsSpec => []ClientsInv
<1>1. ASSUME ClientsInv, NEW s \in Sagas, NEW n \in 1 .. NKeys, Reserves(s, n)
      PROVE  ClientsInv'
  <2>1. PICK k \in SKUs, q \in Int : ReservesFor(s, n, k, q)
    BY <1>1, RequestPicked
  <2>2. Key(s, n) \in Event /\ Key(s, n).saga = s
    BY KeyIsEvent
  <2>3. ClientsTypeOK'
    BY <1>1, ReserveType DEF ClientsInv
  <2>4. IsFiniteSet(inventorySeen') /\ OneOutcomePerKey'
    BY <1>1, <2>1, <2>2, ReserveOutcome DEF ReservesFor
  <2>5. AnswersInv'
    BY <1>1, <2>1, ReserveAnswers DEF ReservesFor
  <2>6. ConservedUnlessReversed' /\ \A j \in SKUs \ reversed' : TablesInv(j)'
    BY <1>1, <2>1, <2>3, ReserveTables
  <2> QED
    BY <2>3, <2>4, <2>5, <2>6 DEF ClientsInv
<1>2. ASSUME ClientsInv, NEW s \in Sagas, NEW key \in Event, key.saga = s,
             NEW c \in {"inventory-release", "inventory-order-cancelled"},
             Release(s, c, key), UNCHANGED <<answers, reversed>>
      PROVE  ClientsInv'
  <2>1. ClientsTypeOK'
    BY <1>2, ReleaseType DEF ClientsInv, InventoryConsumer
  <2>2. IsFiniteSet(inventorySeen') /\ OneOutcomePerKey'
    BY <1>2, ReleaseOutcome
  <2>3. AnswersInv'
    BY <1>2, ReleaseAnswers
  <2>4. ConservedUnlessReversed' /\ \A j \in SKUs \ reversed' : TablesInv(j)'
    BY <1>2, <2>1, ReleaseTables
  <2> QED
    BY <2>1, <2>2, <2>3, <2>4 DEF ClientsInv
<1>3. ASSUME ClientsInv, NEW s \in Sagas, NEW n \in 1 .. NKeys, Releases(s, n)
      PROVE  ClientsInv'
  BY <1>2, <1>3, KeyIsEvent DEF Releases, ReleaseStock
<1>4. ASSUME ClientsInv, NEW e \in published, Cancels(e) PROVE ClientsInv'
  <2>1. e \in Event /\ e.saga \in Sagas
    BY <1>4 DEF ClientsInv, ClientsTypeOK, MessagingTypeOK, Event
  <2> QED
    BY <1>2, <1>4, <2>1 DEF Cancels, InventoryHandleOrderCancelled
<1>5. ASSUME ClientsInv, (\E s \in Sagas : OrderIsCancelled(s)) \/ UNCHANGED clientsVars
      PROVE  ClientsInv'
  <2>1. UNCHANGED <<emitted, stock, reservation, inventorySeen, answers, reversed>>
    BY <1>5 DEF OrderIsCancelled, clientsVars, messagingVars, inventoryVars
  <2>2. published' \subseteq Event
    BY <1>5, SMT DEF OrderIsCancelled, clientsVars, messagingVars, ClientsInv, ClientsTypeOK,
       MessagingTypeOK, Ev, Event, Topics
  <2>3. ClientsTypeOK'
    BY <1>5, <2>1, <2>2 DEF ClientsInv, ClientsTypeOK, MessagingTypeOK, InventoryTypeOK
  <2>4. OneOutcomePerKey'
    BY <1>5, <2>1 DEF ClientsInv, OneOutcomePerKey, ReserveMarkers
  <2>5. AnswersInv'
    BY <1>5, <2>1, SMT DEF ClientsInv, AnswersInv, Processed, Told, Key, Ev
  <2>6. ConservedUnlessReversed' /\ \A j \in SKUs \ reversed' : TablesInv(j)'
    BY <1>5, <2>1, TablesSame DEF ClientsInv, ConservedUnlessReversed
  <2> QED
    BY <1>5, <2>1, <2>3, <2>4, <2>5, <2>6 DEF ClientsInv
<1>6. ASSUME ClientsInv, [ClientsNext]_clientsVars PROVE ClientsInv'
  BY <1>1, <1>3, <1>4, <1>5, <1>6 DEF ClientsNext
<1> QED
  BY <1>6, ClientsInitInv, PTL DEF ClientsSpec

\* Every variable keeps its type.
THEOREM ClientsTypeCorrect == ClientsSpec => []ClientsTypeOK
<1>1. ClientsInv => ClientsTypeOK
  BY DEF ClientsInv
<1> QED
  BY <1>1, ClientsInvariance, PTL

(***************************************************************************)
(* No client makes units appear or disappear, whatever quantity it asks    *)
(* for; and none drives a counter of a SKU below zero, although a release  *)
(* subtracts from stock.reserved without looking at it, before a negative  *)
(* quantity of that SKU is reserved.                                       *)
(***************************************************************************)
THEOREM ClientsConserveStock == ClientsSpec => []ConservedUnlessReversed
<1>1. ClientsInv => ConservedUnlessReversed
  BY DEF ClientsInv
<1> QED
  BY <1>1, ClientsInvariance, PTL

(***************************************************************************)
(* Before a negative quantity of its SKU is reserved, a RESERVED row can   *)
(* always be released: its units are in stock.reserved, also after a       *)
(* second ReserveStock for the saga and after racing releases.             *)
(***************************************************************************)
THEOREM ReservationsBacked == ClientsSpec => []BackedUnlessReversed
<1>1. ClientsInv => BackedUnlessReversed
  BY DEF ClientsInv, TablesInv, BackedUnlessReversed
<1> QED
  BY <1>1, ClientsInvariance, PTL

\* FR-9 and FR-12: a marker and its outcome event commit together, once per
\* key, and a reservation is released once, whatever clients do.
THEOREM OneOutcome == ClientsSpec => []OneOutcomePerKey
<1>1. ClientsInv => OneOutcomePerKey
  BY DEF ClientsInv
<1> QED
  BY <1>1, ClientsInvariance, PTL

\* FR-12: a retried ReserveStock is answered as before, as long as its row is
\* the work of its key alone and has not been released.
THEOREM RetriesAnsweredAlike == ClientsSpec => []RetriesAgree
<1>1. ClientsInv => RetriesAgree
  <2> SUFFICES ASSUME ClientsInv, NEW s \in Sagas, NEW n \in 1 .. NKeys,
                      answers[s][n] \subseteq {Told(s)}
               PROVE  Cardinality(answers[s][n]) <= 1
    BY DEF ClientsInv, AnswersInv, RetriesAgree
  <2>1. IsFiniteSet({Told(s)}) /\ Cardinality({Told(s)}) = 1
    BY FS_Singleton
  <2> QED
    BY <2>1, FS_Subset, SMT
<1> QED
  BY <1>1, ClientsInvariance, PTL
=============================================================================
