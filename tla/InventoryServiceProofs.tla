----------------------- MODULE InventoryServiceProofs -----------------------
(***************************************************************************)
(* The transactions of the Inventory service and the units they move: what *)
(* Database::reserve and Database::release do to the two tables, whoever   *)
(* calls them.  The proofs about the saga and about arbitrary clients rest *)
(* on these lemmas.                                                        *)
(***************************************************************************)
EXTENDS InventoryService, FiniteSetTheorems, TLAPS

USE InventoryAssumption

\* A row for q units has q of them.
LEMMA UnitsOfRow ==
  ASSUME NEW s, NEW q \in Nat
  PROVE  /\ IsFiniteSet({s} \X (1 .. q))
         /\ Cardinality({s} \X (1 .. q)) = q
<1>1. IsFiniteSet({s}) /\ Cardinality({s}) = 1
  BY FS_Singleton, Zenon
<1>2. /\ IsFiniteSet(1 .. q)
      /\ Cardinality(1 .. q) = IF 1 > q THEN 0 ELSE q - 1 + 1
  BY 1 \in Int, q \in Int, FS_Interval
<1>3. /\ IsFiniteSet({s} \X (1 .. q))
      /\ Cardinality({s} \X (1 .. q)) = Cardinality({s}) * Cardinality(1 .. q)
  BY <1>1, <1>2, FS_Product
<1> QED
  BY <1>1, <1>2, <1>3

\* Counting a set with another one added to it, or taken out of it.
LEMMA CountAdded ==
  ASSUME NEW S, NEW T, IsFiniteSet(S), IsFiniteSet(T), S \cap T = {}
  PROVE  /\ IsFiniteSet(S \cup T)
         /\ Cardinality(S \cup T) = Cardinality(S) + Cardinality(T)
<1>1. Cardinality(S \cap T) = 0
  BY FS_EmptySet
<1>2. Cardinality(S) \in Nat /\ Cardinality(T) \in Nat
  BY FS_CardinalityType
<1> QED
  BY <1>1, <1>2, FS_Union

LEMMA CountTaken ==
  ASSUME NEW S, NEW T, IsFiniteSet(S), T \subseteq S
  PROVE  /\ IsFiniteSet(S \ T)
         /\ Cardinality(S \ T) = Cardinality(S) - Cardinality(T)
<1>1. S \cap T = T
  OBVIOUS
<1> QED
  BY <1>1, FS_Difference, Zenon

\* What is said of the rows of a SKU does not depend on those of others.
LEMMA OtherRows ==
  ASSUME NEW s \in Sagas, NEW j \in SKUs,
         \A r \in Sagas \ {s} : reservation'[r] = reservation[r],
         s \notin Held(j), s \notin Held(j)'
  PROVE  HeldUnits(j)' = HeldUnits(j) /\ (UnitsInv(j) => UnitsInv(j)')
<1>1. Held(j)' = Held(j)
  BY DEF Held
<1>2. \A r \in Held(j) : reservation'[r] = reservation[r] /\ RowUnits(r)' = RowUnits(r)
  BY DEF Held, RowUnits
<1>3. HeldUnits(j)' = HeldUnits(j)
  BY <1>1, <1>2 DEF HeldUnits
<1> QED
  BY <1>1, <1>2, <1>3 DEF UnitsInv

\* A row that is inserted adds its units to those of its SKU.
LEMMA RowInserted ==
  ASSUME InventoryTypeOK, NEW s \in Sagas, NEW k \in SKUs, NEW q \in Nat, UnitsInv(k),
         reservation[s].status = "NONE",
         reservation' = [reservation EXCEPT ![s] = ReservedRow(k, q)]
  PROVE  UnitsInv(k)' /\ Cardinality(HeldUnits(k))' = Cardinality(HeldUnits(k)) + q
<1>1. /\ reservation'[s] = ReservedRow(k, q)
      /\ \A r \in Sagas \ {s} : reservation'[r] = reservation[r]
  BY DEF InventoryTypeOK
<1>2. Held(k)' = Held(k) \cup {s} /\ s \notin Held(k)
  BY <1>1 DEF Held, ReservedRow
<1>3. \A r \in Sagas \ {s} : RowUnits(r)' = RowUnits(r)
  BY <1>1 DEF RowUnits
<1>4. \A r \in Held(k)' : reservation'[r].quantity \in Nat
  BY <1>1, <1>2 DEF UnitsInv, ReservedRow, Held
<1>5. IsFiniteSet(RowUnits(s))' /\ Cardinality(RowUnits(s))' = q
  <2>1. RowUnits(s)' = {s} \X (1 .. q)
    BY <1>1 DEF ReservedRow, RowUnits
  <2>2. IsFiniteSet({s} \X (1 .. q)) /\ Cardinality({s} \X (1 .. q)) = q
    BY UnitsOfRow, Zenon
  <2> QED
    BY <2>1, <2>2
<1>6. HeldUnits(k)' = HeldUnits(k) \cup RowUnits(s)'
  BY <1>2, <1>3 DEF HeldUnits, Held
<1>7. HeldUnits(k) \cap RowUnits(s)' = {}
  BY <1>2 DEF HeldUnits, Held, RowUnits
<1>8. IsFiniteSet(HeldUnits(k))
  BY DEF UnitsInv
<1>9. /\ IsFiniteSet(HeldUnits(k))'
      /\ Cardinality(HeldUnits(k))' = Cardinality(HeldUnits(k)) + q
  BY <1>5, <1>6, <1>7, <1>8, CountAdded
<1> QED
  BY <1>4, <1>9 DEF UnitsInv

\* A row that is released takes its units away from those of its SKU.
LEMMA RowReleased ==
  ASSUME InventoryTypeOK, NEW s \in Sagas, NEW k \in SKUs, NEW q \in Nat, UnitsInv(k),
         reservation[s] = ReservedRow(k, q),
         reservation' = [reservation EXCEPT ![s].status = "RELEASED"]
  PROVE  UnitsInv(k)' /\ Cardinality(HeldUnits(k))' = Cardinality(HeldUnits(k)) - q
<1>1. /\ reservation'[s] = [reservation[s] EXCEPT !.status = "RELEASED"]
      /\ \A r \in Sagas \ {s} : reservation'[r] = reservation[r]
  BY DEF InventoryTypeOK
<1>2. reservation'[s].status = "RELEASED" /\ reservation'[s].quantity = reservation[s].quantity
  BY <1>1 DEF ReservedRow
<1>3. Held(k)' = Held(k) \ {s} /\ s \in Held(k)
  BY <1>1, <1>2 DEF Held, ReservedRow
<1>4. /\ \A r \in Sagas : RowUnits(r)' = RowUnits(r)
      /\ \A r \in Held(k)' : reservation'[r].quantity \in Nat
  BY <1>1, <1>2, <1>3 DEF RowUnits, UnitsInv, Held
<1>5. IsFiniteSet(RowUnits(s)) /\ Cardinality(RowUnits(s)) = q
  <2>1. RowUnits(s) = {s} \X (1 .. q)
    BY DEF ReservedRow, RowUnits
  <2>2. IsFiniteSet({s} \X (1 .. q)) /\ Cardinality({s} \X (1 .. q)) = q
    BY UnitsOfRow, Zenon
  <2> QED
    BY <2>1, <2>2
<1>6. HeldUnits(k)' = HeldUnits(k) \ RowUnits(s) /\ RowUnits(s) \subseteq HeldUnits(k)
  <2>1. \A r \in Sagas \ {s} : RowUnits(r) \cap RowUnits(s) = {}
    BY DEF RowUnits
  <2> QED
    BY <1>3, <1>4, <2>1 DEF HeldUnits, Held
<1>7. IsFiniteSet(HeldUnits(k))
  BY DEF UnitsInv
<1>8. /\ IsFiniteSet(HeldUnits(k))'
      /\ Cardinality(HeldUnits(k))' = Cardinality(HeldUnits(k)) - q
  BY <1>5, <1>6, <1>7, CountTaken
<1> QED
  BY <1>4, <1>8 DEF UnitsInv

-----------------------------------------------------------------------------
(* The transactions.                                                       *)

\* The seeded tables satisfy the invariant, and no unit is reserved.
LEMMA TablesInitInv ==
  InventoryInit => StockConserved /\ StockAccounted /\ \A k \in SKUs : TablesInv(k)
<1> SUFFICES ASSUME InventoryInit
             PROVE  StockConserved /\ StockAccounted /\ \A k \in SKUs : TablesInv(k)
  OBVIOUS
<1>1. \A k \in SKUs : Held(k) = {} /\ HeldUnits(k) = {}
  BY DEF InventoryInit, HeldUnits, Held
<1>2. \A k \in SKUs : IsFiniteSet(HeldUnits(k)) /\ Cardinality(HeldUnits(k)) = 0
  BY <1>1, FS_EmptySet
<1>3. \A k \in SKUs : /\ stock[k].available = InitStock[k] /\ stock[k].reserved = 0
                      /\ InitStock[k] \in Nat
  BY DEF InventoryInit
<1> QED
  BY <1>1, <1>2, <1>3 DEF TablesInv, UnitsInv, StockConserved, Backed, StockAccounted

\* Nothing is said of the tables while they stay as they are.
LEMMA TablesSame ==
  ASSUME UNCHANGED <<stock, reservation>>
  PROVE  /\ \A k \in SKUs : UnitsInv(k) => UnitsInv(k)'
         /\ \A k \in SKUs : TablesInv(k) => TablesInv(k)'
         /\ StockAccounted => StockAccounted'
BY DEF TablesInv, UnitsInv, Backed, StockAccounted, HeldUnits, Held, RowUnits

\* What moving units does to the two counters of a SKU.
LEMMA StockMoved ==
  ASSUME InventoryTypeOK, NEW k \in SKUs, NEW q \in Int
  PROVE  /\ k \in Seeded => /\ MoveStock(k, q)[k].available = stock[k].available - q
                            /\ MoveStock(k, q)[k].reserved = stock[k].reserved + q
         /\ k \notin Seeded => MoveStock(k, q)[k] = stock[k]
         /\ \A j \in SKUs \ {k} : MoveStock(k, q)[j] = stock[j]
         /\ \A j \in SKUs : stock[j].available \in Int /\ stock[j].reserved \in Int
BY DEF InventoryTypeOK, MoveStock

\* The units of a SKU are available or reserved, before and after a move.
Units(k) == stock[k].available + stock[k].reserved

LEMMA ReserveMovesUnits ==
  ASSUME InventoryTypeOK, NEW s \in Sagas, NEW key, NEW k \in SKUs, NEW q \in Int,
         ReserveStock(s, key, k, q)
  PROVE  \A j \in SKUs : Units(j)' = Units(j)
<1>1. stock' = stock \/ stock' = MoveStock(k, q)
  BY DEF ReserveStock
<1> QED
  BY <1>1, StockMoved DEF Units

LEMMA ReleaseMovesUnits ==
  ASSUME InventoryTypeOK, NEW s \in Sagas, NEW consumer, NEW key, Release(s, consumer, key)
  PROVE  \A j \in SKUs : Units(j)' = Units(j)
<1>1. PICK k \in SKUs, q \in Int : stock' = stock \/ stock' = MoveStock(k, q)
  <2>1. reservation[s].sku \in SKUs /\ - reservation[s].quantity \in Int
    BY DEF InventoryTypeOK
  <2>2. stock' = stock \/ stock' = MoveStock(reservation[s].sku, - reservation[s].quantity)
    BY DEF Release
  <2> QED
    BY <2>1, <2>2
<1> QED
  BY <1>1, StockMoved DEF Units

(***************************************************************************)
(* ReserveStock keeps the tables in order for SKU j, also when the saga    *)
(* has a row, unless it grants a negative quantity of j.                   *)
(***************************************************************************)
LEMMA ReserveKeepsTables ==
  ASSUME InventoryTypeOK, NEW s \in Sagas, NEW key, NEW k \in SKUs, NEW q \in Int,
         ReserveStock(s, key, k, q),
         NEW j \in SKUs, TablesInv(j), Units(j) = InitStock[j],
         ~ Processed("inventory-reserve", key) /\ Reservable(k, q) => q \in Nat \/ j # k
  PROVE  TablesInv(j)'
<1>1. CASE UNCHANGED <<stock, reservation>>
  BY <1>1, TablesSame
<1>2. CASE /\ ~ Processed("inventory-reserve", key) /\ Reservable(k, q)
           /\ stock' = MoveStock(k, q)
           /\ reservation' = [reservation EXCEPT ![s] =
                IF @.status = "NONE" THEN ReservedRow(k, q) ELSE @]
  <2>1. UnitsInv(j) /\ stock[j].available >= 0 /\ Backed(j)
    BY DEF TablesInv
  <2>2. /\ k \in Seeded => /\ stock'[k].available = stock[k].available - q
                           /\ stock'[k].reserved = stock[k].reserved + q
        /\ k \notin Seeded => stock'[k] = stock[k]
        /\ \A i \in SKUs \ {k} : stock'[i] = stock[i]
        /\ \A i \in SKUs : stock[i].available \in Int /\ stock[i].reserved \in Int
    BY <1>2, StockMoved
  <2>3. Cardinality(HeldUnits(j)) \in Nat
    BY <2>1, FS_CardinalityType DEF UnitsInv
  <2>4. CASE j # k
    <3>1. UnitsInv(j)' /\ HeldUnits(j)' = HeldUnits(j)
      <4>1. CASE reservation[s].status = "NONE"
        <5>1. /\ \A r \in Sagas \ {s} : reservation'[r] = reservation[r]
              /\ reservation'[s] = ReservedRow(k, q)
          BY <1>2, <4>1 DEF InventoryTypeOK
        <5>2. s \notin Held(j) /\ s \notin Held(j)'
          BY <2>4, <4>1, <5>1 DEF Held, ReservedRow
        <5> QED
          BY <2>1, <5>1, <5>2, OtherRows, Zenon
      <4>2. CASE reservation[s].status # "NONE"
        <5>1. reservation' = reservation
          BY <1>2, <4>2 DEF InventoryTypeOK
        <5> QED
          BY <2>1, <5>1 DEF UnitsInv, HeldUnits, Held, RowUnits
      <4> QED
        BY <4>1, <4>2
    <3> QED
      BY <2>1, <2>2, <2>4, <3>1 DEF TablesInv, Backed
  <2>5. CASE j = k
    <3>1. q \in Nat
      BY <1>2, <2>5
    <3>2. stock[k].available >= q
      BY <1>2 DEF Reservable
    <3>3. k \notin Seeded => q = 0
      BY <2>1, <2>2, <2>3, <2>5, <3>1, <3>2 DEF Units, Backed
    <3>4. /\ stock'[k].available = stock[k].available - q
          /\ stock'[k].reserved = stock[k].reserved + q
      BY <2>2, <3>3
    <3>5. /\ UnitsInv(k)'
          /\ \/ Cardinality(HeldUnits(k))' = Cardinality(HeldUnits(k)) + q
             \/ Cardinality(HeldUnits(k))' = Cardinality(HeldUnits(k))
      <4>1. CASE reservation[s].status = "NONE"
        <5>1. reservation' = [reservation EXCEPT ![s] = ReservedRow(k, q)]
          BY <1>2, <4>1
        <5> QED
          BY <2>1, <2>5, <3>1, <4>1, <5>1, RowInserted, Zenon
      <4>2. CASE reservation[s].status # "NONE"
        <5>1. reservation' = reservation
          BY <1>2, <4>2 DEF InventoryTypeOK
        <5> QED
          BY <2>1, <2>5, <5>1 DEF UnitsInv, HeldUnits, Held, RowUnits
      <4> QED
        BY <4>1, <4>2
    <3> QED
      BY <2>1, <2>2, <2>3, <2>5, <3>1, <3>2, <3>4, <3>5 DEF TablesInv, Backed
  <2> QED
    BY <2>4, <2>5
<1> QED
  BY <1>1, <1>2 DEF ReserveStock

\* A release, by ReleaseStock or by a cancellation, always does.
LEMMA ReleaseKeepsTables ==
  ASSUME InventoryTypeOK, NEW s \in Sagas, NEW consumer, NEW key, Release(s, consumer, key),
         NEW j \in SKUs, TablesInv(j)
  PROVE  TablesInv(j)'
<1>1. CASE UNCHANGED <<stock, reservation>>
  BY <1>1, TablesSame
<1>2. CASE /\ Releasable(s)
           /\ reservation' = [reservation EXCEPT ![s].status = "RELEASED"]
           /\ stock' = MoveStock(reservation[s].sku, - reservation[s].quantity)
  <2>1. UnitsInv(j) /\ stock[j].available >= 0 /\ Backed(j)
    BY DEF TablesInv
  <2>2. PICK k \in SKUs, q \in Int : reservation[s] = ReservedRow(k, q)
    <3>1. reservation[s].sku \in SKUs /\ reservation[s].quantity \in Int
      BY DEF InventoryTypeOK
    <3>2. reservation[s] = ReservedRow(reservation[s].sku, reservation[s].quantity)
      BY <1>2 DEF InventoryTypeOK, Releasable, ReservedRow
    <3> QED
      BY <3>1, <3>2
  <2>3. PICK m \in Int : m = - q
    OBVIOUS
  <2>4. /\ stock' = MoveStock(k, m)
        /\ reservation' = [reservation EXCEPT ![s].status = "RELEASED"]
    BY <1>2, <2>2, <2>3 DEF ReservedRow
  <2>5. /\ k \in Seeded => /\ stock'[k].available = stock[k].available - m
                           /\ stock'[k].reserved = stock[k].reserved + m
        /\ k \notin Seeded => stock'[k] = stock[k]
        /\ \A i \in SKUs \ {k} : stock'[i] = stock[i]
        /\ \A i \in SKUs : stock[i].available \in Int /\ stock[i].reserved \in Int
    BY <2>4, StockMoved
  <2>6. CASE j # k
    <3>1. /\ \A r \in Sagas \ {s} : reservation'[r] = reservation[r]
          /\ reservation'[s].status = "RELEASED"
      BY <2>4 DEF InventoryTypeOK
    <3>2. s \notin Held(j) /\ s \notin Held(j)'
      BY <2>2, <2>6, <3>1 DEF Held, ReservedRow
    <3>3. UnitsInv(j)' /\ HeldUnits(j)' = HeldUnits(j)
      BY <2>1, <3>1, <3>2, OtherRows, Zenon
    <3> QED
      BY <2>1, <2>5, <2>6, <3>3 DEF TablesInv, Backed
  <2>7. CASE j = k
    <3>1. q \in Nat
      BY <2>1, <2>2, <2>7 DEF UnitsInv, Held, ReservedRow
    <3>2. UnitsInv(k)' /\ Cardinality(HeldUnits(k))' = Cardinality(HeldUnits(k)) - q
      BY <2>1, <2>2, <2>4, <2>7, <3>1, RowReleased, Zenon
    <3>3. Cardinality(HeldUnits(k)) \in Nat
      BY <2>1, <2>7, FS_CardinalityType DEF UnitsInv
    <3> QED
      BY <2>1, <2>3, <2>5, <2>7, <3>1, <3>2, <3>3 DEF TablesInv, Backed
  <2> QED
    BY <2>6, <2>7
<1> QED
  BY <1>1, <1>2 DEF Release

\* A saga's first ReserveStock keeps the two tables in agreement.
LEMMA ReserveAccounts ==
  ASSUME InventoryTypeOK, StockConserved, StockAccounted, \A j \in SKUs : UnitsInv(j),
         NEW s \in Sagas, NEW key, NEW k \in SKUs, NEW q \in Nat,
         reservation[s].status = "NONE", ReserveStock(s, key, k, q)
  PROVE  StockAccounted' /\ \A j \in SKUs : UnitsInv(j)'
<1>1. CASE UNCHANGED <<stock, reservation>>
  BY <1>1, TablesSame
<1>2. CASE /\ Reservable(k, q) /\ stock' = MoveStock(k, q)
           /\ reservation' = [reservation EXCEPT ![s] =
                IF @.status = "NONE" THEN ReservedRow(k, q) ELSE @]
  <2>1. reservation' = [reservation EXCEPT ![s] = ReservedRow(k, q)]
    BY <1>2
  <2>2. UnitsInv(k)' /\ Cardinality(HeldUnits(k))' = Cardinality(HeldUnits(k)) + q
    BY <2>1, RowInserted, Zenon
  <2>3. ASSUME NEW j \in SKUs, j # k
        PROVE  HeldUnits(j)' = HeldUnits(j) /\ UnitsInv(j)'
    <3>1. /\ \A r \in Sagas \ {s} : reservation'[r] = reservation[r]
          /\ reservation'[s] = ReservedRow(k, q)
      BY <2>1 DEF InventoryTypeOK
    <3>2. s \notin Held(j) /\ s \notin Held(j)'
      BY <2>3, <3>1 DEF Held, ReservedRow
    <3> QED
      BY <3>1, <3>2, OtherRows, Zenon
  <2>4. /\ k \in Seeded => stock'[k].reserved = stock[k].reserved + q
        /\ k \notin Seeded => stock'[k] = stock[k]
        /\ \A j \in SKUs \ {k} : stock'[j] = stock[j]
        /\ stock[k].available \in Int /\ stock[k].reserved \in Int
    BY <1>2, StockMoved
  <2>5. k \notin Seeded => q = 0
    BY <1>2, <2>4 DEF StockConserved, Reservable
  <2>6. stock'[k].reserved = stock[k].reserved + q
    BY <2>4, <2>5
  <2> QED
    BY <2>2, <2>3, <2>4, <2>6 DEF StockAccounted
<1> QED
  BY <1>1, <1>2 DEF ReserveStock
=============================================================================
