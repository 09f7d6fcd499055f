-------------------------- MODULE InventoryClients --------------------------
(***************************************************************************)
(* The Inventory service with arbitrary clients: any sequence of           *)
(* ReserveStock and ReleaseStock calls, retried or repeated under a new    *)
(* key, mixed with order.cancelled events that may come before, between or *)
(* after them.  Quantities are any integers: the gRPC handler passes on    *)
(* what it gets, and only the Order service validates the quantities of    *)
(* the saga, which uses only a part of this interface.                     *)
(***************************************************************************)
EXTENDS InventoryService

CONSTANTS NKeys,        \* idempotency keys a client may use for one saga
          Requests      \* what a client may ask for

ASSUME ClientsAssumption ==
  /\ NKeys \in Nat
  /\ Requests \subseteq [sku : SKUs, quantity : Int]

\* Two histories, which no step looks at.
VARIABLES answers,      \* answers[s][n]: what callers with key n of saga s were told
          reversed      \* the SKUs of which a negative quantity has been reserved

clientsVars == <<messagingVars, inventoryVars, answers, reversed>>

ClientsTypeOK ==
  /\ MessagingTypeOK
  /\ InventoryTypeOK
  /\ answers \in [Sagas -> [1 .. NKeys -> SUBSET {"RESERVED", "INSUFFICIENT_STOCK"}]]
  /\ reversed \subseteq SKUs

ClientsInit ==
  /\ MessagingInit
  /\ InventoryInit
  /\ answers = [s \in Sagas |-> [n \in 1 .. NKeys |-> {}]]
  /\ reversed = {}

Key(s, n) == Ev("order.created", s, n)

\* The request moves stock of k backwards: available < quantity does not hold.
Reverses(key, k, q) == ~ Processed("inventory-reserve", key) /\ Reservable(k, q) /\ q < 0

\* ReserveStock for saga s under its n-th key.
ReservesFor(s, n, k, q) ==
  /\ ReserveStock(s, Key(s, n), k, q)
  /\ answers' = [answers EXCEPT ![s][n] = @ \cup {ReserveAnswer(s, Key(s, n), k, q)}]
  /\ reversed' = IF Reverses(Key(s, n), k, q) THEN reversed \cup {k} ELSE reversed

Reserves(s, n) == \E r \in Requests : ReservesFor(s, n, r.sku, r.quantity)

Releases(s, n) == ReleaseStock(s, Key(s, n)) /\ UNCHANGED <<answers, reversed>>

Cancels(e) == InventoryHandleOrderCancelled(e) /\ UNCHANGED <<answers, reversed>>

\* The Order service publishes a cancellation.
OrderIsCancelled(s) ==
  /\ published' = published \cup {Ev("order.cancelled", s, 1)}
  /\ UNCHANGED <<emitted, inventoryVars, answers, reversed>>

ClientsNext ==
  \/ \E s \in Sagas, n \in 1 .. NKeys : Reserves(s, n) \/ Releases(s, n)
  \/ \E s \in Sagas : OrderIsCancelled(s)
  \/ \E e \in published : Cancels(e)

ClientsSpec == ClientsInit /\ [][ClientsNext]_clientsVars

-----------------------------------------------------------------------------
(* Properties.                                                             *)

(***************************************************************************)
(* Units are neither created nor lost, whatever the clients ask for; and   *)
(* no counter of a SKU goes below zero as long as no negative quantity of  *)
(* that SKU has been reserved.  Database::reserve accepts those, since it  *)
(* tests available < quantity only, and then both counters may go below    *)
(* zero.  Nothing done to one SKU harms another.                           *)
(***************************************************************************)
ConservedUnlessReversed ==
  \A k \in SKUs :
    /\ stock[k].available + stock[k].reserved = InitStock[k]
    /\ k \notin reversed => stock[k].available >= 0 /\ stock[k].reserved >= 0

(***************************************************************************)
(* Releasing a RESERVED row never takes more out of stock.reserved than    *)
(* there is, also when a saga reserves twice and keeps its first row, and  *)
(* when two cancellations race; again unless a negative quantity of the    *)
(* SKU has been reserved.                                                  *)
(***************************************************************************)
BackedUnlessReversed == \A k \in SKUs \ reversed : Backed(k)

\* The ReserveStock keys of saga s in processed_messages.
ReserveMarkers(s) == {m \in inventorySeen : m[1] = "inventory-reserve" /\ m[2].saga = s}

(***************************************************************************)
(* Markers and events go together (FR-9, FR-12): every ReserveStock key in *)
(* processed_messages has exactly one outcome event in the outbox, and     *)
(* however many calls and events ask for it a reservation is released, and *)
(* InventoryReleased emitted, at most once.                                *)
(***************************************************************************)
OneOutcomePerKey ==
  \A s \in Sagas :
    /\ emitted[s]["inventory.reserved"] + emitted[s]["inventory.reservation_failed"] =
         Cardinality(ReserveMarkers(s))
    /\ emitted[s]["inventory.released"] =
         IF reservation[s].status = "RELEASED" THEN 1 ELSE 0

(***************************************************************************)
(* "Processing the same message more than once produces the same result"   *)
(* (FR-12).  A retry of ReserveStock is answered from the row of the saga, *)
(* not from a stored outcome, and yet agrees with the first answer, in     *)
(* whatever way the stock has moved in between, as long as the row is the  *)
(* work of that key alone: the saga used no other key and the row has not  *)
(* been released.                                                          *)
(***************************************************************************)
RetriesAgree ==
  \A s \in Sagas, n \in 1 .. NKeys :
    \/ Cardinality(answers[s][n]) <= 1
    \/ reservation[s].status = "RELEASED"
    \/ \E m \in (1 .. NKeys) \ {n} : answers[s][m] # {}

-----------------------------------------------------------------------------
(* The inductive invariant; AnswersInv is what RetriesAgree needs.         *)

\* What the row of saga s makes a repeated request be answered.
Told(s) == IF reservation[s].status = "RESERVED" THEN "RESERVED" ELSE "INSUFFICIENT_STOCK"

AnswersInv ==
  \A s \in Sagas :
    /\ (\A n \in 1 .. NKeys : answers[s][n] = {}) => reservation[s].status = "NONE"
    /\ \A n \in 1 .. NKeys :
         /\ answers[s][n] # {} <=> Processed("inventory-reserve", Key(s, n))
         /\ \/ answers[s][n] \subseteq {Told(s)}
            \/ reservation[s].status = "RELEASED"
            \/ \E m \in (1 .. NKeys) \ {n} : answers[s][m] # {}

ClientsInv ==
  /\ ClientsTypeOK
  /\ ConservedUnlessReversed
  /\ \A k \in SKUs \ reversed : TablesInv(k)
  /\ IsFiniteSet(inventorySeen)
  /\ OneOutcomePerKey
  /\ AnswersInv
=============================================================================
