---------------------------- MODULE OrderDomain ----------------------------
(***************************************************************************)
(* The Order aggregate's saga state machine, services/order/internal/      *)
(* domain/order.go: a pure function from a status and a trigger to a       *)
(* result and an error.                                                    *)
(***************************************************************************)

\* The order statuses of the source.
Status == {"PENDING", "PAYMENT_OK", "CONFIRMED", "COMPENSATING", "CANCELLED"}

\* The saga events the Order service reacts to.
Trigger == {"PaymentProcessed", "PaymentFailed", "InventoryReserved",
            "InventoryReservationFailed", "PaymentRefunded"}

IsTerminal(status) == status \in {"CONFIRMED", "CANCELLED"}

(***************************************************************************)
(* What Apply returns: the Result struct (next, changed, emit) together    *)
(* with the error.  Emit is either empty or the single OrderCancelled      *)
(* event, so it is a Boolean here.                                         *)
(***************************************************************************)
Result == [next : Status, changed : BOOLEAN, emit : BOOLEAN,
           err : {"none", "premature", "invalid"}]

Advance(next) ==
  [next |-> next, changed |-> TRUE, emit |-> FALSE, err |-> "none"]

\* Mutation: the status is misspelt.
CancelMisspelt ==
  [next |-> "CANCELED", changed |-> TRUE, emit |-> TRUE, err |-> "none"]

Cancel ==
  [next |-> "CANCELLED", changed |-> TRUE, emit |-> TRUE, err |-> "none"]

Ignore(cur) ==
  [next |-> cur, changed |-> FALSE, emit |-> FALSE, err |-> "none"]

Premature(cur) ==
  [next |-> cur, changed |-> FALSE, emit |-> FALSE, err |-> "premature"]

Invalid(cur) ==
  [next |-> cur, changed |-> FALSE, emit |-> FALSE, err |-> "invalid"]

\* Mutations: an early event is rejected, or accepted without effect.
ApplyPendingRejects(t) ==
  CASE t = "PaymentProcessed"                                  -> Advance("PAYMENT_OK")
    [] t \in {"PaymentFailed", "InventoryReservationFailed"}   -> Cancel
    [] OTHER                                                   -> Invalid("PENDING")

ApplyPendingIgnores(t) ==
  CASE t = "PaymentProcessed"                                  -> Advance("PAYMENT_OK")
    [] t \in {"PaymentFailed", "InventoryReservationFailed"}   -> Cancel
    [] OTHER                                                   -> Ignore("PENDING")

ApplyPending(t) ==
  CASE t = "PaymentProcessed"                                  -> Advance("PAYMENT_OK")
    [] t \in {"PaymentFailed", "InventoryReservationFailed"}   -> Cancel
    [] t \in {"InventoryReserved", "PaymentRefunded"}          -> Premature("PENDING")

\* Mutation: the two outcomes of the reservation are swapped.
ApplyPaymentOKSwapped(t) ==
  CASE t = "InventoryReserved"          -> Advance("COMPENSATING")
    [] t = "InventoryReservationFailed" -> Advance("CONFIRMED")
    [] t = "PaymentProcessed"           -> Ignore("PAYMENT_OK")
    [] t = "PaymentRefunded"            -> Premature("PAYMENT_OK")
    [] OTHER                            -> Invalid("PAYMENT_OK")

ApplyPaymentOK(t) ==
  CASE t = "InventoryReserved"          -> Advance("CONFIRMED")
    [] t = "InventoryReservationFailed" -> Advance("COMPENSATING")
    [] t = "PaymentProcessed"           -> Ignore("PAYMENT_OK")
    [] t = "PaymentRefunded"            -> Premature("PAYMENT_OK")
    [] OTHER                            -> Invalid("PAYMENT_OK")

\* Mutation: the refund does not complete the compensation.
ApplyCompensatingIgnores(t) == Ignore("COMPENSATING")

ApplyCompensating(t) ==
  CASE t = "PaymentRefunded"            -> Cancel
    [] t = "InventoryReservationFailed" -> Ignore("COMPENSATING")
    [] OTHER                            -> Invalid("COMPENSATING")

\* Mutation: a cancelled order still reacts to late events.
ApplyRevives(cur, t) ==
  CASE cur \in {"PENDING", "CANCELLED"} -> ApplyPending(t)
    [] cur = "PAYMENT_OK"               -> ApplyPaymentOK(t)
    [] cur = "COMPENSATING"             -> ApplyCompensating(t)
    [] OTHER                            -> Ignore(cur)

Apply(cur, t) ==
  CASE cur = "PENDING"      -> ApplyPending(t)
    [] cur = "PAYMENT_OK"   -> ApplyPaymentOK(t)
    [] cur = "COMPENSATING" -> ApplyCompensating(t)
    [] OTHER                -> Ignore(cur)
=============================================================================
