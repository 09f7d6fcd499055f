-------------------------- MODULE MCKafkaConsumer --------------------------
(***************************************************************************)
(* Two topics of two records.  For the Order service the reservations of   *)
(* two orders are premature until their charges, which were published in   *)
(* the opposite order, have been applied.                                  *)
(***************************************************************************)
EXTENDS KafkaConsumer

MCTopic == {"payment.processed", "inventory.reserved"}

NeedsPayment ==
  [r \in Record |-> IF r[1] = "inventory.reserved"
                      THEN {<<"payment.processed", NRecords - 1 - r[2]>>} ELSE {}]

\* What each loop survives.
Survived ==
  [k \in Kinds |-> {"crash", "stop", IF k = "go" THEN "handler" ELSE "commit"}]

HandlerThrows == [k \in Kinds |-> {"handler"}]

CommitRefused == [k \in Kinds |-> {"commit"}]

StopOnly == [k \in Kinds |-> {"stop"}]
=============================================================================
