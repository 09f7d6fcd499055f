--------------------------- MODULE MCOutboxRelay ---------------------------
(***************************************************************************)
(* Three rows, of which the first and the last are about the same order,   *)
(* drained two at a time.                                                  *)
(***************************************************************************)
EXTENDS OutboxRelay

MCAggregate == [r \in Rows |-> IF r = 2 THEN "orderB" ELSE "orderA"]

\* What each producer is said to survive, and what the C++ one does not.
Survived ==
  [k \in Producers |->
     {"refusal", "database", "crash"} \cup {IF k = "report" THEN "delivery" ELSE "timeout"}]

DeliveryFails == [k \in Producers |-> {"delivery"}]

NothingFails == [k \in Producers |-> {}]
=============================================================================
