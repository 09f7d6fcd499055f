------------------------- MODULE MCInventoryProcess -------------------------
(***************************************************************************)
(* A release that continues a caller's trace and a reservation without one *)
(* on a server with one worker, and three records of order.cancelled: one  *)
(* that is not JSON, and two cancellations as the Order service writes     *)
(* them, one of them without a trace.                                      *)
(***************************************************************************)
EXTENDS InventoryProcess, TLC

MCCalls == {"release", "reserve"}
MCRecordName == <<"garbage", "cancelled", "untraced">>

Caller(trace) == [trace |-> trace, span |-> "caller"]

MCIncoming ==
  "release" :> Caller("t1") @@ "reserve" :> NoContext @@
  "garbage" :> NoContext @@ "cancelled" :> Caller("t2") @@ "untraced" :> NoContext

Cancellation(name, key) ==
  ToJson(MakeEnvelope("OrderCancelled", "saga", "{}", MCIncoming[name], key))

MCBody ==
  <<[object |-> FALSE, fields |-> <<>>, illTyped |-> {}],
    Cancellation("cancelled", "key1"), Cancellation("untraced", "key2")>>

MCSpans == MCCalls \cup {"garbage", "cancelled", "untraced"}
MCThreads == {"worker", "consumer"}
=============================================================================
