------------------------- MODULE MCChoreographySaga -------------------------
(***************************************************************************)
(* Two orders for two units each of a SKU with three, so that one of them  *)
(* may find too little, or for the poison SKU.  A quantity of 0 is invalid *)
(* and an amount of 66.06 makes the charge fail.                           *)
(***************************************************************************)
EXTENDS ChoreographySaga, TLC

CONSTANTS s1, s2, widget, poison

MCSagas == {s1, s2}
MCSKUs == {widget, poison}
MCInitStock == (widget :> 3) @@ (poison :> 0)
MCQuantities == {0, 2}
MCAmounts == {10000, 66060}
=============================================================================
