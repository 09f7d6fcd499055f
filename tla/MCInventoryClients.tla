------------------------- MODULE MCInventoryClients -------------------------
(***************************************************************************)
(* Two sagas with two keys each compete for three units of one SKU, and    *)
(* also ask for the poison SKU and for one that has no row.                *)
(***************************************************************************)
EXTENDS InventoryClients, TLC

CONSTANTS s1, s2, widget, poison, unknown

MCSagas == {s1, s2}
MCSeeded == {widget, poison}
MCSKUs == MCSeeded \cup {unknown}
MCInitStock == widget :> 3 @@ poison :> 0 @@ unknown :> 0

\* Of the widget: what can be had once but not twice, nothing, or a negative
\* quantity.  A negative quantity of the other two tells them apart.
MCRequests == [sku : {widget}, quantity : {-1, 0, 2}]
              \cup [sku : {poison, unknown}, quantity : {-1}]

Symmetry == Permutations(MCSagas)
=============================================================================
