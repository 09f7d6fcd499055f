CONSTANTS
  s1 = s1
  s2 = s2
  widget = widget
  poison = poison
  Sagas <- MCSagas
  SKUs <- MCSKUs
  PoisonSku = poison
  Seeded <- MCSKUs
  InitStock <- MCInitStock
  Quantities <- MCQuantities
  Amounts <- MCAmounts
  ForceFailure = FALSE
  Faults = {}
SPECIFICATION Spec
CHECK_DEADLOCK FALSE
INVARIANT CountedOnce
