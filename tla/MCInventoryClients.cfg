CONSTANTS
  s1 = s1
  s2 = s2
  widget = widget
  poison = poison
  unknown = unknown
  Sagas <- MCSagas
  SKUs <- MCSKUs
  PoisonSku = poison
  Seeded <- MCSeeded
  InitStock <- MCInitStock
  NKeys = 2
  Requests <- MCRequests
SPECIFICATION ClientsSpec
SYMMETRY Symmetry
CHECK_DEADLOCK FALSE
INVARIANTS
  ClientsTypeOK
  ConservedUnlessReversed
  BackedUnlessReversed
  OneOutcomePerKey
  RetriesAgree
