CONSTANTS
  s1 = s1
  s2 = s2
  widget = widget
  poison = poison
  Sagas <- MCSagas
  SKUs <- MCSKUs
  PoisonSku = poison
  Seeded <- MCSKUs
  InitStock <- MCInitStock
  Quantities <- MCQuantities
  Amounts <- MCAmounts
  ForceFailure = FALSE
  Faults = {"rpc", "crash"}
SPECIFICATION FairSpec
CHECK_DEADLOCK FALSE
INVARIANT TypeOK
INVARIANT EmitOnce
INVARIANT NothingSkipped
INVARIANT OutcomesAgree
INVARIANT NoUnpaidStock
INVARIANT StockConserved
INVARIANT StockAccounted
INVARIANT QuiescentSettled
PROPERTY RefundBeforeCancel
PROPERTY ImplementsAtomicSaga
INVARIANT IInv
PROPERTY SettlesUnlessLost
