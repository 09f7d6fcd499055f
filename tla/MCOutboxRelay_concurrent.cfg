CONSTANTS
  NRows = 2
  Aggregate <- MCAggregate
  Relays = {"r1", "r2"}
  BatchSize = 2
  Producers = {"report"}
  FaultKinds <- NothingFails
  MaxFaults = 0
SPECIFICATION RelaySpec
CHECK_DEADLOCK FALSE
INVARIANT
  NeverDoubleDispatches
