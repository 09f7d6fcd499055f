CONSTANTS
  NRows = 2
  Aggregate <- MCAggregate
  Relays = {"r1"}
  BatchSize = 2
  Producers = {"flush"}
  FaultKinds <- DeliveryFails
  MaxFaults = 1
SPECIFICATION RelaySpec
CHECK_DEADLOCK FALSE
INVARIANT
  MarkedIsStored
