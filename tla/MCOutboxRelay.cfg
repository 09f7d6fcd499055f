CONSTANTS
  NRows = 3
  Aggregate <- MCAggregate
  Relays = {"r1"}
  BatchSize = 2
  Producers = {"report", "flush"}
  FaultKinds <- Survived
  MaxFaults = 2
SPECIFICATION RelayFairSpec
CHECK_DEADLOCK FALSE
INVARIANTS
  RelayTypeOK
  MarkedIsStored
  FirstPublishedInOrder
  DuplicatesAreFaults
PROPERTIES
  RelaysAtLeastOnce
  EveryRowMarked
