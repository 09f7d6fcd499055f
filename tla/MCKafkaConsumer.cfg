CONSTANTS
  Topic <- MCTopic
  NRecords = 2
  Needs <- NeedsPayment
  Kinds = {"go", "python", "cpp"}
  FaultKinds <- Survived
  MaxFaults = 2
SPECIFICATION ConsumerFairSpec
CHECK_DEADLOCK FALSE
INVARIANTS
  ConsumerTypeOK
  CommittedIsProcessed
PROPERTIES
  ConsumesAtLeastOnce
  StopIsHeard
