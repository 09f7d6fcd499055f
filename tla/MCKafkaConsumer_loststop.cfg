CONSTANTS
  Topic <- MCTopic
  NRecords = 1
  Needs <- NeedsPayment
  Kinds = {"python", "cpp"}
  FaultKinds <- StopOnly
  MaxFaults = 1
SPECIFICATION ConsumerFairSpec
CHECK_DEADLOCK FALSE
PROPERTY
  BlocksUntilStop
