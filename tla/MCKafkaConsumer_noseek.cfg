CONSTANTS
  Topic <- MCTopic
  NRecords = 2
  Needs <- NeedsPayment
  Kinds = {"python", "cpp"}
  FaultKinds <- HandlerThrows
  MaxFaults = 1
SPECIFICATION ConsumerSpec
CHECK_DEADLOCK FALSE
INVARIANT
  CommittedIsProcessed
