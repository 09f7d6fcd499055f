CONSTANTS
  Topic <- MCTopic
  NRecords = 2
  Needs <- NeedsPayment
  Kinds = {"go"}
  FaultKinds <- CommitRefused
  MaxFaults = 1
SPECIFICATION ConsumerSpec
CHECK_DEADLOCK FALSE
INVARIANT
  RunsUntilCancelled
