CONSTANTS
  NoTrace = ""
  Calls <- MCCalls
  Releases = {"release"}
  NRecords = 3
  RecordName <- MCRecordName
  Body <- MCBody
  Incoming <- MCIncoming
  Workers = {"worker"}
  Threads <- MCThreads
  Spans <- MCSpans
  MaxSignals = 1
  MaxFaults = 1
SPECIFICATION ProcessFairSpec
INVARIANTS
  ProcessTypeOK
  ThreadsJoined
  FlushedAtExit
  TraceContinues
  LogsCorrelated
  LosesOnlyThrown
PROPERTIES
  SignalEndsProcess
  OutboxDrains
  CancellationsHandled
