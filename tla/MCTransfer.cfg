CONSTANTS
  Transfers = {x}
  NoTransfer = NoTransfer
  N = 1
  Attempts = 2
  Window = 2
  MaxReadFailures = 1
  MaxWriteFailures = 1
  MaxRestarts = 1
  MaxBurns = 1
SPECIFICATION LiveSpec
CHECK_DEADLOCK FALSE
INVARIANTS
  ReceivedChunksWritten
  FinishOwnsPart
  SentMeansDelivered
  ReceivedIsWhole
  BurnLeavesNoItem
PROPERTIES
  SendEnds
