SPECIFICATION PageFairSpec
CONSTANTS
  p1 = p1
  p2 = p2
  Partitions <- MCPartitions
  ReadDetails <- MCReadDetails
  Logs <- MCLogs
  Faulty = {p1}
  MaxOffset = 1
  MaxBatch = 2
  ZeroRecord = ZeroRecord
INVARIANTS
  VerdictExclusive
  ShownInOrder
PROPERTIES
  ReaderSpec
  PageKeepsRecords
  AwaitReturns
CHECK_DEADLOCK FALSE
