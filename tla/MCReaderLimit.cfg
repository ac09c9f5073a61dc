SPECIFICATION Spec
CONSTANTS
  p1 = p1
  p2 = p2
  Partitions <- MCPartitions
  ReadDetails <- MCLimitDetails
  Logs <- MCLimitLogs
  Faulty = {}
  MaxOffset = 2
INVARIANTS
  LimitRespected
CHECK_DEADLOCK FALSE
