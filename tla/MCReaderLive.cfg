SPECIFICATION FairSpec
CONSTANTS
  p1 = p1
  p2 = p2
  Partitions <- MCPartitions
  ReadDetails <- MCFewDetails
  Logs <- MCFewLogs
  Faulty = {p1}
  MaxOffset = 2
PROPERTIES
  CancelStops
  ReadEnds
CHECK_DEADLOCK FALSE
