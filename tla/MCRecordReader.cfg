SPECIFICATION Spec
CONSTANTS
  p1 = p1
  p2 = p2
  Partitions <- MCPartitions
  ReadDetails <- MCReadDetails
  Logs <- MCLogs
  Faulty = {p1}
  MaxOffset = 2
INVARIANTS
  CountWithinOverrun
  ChannelDiscipline
  WindowComplete
  WindowInLog
CHECK_DEADLOCK FALSE
