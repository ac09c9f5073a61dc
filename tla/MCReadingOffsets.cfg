SPECIFICATION RequestSpec
CONSTANTS
  MaxEnd = 9
  MaxLimit = 8
  MaxPartitions = 4
INVARIANTS
  WindowIsReference
CHECK_DEADLOCK FALSE
