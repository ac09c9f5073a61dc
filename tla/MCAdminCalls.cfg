SPECIFICATION MCSpec
CONSTANTS
  a = a
  b = b
  Topics <- MCPair
  Partitions <- MCPair
  Subjects <- MCPair
  Nobody = Nobody
  ErrorValue <- MCErrorValue
  MaxEnd = 1
INVARIANTS
  ListingComplete
  LagsTruthful
  SubjectsTruthful
PROPERTIES
  CallContract
CHECK_DEADLOCK FALSE
