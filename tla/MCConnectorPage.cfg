SPECIFICATION FairSpec
CONSTANTS
  c1 = c1
  c2 = c2
  NoName = NoName
  Nil = Nil
  Connectors <- MCConnectors
  Remotes <- MCRemotes
  Calls <- MCCalls
  MaxRequests = 3
  MaxVisits = 2
CHECK_DEADLOCK FALSE
PROPERTIES
  ChangesSettle
  ListingsSettle
