SPECIFICATION Spec
CONSTANTS
  orders = orders
  users = users
  term = term
  NoItem = NoItem
  NoSubject = NoSubject
  EmptyTerm = EmptyTerm
  Items <- MCItems
  Terms = {EmptyTerm, term}
  HasSort = TRUE
  Versions = {1, 2}
  Matches <- MCMatches
  Sessions <- MCSessions
CHECK_DEADLOCK FALSE
INVARIANTS
  OnePrompt
PROPERTIES
  PermanentIsAsked
  ListFollows
  WaitsOnlyIfMissed
  RemovedIsShown
  VersionsFollow
