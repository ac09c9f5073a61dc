SPECIFICATION Spec
CONSTANTS
  t1 = t1
  Items = {t1}
  Internal = {t1}
  NoItem = NoItem
  Terms = {"", "x"}
  EmptyTerm = ""
  HasSort = TRUE
  Matches <- MCMatches
  MaxRequests = 2
  MaxTimers = 1
INVARIANTS
  ActiveBarIsOpen
  RowsFollow
PROPERTIES
  DeletionConfirmed
  StuckOnlyIfLeft
  StaleOnlyIfLeft
