SPECIFICATION Spec
CONSTANTS
  prd = prd
  tst = tst
  uat = uat
  k1 = k1
  k2 = k2
  term = term
  NoName = NoName
  NoItem = NoName
  EmptyName = EmptyName
  NoConnect = NoConnect
  EmptyTerm = EmptyTerm
  Items <- MCItems
  Terms = {EmptyTerm, term}
  HasSort = FALSE
  Connects = {k1, k2}
  Order <- MCOrder
  Matches <- MCMatches
  Sessions <- MCNameTakers
CHECK_DEADLOCK FALSE
INVARIANTS
  NamesUnique
