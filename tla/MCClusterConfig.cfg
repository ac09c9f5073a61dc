SPECIFICATION Spec
CONSTANTS
  prd = prd
  tst = tst
  uat = uat
  d1 = d1
  d2 = d2
  k1 = k1
  NoName = NoName
  Names <- MCNames
  Details = {d1, d2}
  Connects = {k1}
  Requested <- MCRequested
  Files <- MCFiles
INVARIANTS
  NamesUnique
  AtMostOneActive
PROPERTIES
  StoreSpec
