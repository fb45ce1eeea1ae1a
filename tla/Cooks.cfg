SPECIFICATION SumSpec
CONSTANTS
  c1 = c1
  c2 = c2
  d1 = d1
  Cooks = {c1, c2}
  Dishes = {d1, d2}
  CookOf <- D1ofC1
  Days = {today, tomorrow}
  Sessions = {s1, s2}
  MaxMenus = 3
  Viewers = {v1}
  MaxTime = 3
  MaxFiles = 5
SYMMETRY SumSymmetry
INVARIANTS
  TypesOK
  MenusOfOwnDishes
  FilterAgreesWithFlag
  ListAgreesWithPages
  ReasonIffRejected
  VerdictOnDocuments
  PapersOnDisk
  DiskHoldsDocuments
CHECK_DEADLOCK FALSE
