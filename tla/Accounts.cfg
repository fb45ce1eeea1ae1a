SPECIFICATION SumSpec
CONSTANTS
  c1 = c1
  Users = {u1, c1}
  Cooks = {c1}
  Dishes = {d1}
  CookOf <- OneCook
  Sessions = {s1, s2}
  MaxReports = 2
  OnOffer = {e1, e2}
  SellerOf <- OneSeller
  Orders = {o1, o2}
  Phones = {n1}
  Passwords = {p1, p2}
  MaxUsers = 1
  MaxTokens = 3
SYMMETRY SumSymmetry
INVARIANTS
  TypesOK
  RecordsAreTrue
  SanctionsOnRecord
  OnePendingReport
  BlocksAreReported
  ReferencesHold
  NothingLeftOnOffer
  InactiveHasNoToken
  LoggedOutHasNoToken
PROPERTY BlockedByActiveOrders
CHECK_DEADLOCK FALSE
