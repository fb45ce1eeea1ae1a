SPECIFICATION SmallSpec
CONSTANTS
  c1 = c1
  c2 = c2
  d1 = d1
  Cooks = {c1, c2}
  Dishes = {d1, d2}
  CookOf <- D1ofC1
  Prices = {5, 9}
  Quantities = {1}
  Amounts = {0}
  MaxInt = 108
  CommissionPercent = 12
  DeliveryFee = 100
  Sessions = {s1, s2}
  MaxCarts = 2
SYMMETRY SessionSymmetry
INVARIANTS
  TypeOK
  OrderAddsUp
  ViewsShowTheFee
  OneDefaultAddress
  DashboardWithinRounding
CHECK_DEADLOCK FALSE
