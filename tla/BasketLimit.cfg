SPECIFICATION Spec
CONSTANTS
  d1 = d1
  d2 = d2
  c1 = c1
  c2 = c2
  Users = {u1}
  Dishes = {d1}
  Cooks = {c1}
  CookOf <- OneCook
  Sessions = {s1}
  Amounts = {1, 2}
  MaxMerged = 2
  MaxAdds = 2
INVARIANTS
  LineWithinLimit
