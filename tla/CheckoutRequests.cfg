SPECIFICATION Spec
CONSTANTS
  d1 = d1
  d2 = d2
  c1 = c1
  c2 = c2
  Users = {u1}
  Dishes = {d1, d2}
  Cooks = {c1, c2}
  CookOf <- TwoCooks
  Sessions = {s1, s2}
  Amounts = {1}
  MaxMerged = 1
  MaxAdds = 2
SYMMETRY SessionSymmetry
INVARIANTS
  TablesConsistent
  LineOrderedOnce
  NoEmptyCartLeft
