SPECIFICATION Spec
CONSTANTS
  Orders = {o1}
  Sessions = {s1, s2}
  Users = {u1}
  Cooks = {c1}
  AdminStatuses = {}
PROPERTIES
  AcceptOnlyWhileAwaiting
