SPECIFICATION Spec
CONSTANTS
  Orders = {o1}
  Sessions = {s1}
  Users = {u1, u2}
  Cooks = {c1, c2}
  AdminStatuses <- NoRequeueStatuses
INVARIANTS
  OneAnswerFromCook
PROPERTIES
  ImplementsLifecycle
