SPECIFICATION Spec
CONSTANTS
  Orders = {o1}
  Sessions = {s1, s2}
  Users = {u1}
  Cooks = {c1}
  AdminStatuses <- RequeueStatuses
SYMMETRY SessionSymmetry
INVARIANTS
  KitchenOnlyAfterPayment
  StagesLeaveTheirMark
  NoticesTellTheTruth
  PaidOrderLeavesPaymentQueue
  DeliveryFollowsKitchen
