----------------------------- MODULE MCOrderService -----------------------------
(***************************************************************************)
(* Instances of OrderService for TLC.                                      *)
(***************************************************************************)
EXTENDS OrderService, TLC

\* Operators who may force every status the DTO admits.
AllStatuses == Status

\* Operators who do not force the stages between cooking and confirmation.
RequeueStatuses == {"AWAITING_COOK_ACCEPTANCE", "COOKING", "CANCELLED"}

\* Operators who do not put an order back in the cook's inbox.
NoRequeueStatuses == {"PENDING", "COOKING", "DELIVERED", "CANCELLED"}

\* Sessions are interchangeable.
SessionSymmetry == Permutations(Sessions)
=============================================================================
