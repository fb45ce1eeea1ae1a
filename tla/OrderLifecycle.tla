----------------------------- MODULE OrderLifecycle -----------------------------
(***************************************************************************)
(* What the order service promises when its requests do not overlap: an    *)
(* order has a status and a payment status, and each request moves them    *)
(* in one indivisible step.  OrderService, where a request reads the row   *)
(* and writes it later, implements this module when it has one session.    *)
(***************************************************************************)
CONSTANTS
  Orders,         \* the order rows that may ever exist
  AdminStatuses   \* the statuses operators choose in POST crm/orders/:id/status

VARIABLES
  status,         \* status[o]: the stage the order is in, "NONE" before checkout
  payment         \* payment[o]: its payment status, "NONE" before checkout

vars == <<status, payment>>

PaymentStatus == {"PENDING", "PROCESSING", "COMPLETED", "FAILED", "REFUNDED"}

\* The kitchen's ladder: the table validNextStatuses of updateStatus.
NextInKitchen ==
  { <<"PENDING", "CONFIRMED">>, <<"CONFIRMED", "COOKING">>, <<"COOKING", "READY">>,
    <<"READY", "ON_THE_WAY">>, <<"ON_THE_WAY", "DELIVERED">> }

Init ==
  /\ status = [o \in Orders |-> "NONE"]
  /\ payment = [o \in Orders |-> "NONE"]

Move(o, next) ==
  /\ status' = [status EXCEPT ![o] = next]
  /\ UNCHANGED payment

Checkout(o) ==
  /\ status[o] = "NONE"
  /\ status' = [status EXCEPT ![o] = "AWAITING_PAYMENT"]
  /\ payment' = [payment EXCEPT ![o] = "PENDING"]

\* A completed payment releases the order to the cook, once.
RecordPayment(o, p) ==
  /\ status[o] # "NONE"
  /\ ~(p = "COMPLETED" /\ payment[o] = "COMPLETED")
  /\ payment' = [payment EXCEPT ![o] = p]
  /\ status' = [status EXCEPT ![o] =
                  IF p = "COMPLETED" /\ @ = "AWAITING_PAYMENT"
                  THEN "AWAITING_COOK_ACCEPTANCE" ELSE @]

CookAccepts(o) ==
  /\ status[o] = "AWAITING_COOK_ACCEPTANCE"
  /\ payment[o] = "COMPLETED"
  /\ Move(o, "COOKING")

CookAdvances(o, next) ==
  /\ <<status[o], next>> \in NextInKitchen
  /\ Move(o, next)

CustomerConfirms(o) ==
  /\ status[o] = "DELIVERED"
  /\ Move(o, "CONFIRMED")

\* Somebody entitled to it cancels: a cook or customer who rejects or cancels,
\* or an operator.  Between them every stage can be cancelled.
Cancel(o) ==
  /\ status[o] # "NONE"
  /\ Move(o, "CANCELLED")

AdminOverrides(o, next) ==
  /\ payment[o] = "COMPLETED"
  /\ Move(o, next)

Next ==
  \E o \in Orders :
    \/ Checkout(o)
    \/ \E p \in PaymentStatus : RecordPayment(o, p)
    \/ CookAccepts(o)
    \/ \E next \in {"CONFIRMED", "COOKING", "READY", "ON_THE_WAY", "DELIVERED"} :
          CookAdvances(o, next)
    \/ CustomerConfirms(o)
    \/ Cancel(o)
    \/ \E next \in AdminStatuses : AdminOverrides(o, next)

Spec == Init /\ [][Next]_vars
=============================================================================
