------------------------------ MODULE OrderService ------------------------------
(***************************************************************************)
(* OrderService: the life of an order row after checkout, under requests   *)
(* that overlap.                                                           *)
(*                                                                         *)
(* Every handler of the service reads the row outside a transaction, makes *)
(* its checks on what it read, and after an await issues                   *)
(* `order.update({ where: { id }, data })`, which does not look at the row *)
(* again.  A handler is therefore two steps of a session: an action that   *)
(* reads, checks and prepares `data` (and the notification created in the  *)
(* same transaction), and Commit, which applies it to whatever row is      *)
(* there by then.  A check that fails ends the request without a step.     *)
(***************************************************************************)
CONSTANTS
  Orders,         \* the order rows that may ever exist
  Sessions,       \* requests the server may be handling at the same time
  Users,          \* customers
  Cooks,          \* cook profiles
  AdminStatuses   \* the statuses operators choose in POST crm/orders/:id/status

Status == {"AWAITING_COOK_ACCEPTANCE", "AWAITING_PAYMENT", "PENDING", "CONFIRMED",
           "COOKING", "READY", "ON_THE_WAY", "DELIVERED", "CANCELLED"}

PaymentStatus == {"PENDING", "PROCESSING", "COMPLETED", "FAILED", "REFUNDED"}

ASSUME AdminStatusesAssumption == AdminStatuses \subseteq Status

\* A field that is `undefined` in Prisma's `data` is not written; a nullable
\* column is "null" or "set" (what it is set to is abstracted).
Undefined == "undefined"
Column == {"null", "set"}

Row == [userId: Users, cookId: Cooks, status: Status, payment: PaymentStatus,
        cookingStartedAt: Column, readyAt: Column,
        rejectionReason: Column, preparationTime: Column]

Data == [status: Status \cup {Undefined}, payment: PaymentStatus \cup {Undefined},
         cookingStartedAt: {"set", Undefined}, readyAt: {"set", Undefined},
         rejectionReason: Column \cup {Undefined}, preparationTime: Column \cup {Undefined}]

NoChange == [status |-> Undefined, payment |-> Undefined,
             cookingStartedAt |-> Undefined, readyAt |-> Undefined,
             rejectionReason |-> Undefined, preparationTime |-> Undefined]

\* The notifications of this service, named for what they tell their reader:
\* the customer (accepted, rejected) or the cook's user (confirmed, declined).
NoticeKind == {"accepted", "rejected", "confirmed", "declined"}

Handler == {"acceptCookOrder", "rejectCookOrder", "acceptDeliveredOrder",
            "rejectDeliveredOrder", "patchOrderByAdmin", "setOrderStatusByAdmin",
            "setOrderPaymentStatusByAdmin", "cancelOrderByAdmin", "updateStatus",
            "cancelByUser", "cancelByCook"}

Idle == [phase |-> "idle"]
Request ==
  {Idle}
    \cup [phase: {"payable"}, order: Orders]
    \cup [phase: {"writing"}, handler: Handler, order: Orders, data: Data,
          notice: NoticeKind \cup {Undefined}]

VARIABLES
  orders,         \* the table: a function from the orders that exist to their rows
  requests,       \* requests[s]: what session s has read and not yet written
  notifications,  \* the notifications created, as <<order, kind>>
  everPaid,       \* history: the orders whose payment was COMPLETED at some time
  everDelivered,  \* history: the orders that were DELIVERED at some time
  everCleared     \* history: the orders whose preparation time an operator cleared

vars == <<orders, requests, notifications, everPaid, everDelivered, everCleared>>

Init ==
  /\ orders = [o \in {} |-> NoChange]
  /\ requests = [s \in Sessions |-> Idle]
  /\ notifications = {}
  /\ everPaid = {}
  /\ everDelivered = {}
  /\ everCleared = {}

TypeOK ==
  /\ DOMAIN orders \subseteq Orders
  /\ orders \in [DOMAIN orders -> Row]
  /\ requests \in [Sessions -> Request]
  /\ \A s \in Sessions : requests[s] # Idle => requests[s].order \in DOMAIN orders
  /\ notifications \subseteq (Orders \X NoticeKind)
  /\ everPaid \subseteq Orders
  /\ everDelivered \subseteq Orders
  /\ everCleared \subseteq Orders

-----------------------------------------------------------------------------
(* Steps every handler shares *)

\* What Prisma's update does with one field of `data`.
WriteColumn(new, old) == IF new = Undefined THEN old ELSE new

Updated(row, data) ==
  [row EXCEPT
    !.status = WriteColumn(data.status, row.status),
    !.payment = WriteColumn(data.payment, row.payment),
    !.cookingStartedAt = WriteColumn(data.cookingStartedAt, row.cookingStartedAt),
    !.readyAt = WriteColumn(data.readyAt, row.readyAt),
    !.rejectionReason = WriteColumn(data.rejectionReason, row.rejectionReason),
    !.preparationTime = WriteColumn(data.preparationTime, row.preparationTime)]

\* The request has read row o and passed its checks: it will write `data`,
\* and create the notification in the same transaction if it has one.
Decide(s, handler, o, data, notice) ==
  /\ requests' = [requests EXCEPT ![s] =
                    [phase |-> "writing", handler |-> handler, order |-> o,
                     data |-> data, notice |-> notice]]
  /\ UNCHANGED <<orders, notifications, everPaid, everDelivered, everCleared>>

\* findUnique finds the row; the session is free to handle a request.
Reads(s, o) ==
  /\ requests[s] = Idle
  /\ o \in DOMAIN orders

\* Bug variant: any payment status but the initial one is taken for a payment.
PaymentCompleted_AnyAttempt(row) == row.payment # "PENDING"

\* assertOrderPaymentCompleted
PaymentCompleted(row) == row.payment = "COMPLETED"

\* Bug variant: the two stages are swapped.
CookingLifecycleTimestamps_Swapped(current, next) ==
  [NoChange EXCEPT
    !.cookingStartedAt = IF next = "READY" /\ current # "READY" THEN "set" ELSE Undefined,
    !.readyAt = IF next = "COOKING" /\ current # "COOKING" THEN "set" ELSE Undefined]

\* Stamps are taken when the stage changes, as judged by the row that was read.
CookingLifecycleTimestamps(current, next) ==
  [NoChange EXCEPT
    !.cookingStartedAt = IF next = "COOKING" /\ current # "COOKING" THEN "set" ELSE Undefined,
    !.readyAt = IF next = "READY" /\ current # "READY" THEN "set" ELSE Undefined]

-----------------------------------------------------------------------------
(* Checkout, as far as this table is concerned *)

\* createFromCart inserts the row; a session is not needed, the insert is one
\* transaction and the id is new.
CreateFromCart(o, u, c) ==
  /\ o \notin DOMAIN orders
  /\ orders' = [x \in DOMAIN orders \cup {o} |->
                  IF x = o
                  THEN [userId |-> u, cookId |-> c,
                        status |-> "AWAITING_PAYMENT", payment |-> "PENDING",
                        cookingStartedAt |-> "null", readyAt |-> "null",
                        rejectionReason |-> "null", preparationTime |-> "null"]
                  ELSE orders[x]]
  /\ UNCHANGED <<requests, notifications, everPaid, everDelivered, everCleared>>

-----------------------------------------------------------------------------
(* The cook's requests *)

\* Bug variant: the accepted order is not stamped.
AcceptedData_NoStamp ==
  [NoChange EXCEPT !.status = "COOKING", !.preparationTime = "set"]

AcceptedData ==
  [NoChange EXCEPT !.status = "COOKING", !.preparationTime = "set",
                   !.cookingStartedAt = "set"]

\* Bug variant: the status is not checked.
AcceptCookOrder_AnyStatus(s, o, c) ==
  /\ Reads(s, o)
  /\ orders[o].cookId = c
  /\ PaymentCompleted(orders[o])
  /\ Decide(s, "acceptCookOrder", o, AcceptedData, "accepted")

AcceptCookOrder(s, o, c) ==
  /\ Reads(s, o)
  /\ orders[o].cookId = c
  /\ orders[o].status = "AWAITING_COOK_ACCEPTANCE"
  /\ PaymentCompleted(orders[o])
  /\ Decide(s, "acceptCookOrder", o, AcceptedData, "accepted")

RejectCookOrder(s, o, c) ==
  /\ Reads(s, o)
  /\ orders[o].cookId = c
  /\ orders[o].status = "AWAITING_COOK_ACCEPTANCE"
  /\ Decide(s, "rejectCookOrder", o,
            [NoChange EXCEPT !.status = "CANCELLED", !.rejectionReason = "set"],
            "rejected")

\* Bug variant: a finished dish may skip the stages before delivery.
ValidNextStatuses_SkipsStages ==
  { <<"PENDING", "CONFIRMED">>, <<"CONFIRMED", "COOKING">>, <<"COOKING", "READY">>,
    <<"COOKING", "ON_THE_WAY">>, <<"READY", "ON_THE_WAY">>, <<"ON_THE_WAY", "DELIVERED">> }

\* The table of updateStatus, as pairs.
ValidNextStatuses ==
  { <<"PENDING", "CONFIRMED">>, <<"CONFIRMED", "COOKING">>, <<"COOKING", "READY">>,
    <<"READY", "ON_THE_WAY">>, <<"ON_THE_WAY", "DELIVERED">> }

\* Orders awaiting payment or acceptance are refused first; the table has no
\* entry for them either.
UpdateStatus(s, o, c, next) ==
  /\ Reads(s, o)
  /\ orders[o].cookId = c
  /\ <<orders[o].status, next>> \in ValidNextStatuses
  /\ Decide(s, "updateStatus", o,
            [CookingLifecycleTimestamps(orders[o].status, next) EXCEPT !.status = next],
            Undefined)

-----------------------------------------------------------------------------
(* cancel: a customer's or a cook's; ADMIN is refused *)

CancellableUserStatuses ==
  {"AWAITING_COOK_ACCEPTANCE", "AWAITING_PAYMENT", "PENDING", "CONFIRMED"}

CancelByUser(s, o, u) ==
  /\ Reads(s, o)
  /\ orders[o].userId = u
  /\ orders[o].status \in CancellableUserStatuses
  /\ Decide(s, "cancelByUser", o, [NoChange EXCEPT !.status = "CANCELLED"], Undefined)

CancelByCook(s, o, c) ==
  /\ Reads(s, o)
  /\ orders[o].cookId = c
  /\ orders[o].status \notin {"AWAITING_COOK_ACCEPTANCE", "AWAITING_PAYMENT", "DELIVERED"}
  /\ Decide(s, "cancelByCook", o, [NoChange EXCEPT !.status = "CANCELLED"], Undefined)

-----------------------------------------------------------------------------
(* The customer's verdict on a delivered order *)

AcceptDeliveredOrder(s, o, u) ==
  /\ Reads(s, o)
  /\ orders[o].userId = u
  /\ orders[o].status = "DELIVERED"
  /\ Decide(s, "acceptDeliveredOrder", o, [NoChange EXCEPT !.status = "CONFIRMED"],
            "confirmed")

RejectDeliveredOrder(s, o, u) ==
  /\ Reads(s, o)
  /\ orders[o].userId = u
  /\ orders[o].status = "DELIVERED"
  /\ Decide(s, "rejectDeliveredOrder", o,
            [NoChange EXCEPT !.status = "CANCELLED", !.rejectionReason = "set"],
            "declined")

-----------------------------------------------------------------------------
(* The operator's requests (CRM) *)

\* Only the columns modelled here; a body that changes nothing returns at once.  A
\* preparation time of null passes the DTO's validation and clears the column.
PatchOrderByAdmin(s, o, reason, prep) ==
  /\ Reads(s, o)
  /\ ~(reason = Undefined /\ prep = Undefined)
  /\ Decide(s, "patchOrderByAdmin", o,
            [NoChange EXCEPT !.rejectionReason = reason, !.preparationTime = prep],
            Undefined)

SetOrderStatusByAdmin(s, o, next) ==
  /\ Reads(s, o)
  /\ PaymentCompleted(orders[o])
  /\ Decide(s, "setOrderStatusByAdmin", o,
            [CookingLifecycleTimestamps(orders[o].status, next) EXCEPT !.status = next],
            Undefined)

CancelOrderByAdmin(s, o, reason) ==
  /\ Reads(s, o)
  /\ Decide(s, "cancelOrderByAdmin", o,
            [NoChange EXCEPT !.status = "CANCELLED", !.rejectionReason = reason],
            Undefined)

\* Bug variant: only a first payment attempt releases the order.
PaymentData_FirstAttemptOnly(row, p) ==
  [NoChange EXCEPT !.payment = p,
                   !.status = IF /\ p = "COMPLETED"
                                 /\ row.status = "AWAITING_PAYMENT"
                                 /\ row.payment = "PENDING"
                              THEN "AWAITING_COOK_ACCEPTANCE" ELSE Undefined]

\* A completed payment releases an order still awaiting payment to its cook.
PaymentData(row, p) ==
  [NoChange EXCEPT !.payment = p,
                   !.status = IF p = "COMPLETED" /\ row.status = "AWAITING_PAYMENT"
                              THEN "AWAITING_COOK_ACCEPTANCE" ELSE Undefined]

SetOrderPaymentStatusByAdmin(s, o, p) ==
  /\ Reads(s, o)
  /\ ~(p = "COMPLETED" /\ PaymentCompleted(orders[o]))
  /\ Decide(s, "setOrderPaymentStatusByAdmin", o, PaymentData(orders[o], p), Undefined)

\* markOrderPaidByAdmin finds the order payable, and then calls
\* setOrderPaymentStatusByAdmin, which reads the row a second time ...
MarkOrderPaidByAdmin(s, o) ==
  /\ Reads(s, o)
  /\ orders[o].status = "AWAITING_PAYMENT"
  /\ orders[o].payment \in {"PENDING", "PROCESSING"}
  /\ requests' = [requests EXCEPT ![s] = [phase |-> "payable", order |-> o]]
  /\ UNCHANGED <<orders, notifications, everPaid, everDelivered, everCleared>>

\* ... and does not repeat the payable check: here it returns early if the
\* payment was completed meanwhile, and otherwise completes it.
MarkPaidRereads(s) ==
  /\ requests[s].phase = "payable"
  /\ LET o == requests[s].order
     IN  IF PaymentCompleted(orders[o])
         THEN /\ requests' = [requests EXCEPT ![s] = Idle]
              /\ UNCHANGED <<orders, notifications, everPaid, everDelivered, everCleared>>
         ELSE Decide(s, "setOrderPaymentStatusByAdmin", o,
                     PaymentData(orders[o], "COMPLETED"), Undefined)

-----------------------------------------------------------------------------
(* The write *)

\* order.update where id, and the notification of the same transaction.
Commit(s) ==
  /\ requests[s].phase = "writing"
  /\ LET r == requests[s]
     IN  /\ orders' = [orders EXCEPT ![r.order] = Updated(@, r.data)]
         /\ notifications' =
              notifications \cup {<<r.order, k>> : k \in {r.notice} \ {Undefined}}
         /\ everPaid' =
              everPaid \cup (IF r.data.payment = "COMPLETED" THEN {r.order} ELSE {})
         /\ everDelivered' =
              everDelivered \cup (IF r.data.status = "DELIVERED" THEN {r.order} ELSE {})
         /\ everCleared' =
              everCleared \cup (IF r.data.preparationTime = "null" THEN {r.order} ELSE {})
  /\ requests' = [requests EXCEPT ![s] = Idle]

\* The server dies or the database refuses before the write: nothing happened.
Fail(s) ==
  /\ requests[s] # Idle
  /\ requests' = [requests EXCEPT ![s] = Idle]
  /\ UNCHANGED <<orders, notifications, everPaid, everDelivered, everCleared>>

CookRequest(s, o) ==
  \E c \in Cooks :
    \/ AcceptCookOrder(s, o, c)
    \/ RejectCookOrder(s, o, c)
    \/ \E next \in Status : UpdateStatus(s, o, c, next)
    \/ CancelByCook(s, o, c)

CustomerRequest(s, o) ==
  \E u \in Users :
    \/ AcceptDeliveredOrder(s, o, u)
    \/ RejectDeliveredOrder(s, o, u)
    \/ CancelByUser(s, o, u)

AdminRequest(s, o) ==
  \/ \E reason, prep \in Column \cup {Undefined} :
        PatchOrderByAdmin(s, o, reason, prep)
  \/ \E next \in AdminStatuses : SetOrderStatusByAdmin(s, o, next)
  \/ \E reason \in Column : CancelOrderByAdmin(s, o, reason)
  \/ \E p \in PaymentStatus : SetOrderPaymentStatusByAdmin(s, o, p)
  \/ MarkOrderPaidByAdmin(s, o)

Next ==
  \/ \E o \in Orders, u \in Users, c \in Cooks : CreateFromCart(o, u, c)
  \/ \E s \in Sessions, o \in Orders :
        CookRequest(s, o) \/ CustomerRequest(s, o) \/ AdminRequest(s, o)
  \/ \E s \in Sessions : MarkPaidRereads(s) \/ Commit(s) \/ Fail(s)

Spec == Init /\ [][Next]_vars

-----------------------------------------------------------------------------
(* Properties *)

\* Every stage but the one before payment and the one that needs none.
PaidStatus == Status \ {"AWAITING_PAYMENT", "CANCELLED"}

\* However requests interleave, an order is in a stage other than awaiting
\* payment or cancelled only if its payment was completed at some time: a cook
\* never works on an order nobody has paid for.
KitchenOnlyAfterPayment ==
  \A o \in DOMAIN orders : orders[o].status \in PaidStatus => o \in everPaid

\* An order in COOKING has the time cooking started and one in READY the time
\* it was ready, although the stamp is decided on a row read earlier
\* (cookingLifecycleTimestamps skips it when the row already was in the stage).
StagesLeaveTheirMark ==
  \A o \in DOMAIN orders :
    /\ orders[o].status = "COOKING" => orders[o].cookingStartedAt = "set"
    /\ orders[o].status = "READY" => orders[o].readyAt = "set"

\* A notification is never sent about something that has not happened: who reads
\* that an order was accepted finds it paid for, started and, unless an operator has
\* cleared it, with a preparation time; a cook reads of a customer's verdict only on
\* an order once delivered.
NoticesTellTheTruth ==
  /\ \A o \in Orders : <<o, "accepted">> \in notifications =>
        /\ o \in DOMAIN orders /\ o \in everPaid
        /\ orders[o].cookingStartedAt = "set"
        /\ orders[o].preparationTime = "set" \/ o \in everCleared
  /\ \A o \in Orders, verdict \in {"confirmed", "declined"} :
        <<o, verdict>> \in notifications => o \in everDelivered

\* Unless an operator puts it back there, a paid order does not stay in the
\* payment queue, where neither the cook (it is hidden) nor "mark paid" (it
\* returns early) could move it on.
PaidOrderLeavesPaymentQueue ==
  "AWAITING_PAYMENT" \notin AdminStatuses =>
    \A o \in DOMAIN orders :
      PaymentCompleted(orders[o]) => orders[o].status # "AWAITING_PAYMENT"

\* The stages after cooking, and the one nothing leads to.
LateStatus == {"PENDING", "READY", "ON_THE_WAY", "DELIVERED", "CONFIRMED"}

\* As long as operators force no stage between cooking and confirmation, an
\* order gets there through the kitchen only: it was started and was ready, and
\* one confirmed by its customer was delivered.  PENDING is never reached.
DeliveryFollowsKitchen ==
  AdminStatuses \cap LateStatus = {} =>
    \A o \in DOMAIN orders :
      /\ orders[o].status \in LateStatus \ {"PENDING"} =>
           orders[o].cookingStartedAt = "set" /\ orders[o].readyAt = "set"
      /\ orders[o].status = "CONFIRMED" => o \in everDelivered
      /\ orders[o].status # "PENDING"

-----------------------------------------------------------------------------
(* The inductive invariant behind the first three properties: the history   *)
(* follows the rows, and whatever a request in flight will write has been   *)
(* justified, when it read the row, by a fact that no later write undoes.   *)

HistoryFollowsRows ==
  \A o \in DOMAIN orders :
    /\ PaymentCompleted(orders[o]) => o \in everPaid
    /\ orders[o].status = "DELIVERED" => o \in everDelivered

Justified(r) ==
  LET row == orders[r.order]
  IN  /\ r.data.status \in PaidStatus =>
           r.order \in everPaid \/ r.data.payment = "COMPLETED"
      /\ r.data.status = "COOKING" =>
           r.data.cookingStartedAt = "set" \/ row.cookingStartedAt = "set"
      /\ r.data.status = "READY" => r.data.readyAt = "set" \/ row.readyAt = "set"
      /\ r.notice = "accepted" => /\ r.order \in everPaid
                                  /\ r.data.cookingStartedAt = "set"
                                  /\ r.data.preparationTime = "set"
      /\ r.notice \in {"confirmed", "declined"} => r.order \in everDelivered

PendingWritesJustified ==
  \A s \in Sessions : requests[s].phase = "writing" => Justified(requests[s])

IInv ==
  /\ TypeOK
  /\ HistoryFollowsRows
  /\ KitchenOnlyAfterPayment
  /\ StagesLeaveTheirMark
  /\ NoticesTellTheTruth
  /\ PendingWritesJustified

-----------------------------------------------------------------------------
(* Behind PaidOrderLeavesPaymentQueue and DeliveryFollowsKitchen: no request *)
(* in flight will put an order in the queue, a payment comes with its        *)
(* release, and a late stage with the stages before it.                      *)

Releases(r) ==
  /\ r.data.status # "AWAITING_PAYMENT"
  /\ r.data.payment = "COMPLETED" /\ r.data.status = Undefined =>
       orders[r.order].status # "AWAITING_PAYMENT"

PendingPaymentsRelease ==
  "AWAITING_PAYMENT" \notin AdminStatuses =>
    \A s \in Sessions : requests[s].phase = "writing" => Releases(requests[s])

FollowsKitchen(r) ==
  LET row == orders[r.order]
  IN  /\ r.data.status \in LateStatus \ {"PENDING"} =>
           /\ r.data.cookingStartedAt = "set" \/ row.cookingStartedAt = "set"
           /\ r.data.readyAt = "set" \/ row.readyAt = "set"
      /\ r.data.status = "CONFIRMED" => r.order \in everDelivered
      /\ r.data.status # "PENDING"

PendingStagesFollowKitchen ==
  AdminStatuses \cap LateStatus = {} =>
    \A s \in Sessions : requests[s].phase = "writing" => FollowsKitchen(requests[s])

KitchenInv ==
  /\ PaidOrderLeavesPaymentQueue
  /\ DeliveryFollowsKitchen
  /\ PendingPaymentsRelease
  /\ PendingStagesFollowKitchen

-----------------------------------------------------------------------------
(* Requests that do not overlap *)

OneSession == \A s, t \in Sessions : s = t

StatusOf == [o \in Orders |-> IF o \in DOMAIN orders THEN orders[o].status ELSE "NONE"]
PaymentOf == [o \in Orders |-> IF o \in DOMAIN orders THEN orders[o].payment ELSE "NONE"]

Lifecycle == INSTANCE OrderLifecycle WITH status <- StatusOf, payment <- PaymentOf

\* With one session every request has the effect of one indivisible step of the
\* lifecycle: what a handler checked still holds when it writes.
ImplementsLifecycle == Lifecycle!Spec

Answers(o) == {k \in {"accepted", "rejected"} : <<o, k>> \in notifications}

\* With one session, and no operator putting orders back in the cook's inbox or in
\* the payment queue before it, a customer is not told both that the cook accepted
\* and that the cook rejected.
OneAnswerFromCook ==
  OneSession /\ AdminStatuses \cap {"AWAITING_PAYMENT", "AWAITING_COOK_ACCEPTANCE"} = {} =>
    \A o \in Orders : Answers(o) # {"accepted", "rejected"}

\* What a handler may decide to write about a row, by its checks.
Legal(row, data, notice) ==
  /\ \/ /\ data.payment # Undefined
        /\ ~(data.payment = "COMPLETED" /\ PaymentCompleted(row))
        /\ data.status = PaymentData(row, data.payment).status
     \/ /\ data.payment = Undefined
        /\ \/ data.status \in {Undefined, "CANCELLED"}
           \/ /\ data.status = "COOKING"
              /\ row.status = "AWAITING_COOK_ACCEPTANCE" /\ PaymentCompleted(row)
           \/ <<row.status, data.status>> \in ValidNextStatuses
           \/ data.status = "CONFIRMED" /\ row.status = "DELIVERED"
           \/ data.status \in AdminStatuses /\ PaymentCompleted(row)
  /\ notice \in {"accepted", "rejected"} =>
       /\ row.status = "AWAITING_COOK_ACCEPTANCE"
       /\ data.status \in {"COOKING", "CANCELLED"}

\* The inductive invariant behind the two: with one session, what is about to be
\* written is still legal, and an order that was answered is not waiting any more.
PendingIsLegal ==
  OneSession =>
    \A s \in Sessions :
      LET r == requests[s]
      IN  r.phase = "writing" => Legal(orders[r.order], r.data, r.notice)

AnswersAreFinal ==
  OneSession /\ AdminStatuses \cap {"AWAITING_PAYMENT", "AWAITING_COOK_ACCEPTANCE"} = {} =>
    \A o \in Orders : Answers(o) # {} =>
      /\ o \in DOMAIN orders
      /\ orders[o].status \notin {"AWAITING_PAYMENT", "AWAITING_COOK_ACCEPTANCE"}

SerialInv == PendingIsLegal /\ AnswersAreFinal /\ OneAnswerFromCook

-----------------------------------------------------------------------------
(* What the code's messages and API documentation say of its writes *)

Writes(s, handlers) == Commit(s) /\ requests[s].handler \in handlers

Target(s) == orders[requests[s].order]

\* "Order is not awaiting cook acceptance": a cook's accept takes effect only on
\* an order that is awaiting acceptance.
AcceptOnlyWhileAwaiting ==
  [][\A s \in Sessions : Writes(s, {"acceptCookOrder"}) =>
        Target(s).status = "AWAITING_COOK_ACCEPTANCE"]_vars

\* "Cannot cancel after preparation has started": a customer's cancellation
\* takes effect only on an order whose cooking has not started.
CancelOnlyBeforePreparation ==
  [][\A s \in Sessions : Writes(s, {"cancelByUser"}) =>
        Target(s).cookingStartedAt = "null"]_vars
=============================================================================
