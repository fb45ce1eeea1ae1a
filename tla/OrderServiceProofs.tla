--------------------------- MODULE OrderServiceProofs ---------------------------
(***************************************************************************)
(* Theorems about OrderService, for any sets of orders, sessions, users    *)
(* and cooks and any statuses operators may force.                         *)
(***************************************************************************)
EXTENDS OrderService, TLAPS

-----------------------------------------------------------------------------
(* The data the handlers write *)

\* What each handler prepares is a well-formed `data` object.
LEMMA HandlerDataType ==
  /\ AcceptedData \in Data
  /\ \A next \in Status : [NoChange EXCEPT !.status = next] \in Data
  /\ [NoChange EXCEPT !.status = "CANCELLED", !.rejectionReason = "set"] \in Data
  /\ \A reason \in Column :
        [NoChange EXCEPT !.status = "CANCELLED", !.rejectionReason = reason] \in Data
  /\ \A reason, prep \in Column \cup {Undefined} :
        [NoChange EXCEPT !.rejectionReason = reason, !.preparationTime = prep] \in Data
  /\ \A current \in Status, next \in Status :
        [CookingLifecycleTimestamps(current, next) EXCEPT !.status = next] \in Data
  /\ \A row \in Row, p \in PaymentStatus : PaymentData(row, p) \in Data
<1> USE DEF NoChange, Data, Undefined, Column
<1>1. AcceptedData \in Data
  BY DEF AcceptedData, Status
<1>2. \A next \in Status : [NoChange EXCEPT !.status = next] \in Data
  OBVIOUS
<1>3. \A reason \in Column :
        [NoChange EXCEPT !.status = "CANCELLED", !.rejectionReason = reason] \in Data
  BY DEF Status
<1>4. [NoChange EXCEPT !.status = "CANCELLED", !.rejectionReason = "set"] \in Data
  BY DEF Status
<1>5. \A reason, prep \in Column \cup {Undefined} :
        [NoChange EXCEPT !.rejectionReason = reason, !.preparationTime = prep] \in Data
  OBVIOUS
<1>6. \A current \in Status, next \in Status :
        [CookingLifecycleTimestamps(current, next) EXCEPT !.status = next] \in Data
  BY DEF CookingLifecycleTimestamps
<1>7. \A row \in Row, p \in PaymentStatus : PaymentData(row, p) \in Data
  BY DEF PaymentData, Status
<1> QED
  BY <1>1, <1>2, <1>3, <1>4, <1>5, <1>6, <1>7

\* Applying well-formed data to a row gives a row.
LEMMA UpdatedType ==
  ASSUME NEW row \in Row, NEW data \in Data
  PROVE  Updated(row, data) \in Row
<1>1. /\ WriteColumn(data.status, row.status) \in Status
      /\ WriteColumn(data.payment, row.payment) \in PaymentStatus
      /\ WriteColumn(data.cookingStartedAt, row.cookingStartedAt) \in Column
      /\ WriteColumn(data.readyAt, row.readyAt) \in Column
      /\ WriteColumn(data.rejectionReason, row.rejectionReason) \in Column
      /\ WriteColumn(data.preparationTime, row.preparationTime) \in Column
  BY DEF WriteColumn, Row, Data, Undefined, Column
<1> QED
  BY <1>1 DEF Updated, Row

\* Deciding to write well-formed data about an existing order keeps the types.
LEMMA DecideType ==
  ASSUME TypeOK,
         NEW s \in Sessions, NEW h \in Handler, NEW o \in DOMAIN orders,
         NEW data \in Data, NEW n \in NoticeKind \cup {Undefined},
         Decide(s, h, o, data, n)
  PROVE  TypeOK'
<1> DEFINE r == [phase |-> "writing", handler |-> h, order |-> o, data |-> data,
                 notice |-> n]
<1>1. r \in Request /\ r.order = o
  BY DEF Request, TypeOK
<1>2. requests' = [requests EXCEPT ![s] = r]
  BY DEF Decide
<1>3. requests' \in [Sessions -> Request]
  BY <1>1, <1>2 DEF TypeOK
<1>4. \A t \in Sessions : requests'[t] # Idle => requests'[t].order \in DOMAIN orders
  BY <1>1, <1>2 DEF TypeOK
<1> QED
  BY <1>3, <1>4 DEF TypeOK, Decide

-----------------------------------------------------------------------------
(* What a handler has established when it decides to write *)

\* The checks of the handlers, as far as the invariants need them: facts about
\* the row that was read and the data that will be written.
Checked(o, data, notice) ==
  LET row == orders[o]
  IN  /\ data.status \in PaidStatus =>
           \/ PaymentCompleted(row)
           \/ data.payment = "COMPLETED"
           \/ row.status \in PaidStatus
      /\ data.status = "COOKING" =>
           data.cookingStartedAt = "set" \/ row.status = "COOKING"
      /\ data.status = "READY" => data.readyAt = "set" \/ row.status = "READY"
      /\ notice = "accepted" => /\ PaymentCompleted(row)
                                /\ data.cookingStartedAt = "set"
                                /\ data.preparationTime = "set"
      /\ notice \in {"confirmed", "declined"} => row.status = "DELIVERED"
      /\ Legal(row, data, notice)

\* Session s has read an existing order and decided to write well-formed data
\* about it, after the checks of some handler.
DecidesAfterChecks(s) ==
  \E h \in Handler, o \in DOMAIN orders, data \in Data,
     n \in NoticeKind \cup {Undefined} :
    /\ Decide(s, h, o, data, n)
    /\ Checked(o, data, n)

\* A cancellation needs no checks: CANCELLED is not a paid status.  A rejection is
\* an answer to an order that waits for one.
LEMMA CancellationChecked ==
  ASSUME NEW o, NEW reason \in Column, NEW n \in {"rejected", Undefined},
         n = "rejected" => orders[o].status = "AWAITING_COOK_ACCEPTANCE"
  PROVE  /\ Checked(o, [NoChange EXCEPT !.status = "CANCELLED"], n)
         /\ Checked(o, [NoChange EXCEPT !.status = "CANCELLED",
                                        !.rejectionReason = reason], n)
  BY DEF Checked, Legal, NoChange, Undefined, PaidStatus

\* A change of stage by the cook's table or by an operator stamps the row.
LEMMA StageChangeChecked ==
  ASSUME NEW o, NEW current \in Status, NEW next \in Status,
         orders[o].status = current,
         PaymentCompleted(orders[o]) \/ current \in PaidStatus,
         \/ <<current, next>> \in ValidNextStatuses
         \/ next \in AdminStatuses /\ PaymentCompleted(orders[o])
  PROVE  Checked(o, [CookingLifecycleTimestamps(current, next) EXCEPT !.status = next],
                 Undefined)
<1> DEFINE data == [CookingLifecycleTimestamps(current, next) EXCEPT !.status = next]
<1>1. /\ data.status = next /\ data.payment = Undefined
      /\ next = "COOKING" => data.cookingStartedAt = "set" \/ current = "COOKING"
      /\ next = "READY" => data.readyAt = "set" \/ current = "READY"
  BY DEF CookingLifecycleTimestamps, NoChange
<1>2. Legal(orders[o], data, Undefined)
  BY <1>1 DEF Legal, Undefined
<1>3. Checked(o, data, Undefined)
  <2> HIDE DEF data
  <2> QED
    BY <1>1, <1>2 DEF Checked, Undefined
<1> QED
  BY <1>3

\* The handlers of the cook decide only after their checks.
LEMMA CookRequestChecks ==
  ASSUME TypeOK, NEW s \in Sessions, NEW o \in Orders, CookRequest(s, o)
  PROVE  DecidesAfterChecks(s)
<1> PICK c \in Cooks :
      \/ AcceptCookOrder(s, o, c)
      \/ RejectCookOrder(s, o, c)
      \/ \E next \in Status : UpdateStatus(s, o, c, next)
      \/ CancelByCook(s, o, c)
  BY DEF CookRequest
<1>1. CASE AcceptCookOrder(s, o, c)
  <2>1. /\ o \in DOMAIN orders /\ PaymentCompleted(orders[o])
        /\ orders[o].status = "AWAITING_COOK_ACCEPTANCE"
    BY <1>1 DEF AcceptCookOrder, Reads
  <2>2. Decide(s, "acceptCookOrder", o, AcceptedData, "accepted")
    BY <1>1 DEF AcceptCookOrder
  <2>3. Checked(o, AcceptedData, "accepted")
    BY <2>1 DEF Checked, Legal, AcceptedData, NoChange, Undefined
  <2> QED
    BY <2>1, <2>2, <2>3, HandlerDataType DEF DecidesAfterChecks, Handler, NoticeKind
<1>2. CASE RejectCookOrder(s, o, c)
  <2> DEFINE data == [NoChange EXCEPT !.status = "CANCELLED", !.rejectionReason = "set"]
  <2>1. /\ o \in DOMAIN orders /\ Decide(s, "rejectCookOrder", o, data, "rejected")
        /\ orders[o].status = "AWAITING_COOK_ACCEPTANCE"
    BY <1>2 DEF RejectCookOrder, Reads
  <2>2. Checked(o, data, "rejected")
    BY <2>1, CancellationChecked DEF Column
  <2>3. data \in Data
    BY HandlerDataType
  <2> HIDE DEF data
  <2> QED
    BY <2>1, <2>2, <2>3 DEF DecidesAfterChecks, Handler, NoticeKind
<1>3. ASSUME NEW next \in Status, UpdateStatus(s, o, c, next)
      PROVE  DecidesAfterChecks(s)
  <2> DEFINE data == [CookingLifecycleTimestamps(orders[o].status, next)
                        EXCEPT !.status = next]
  <2>1. /\ o \in DOMAIN orders /\ orders[o].status \in PaidStatus
        /\ <<orders[o].status, next>> \in ValidNextStatuses
    BY <1>3 DEF UpdateStatus, Reads, ValidNextStatuses, PaidStatus, Status
  <2>2. orders[o].status \in Status
    BY <2>1 DEF PaidStatus
  <2>3. data \in Data
    BY <2>2, HandlerDataType
  <2>4. Checked(o, data, Undefined)
    BY <2>1, <2>2, StageChangeChecked
  <2>5. Decide(s, "updateStatus", o, data, Undefined)
    BY <1>3 DEF UpdateStatus
  <2> HIDE DEF data
  <2> QED
    BY <2>1, <2>3, <2>4, <2>5 DEF DecidesAfterChecks, Handler
<1>4. CASE CancelByCook(s, o, c)
  <2> DEFINE data == [NoChange EXCEPT !.status = "CANCELLED"]
  <2>1. o \in DOMAIN orders /\ Decide(s, "cancelByCook", o, data, Undefined)
    BY <1>4 DEF CancelByCook, Reads
  <2>2. Checked(o, data, Undefined)
    BY CancellationChecked DEF Column, Undefined
  <2>3. data \in Data
    BY HandlerDataType DEF Status
  <2> HIDE DEF data
  <2> QED
    BY <2>1, <2>2, <2>3 DEF DecidesAfterChecks, Handler
<1> QED
  BY <1>1, <1>2, <1>3, <1>4

\* The handlers of the customer decide only after their checks.
LEMMA CustomerRequestChecks ==
  ASSUME TypeOK, NEW s \in Sessions, NEW o \in Orders, CustomerRequest(s, o)
  PROVE  DecidesAfterChecks(s)
<1> PICK u \in Users :
      \/ AcceptDeliveredOrder(s, o, u)
      \/ RejectDeliveredOrder(s, o, u)
      \/ CancelByUser(s, o, u)
  BY DEF CustomerRequest
<1>1. CASE AcceptDeliveredOrder(s, o, u)
  <2> DEFINE data == [NoChange EXCEPT !.status = "CONFIRMED"]
  <2>1. /\ o \in DOMAIN orders /\ orders[o].status = "DELIVERED"
        /\ Decide(s, "acceptDeliveredOrder", o, data, "confirmed")
    BY <1>1 DEF AcceptDeliveredOrder, Reads
  <2>2. Checked(o, data, "confirmed")
    BY <2>1 DEF Checked, Legal, NoChange, Undefined, PaidStatus, Status
  <2>3. data \in Data
    BY HandlerDataType DEF Status
  <2> HIDE DEF data
  <2> QED
    BY <2>1, <2>2, <2>3 DEF DecidesAfterChecks, Handler, NoticeKind
<1>2. CASE RejectDeliveredOrder(s, o, u)
  <2> DEFINE data == [NoChange EXCEPT !.status = "CANCELLED", !.rejectionReason = "set"]
  <2>1. /\ o \in DOMAIN orders /\ orders[o].status = "DELIVERED"
        /\ Decide(s, "rejectDeliveredOrder", o, data, "declined")
    BY <1>2 DEF RejectDeliveredOrder, Reads
  <2>2. Checked(o, data, "declined")
    BY <2>1 DEF Checked, Legal, NoChange, Undefined, PaidStatus
  <2>3. data \in Data
    BY HandlerDataType
  <2> HIDE DEF data
  <2> QED
    BY <2>1, <2>2, <2>3 DEF DecidesAfterChecks, Handler, NoticeKind
<1>3. CASE CancelByUser(s, o, u)
  <2> DEFINE data == [NoChange EXCEPT !.status = "CANCELLED"]
  <2>1. o \in DOMAIN orders /\ Decide(s, "cancelByUser", o, data, Undefined)
    BY <1>3 DEF CancelByUser, Reads
  <2>2. Checked(o, data, Undefined)
    BY CancellationChecked DEF Column, Undefined
  <2>3. data \in Data
    BY HandlerDataType DEF Status
  <2> HIDE DEF data
  <2> QED
    BY <2>1, <2>2, <2>3 DEF DecidesAfterChecks, Handler
<1> QED
  BY <1>1, <1>2, <1>3

\* A payment completed now justifies the status it releases the order to.
LEMMA PaymentChecked ==
  ASSUME NEW o, NEW p \in PaymentStatus, ~(p = "COMPLETED" /\ PaymentCompleted(orders[o]))
  PROVE  Checked(o, PaymentData(orders[o], p), Undefined)
<1> DEFINE data == PaymentData(orders[o], p)
<1>1. data.payment = p /\ p # Undefined
  BY DEF PaymentData, NoChange, Undefined, PaymentStatus
<1>2. Legal(orders[o], data, Undefined)
  BY <1>1 DEF Legal, Undefined
<1>3. data.status # Undefined => p = "COMPLETED" /\ data.status = "AWAITING_COOK_ACCEPTANCE"
  BY DEF PaymentData, NoChange
<1>4. Checked(o, data, Undefined)
  <2> HIDE DEF data
  <2> QED
    BY <1>1, <1>2, <1>3 DEF Checked, Undefined, PaidStatus, Status
<1> QED
  BY <1>4

\* The handlers of operators decide only after their checks, but for the first
\* read of markOrderPaidByAdmin, which decides nothing yet.
LEMMA AdminRequestChecks ==
  ASSUME TypeOK, NEW s \in Sessions, NEW o \in Orders, AdminRequest(s, o),
         ~MarkOrderPaidByAdmin(s, o)
  PROVE  DecidesAfterChecks(s)
<1>1. ASSUME NEW reason \in Column \cup {Undefined}, NEW prep \in Column \cup {Undefined},
             PatchOrderByAdmin(s, o, reason, prep)
      PROVE  DecidesAfterChecks(s)
  <2> DEFINE data == [NoChange EXCEPT !.rejectionReason = reason,
                                      !.preparationTime = prep]
  <2>1. o \in DOMAIN orders /\ Decide(s, "patchOrderByAdmin", o, data, Undefined)
    BY <1>1 DEF PatchOrderByAdmin, Reads
  <2>2. Checked(o, data, Undefined)
    BY DEF Checked, Legal, NoChange, Undefined, PaidStatus, Status
  <2>3. data \in Data
    BY HandlerDataType
  <2> HIDE DEF data
  <2> QED
    BY <2>1, <2>2, <2>3 DEF DecidesAfterChecks, Handler
<1>2. ASSUME NEW next \in AdminStatuses, SetOrderStatusByAdmin(s, o, next)
      PROVE  DecidesAfterChecks(s)
  <2> DEFINE data == [CookingLifecycleTimestamps(orders[o].status, next)
                        EXCEPT !.status = next]
  <2>1. o \in DOMAIN orders /\ PaymentCompleted(orders[o]) /\ next \in Status
    BY <1>2, AdminStatusesAssumption DEF SetOrderStatusByAdmin, Reads
  <2>2. orders[o].status \in Status
    BY <2>1 DEF TypeOK, Row
  <2>3. data \in Data
    BY <2>1, <2>2, HandlerDataType
  <2>4. Checked(o, data, Undefined)
    BY <2>1, <2>2, StageChangeChecked
  <2>5. Decide(s, "setOrderStatusByAdmin", o, data, Undefined)
    BY <1>2 DEF SetOrderStatusByAdmin
  <2> HIDE DEF data
  <2> QED
    BY <2>1, <2>3, <2>4, <2>5 DEF DecidesAfterChecks, Handler
<1>3. ASSUME NEW reason \in Column, CancelOrderByAdmin(s, o, reason)
      PROVE  DecidesAfterChecks(s)
  <2> DEFINE data == [NoChange EXCEPT !.status = "CANCELLED",
                                      !.rejectionReason = reason]
  <2>1. o \in DOMAIN orders /\ Decide(s, "cancelOrderByAdmin", o, data, Undefined)
    BY <1>3 DEF CancelOrderByAdmin, Reads
  <2>2. Checked(o, data, Undefined)
    BY CancellationChecked DEF Undefined
  <2>3. data \in Data
    BY HandlerDataType
  <2> HIDE DEF data
  <2> QED
    BY <2>1, <2>2, <2>3 DEF DecidesAfterChecks, Handler
<1>4. ASSUME NEW p \in PaymentStatus, SetOrderPaymentStatusByAdmin(s, o, p)
      PROVE  DecidesAfterChecks(s)
  <2>1. /\ o \in DOMAIN orders
        /\ Decide(s, "setOrderPaymentStatusByAdmin", o, PaymentData(orders[o], p),
                  Undefined)
        /\ ~(p = "COMPLETED" /\ PaymentCompleted(orders[o]))
    BY <1>4 DEF SetOrderPaymentStatusByAdmin, Reads
  <2>2. Checked(o, PaymentData(orders[o], p), Undefined)
    BY <2>1, PaymentChecked
  <2>3. PaymentData(orders[o], p) \in Data
    BY <2>1, HandlerDataType DEF TypeOK
  <2> QED
    BY <2>1, <2>2, <2>3 DEF DecidesAfterChecks, Handler
<1> QED
  BY <1>1, <1>2, <1>3, <1>4 DEF AdminRequest

\* The second read of markOrderPaidByAdmin ends the request or decides, with the
\* checks of setOrderPaymentStatusByAdmin.
LEMMA MarkPaidRereadsChecks ==
  ASSUME TypeOK, NEW s \in Sessions, MarkPaidRereads(s)
  PROVE  \/ DecidesAfterChecks(s)
         \/ /\ requests' = [requests EXCEPT ![s] = Idle]
            /\ UNCHANGED <<orders, notifications, everPaid, everDelivered, everCleared>>
<1> DEFINE o == requests[s].order
<1>1. o \in DOMAIN orders
  BY DEF MarkPaidRereads, TypeOK, Idle
<1>2. CASE PaymentCompleted(orders[o])
  BY <1>2 DEF MarkPaidRereads
<1>3. CASE ~PaymentCompleted(orders[o])
  <2>1. Decide(s, "setOrderPaymentStatusByAdmin", o,
               PaymentData(orders[o], "COMPLETED"), Undefined)
    BY <1>3 DEF MarkPaidRereads
  <2>2. Checked(o, PaymentData(orders[o], "COMPLETED"), Undefined)
    BY <1>3, PaymentChecked DEF PaymentStatus
  <2>3. PaymentData(orders[o], "COMPLETED") \in Data
    BY <1>1, HandlerDataType DEF TypeOK, PaymentStatus
  <2> HIDE DEF o
  <2> QED
    BY <1>1, <2>1, <2>2, <2>3 DEF DecidesAfterChecks, Handler
<1> QED
  BY <1>2, <1>3

-----------------------------------------------------------------------------
(* The kinds of steps the invariants have to withstand *)

\* A request ends, or is found payable, without touching the table.
OnlyReads(s) ==
  /\ \/ requests' = [requests EXCEPT ![s] = Idle]
     \/ \E o \in DOMAIN orders :
          requests' = [requests EXCEPT ![s] = [phase |-> "payable", order |-> o]]
  /\ UNCHANGED <<orders, notifications, everPaid, everDelivered, everCleared>>

\* A step creates an order, decides a write, only reads, or commits a write.
LEMMA StepKinds ==
  ASSUME TypeOK, Next
  PROVE  \/ \E o \in Orders, u \in Users, c \in Cooks : CreateFromCart(o, u, c)
         \/ \E s \in Sessions : DecidesAfterChecks(s)
         \/ \E s \in Sessions : OnlyReads(s)
         \/ \E s \in Sessions : Commit(s)
<1>1. ASSUME NEW s \in Sessions, NEW o \in Orders, MarkOrderPaidByAdmin(s, o)
      PROVE  OnlyReads(s)
  BY <1>1 DEF MarkOrderPaidByAdmin, OnlyReads, Reads
<1>2. ASSUME NEW s \in Sessions, NEW o \in Orders, AdminRequest(s, o)
      PROVE  DecidesAfterChecks(s) \/ OnlyReads(s)
  BY <1>1, <1>2, AdminRequestChecks
<1>3. ASSUME NEW s \in Sessions, MarkPaidRereads(s)
      PROVE  DecidesAfterChecks(s) \/ OnlyReads(s)
  BY <1>3, MarkPaidRereadsChecks DEF OnlyReads
<1>4. ASSUME NEW s \in Sessions, Fail(s)
      PROVE  OnlyReads(s)
  BY <1>4 DEF Fail, OnlyReads
<1> QED
  BY <1>2, <1>3, <1>4, CookRequestChecks, CustomerRequestChecks DEF Next

\* A new order is a well-formed row; the rows there were are kept.
LEMMA CreateFromCartType ==
  ASSUME TypeOK, NEW o \in Orders, NEW u \in Users, NEW c \in Cooks,
         CreateFromCart(o, u, c)
  PROVE  TypeOK'
<1>1. DOMAIN orders' = DOMAIN orders \cup {o}
  BY DEF CreateFromCart
<1>2. orders'[o] \in Row
  BY DEF CreateFromCart, Row, Status, PaymentStatus, Column
<1>3. \A x \in DOMAIN orders : orders'[x] = orders[x]
  BY DEF CreateFromCart
<1>4. orders' \in [DOMAIN orders' -> Row]
  BY <1>1, <1>2, <1>3 DEF TypeOK, CreateFromCart
<1> QED
  BY <1>1, <1>4 DEF TypeOK, CreateFromCart

\* A step that only reads keeps the types.
LEMMA OnlyReadsType ==
  ASSUME TypeOK, NEW s \in Sessions, OnlyReads(s)
  PROVE  TypeOK'
<1>1. CASE requests' = [requests EXCEPT ![s] = Idle]
  BY <1>1 DEF TypeOK, OnlyReads, Request
<1>2. ASSUME NEW o \in DOMAIN orders,
             requests' = [requests EXCEPT ![s] = [phase |-> "payable", order |-> o]]
      PROVE  TypeOK'
  <2> DEFINE r == [phase |-> "payable", order |-> o]
  <2>1. r \in Request /\ r.order = o
    BY DEF Request, TypeOK
  <2>2. requests' = [requests EXCEPT ![s] = r]
    BY <1>2
  <2> HIDE DEF r
  <2>3. requests' \in [Sessions -> Request]
    BY <2>1, <2>2 DEF TypeOK
  <2>4. \A t \in Sessions : requests'[t] # Idle => requests'[t].order \in DOMAIN orders
    BY <2>1, <2>2 DEF TypeOK
  <2> QED
    BY <2>3, <2>4 DEF TypeOK, OnlyReads
<1> QED
  BY <1>1, <1>2 DEF OnlyReads

\* What a request that is about to write holds.
LEMMA WritingRequest ==
  ASSUME TypeOK, NEW s \in Sessions, requests[s].phase = "writing"
  PROVE  /\ requests[s].order \in DOMAIN orders
         /\ requests[s].order \in Orders
         /\ requests[s].data \in Data
         /\ requests[s].notice \in NoticeKind \cup {Undefined}
  BY DEF TypeOK, Request, Idle

\* A write applies well-formed data to an existing row.
LEMMA CommitType ==
  ASSUME TypeOK, NEW s \in Sessions, Commit(s)
  PROVE  TypeOK'
<1> DEFINE r == requests[s]
<1>1. /\ r.order \in DOMAIN orders /\ r.order \in Orders
      /\ r.data \in Data /\ r.notice \in NoticeKind \cup {Undefined}
  BY WritingRequest DEF Commit
<1>2. /\ orders' = [orders EXCEPT ![r.order] = Updated(orders[r.order], r.data)]
      /\ notifications' =
           notifications \cup {<<r.order, k>> : k \in {r.notice} \ {Undefined}}
      /\ everPaid' = everPaid \cup (IF r.data.payment = "COMPLETED" THEN {r.order} ELSE {})
      /\ everDelivered' =
           everDelivered \cup (IF r.data.status = "DELIVERED" THEN {r.order} ELSE {})
      /\ everCleared' =
           everCleared \cup (IF r.data.preparationTime = "null" THEN {r.order} ELSE {})
      /\ requests' = [requests EXCEPT ![s] = Idle]
  BY DEF Commit
<1> HIDE DEF r
<1>3. DOMAIN orders' = DOMAIN orders /\ orders' \in [DOMAIN orders' -> Row]
  BY <1>1, <1>2, UpdatedType DEF TypeOK
<1>4. notifications' \subseteq (Orders \X NoticeKind)
  BY <1>1, <1>2 DEF TypeOK
<1>5. everPaid' \subseteq Orders /\ everDelivered' \subseteq Orders /\ everCleared' \subseteq Orders
  BY <1>1, <1>2 DEF TypeOK
<1>6. /\ requests' \in [Sessions -> Request]
      /\ \A t \in Sessions : requests'[t] # Idle => requests'[t].order \in DOMAIN orders'
  BY <1>2, <1>3 DEF TypeOK, Request
<1> QED
  BY <1>3, <1>4, <1>5, <1>6 DEF TypeOK

\* Type correctness: every state OrderService reaches is well formed.
THEOREM TypeCorrectness == Spec => []TypeOK
<1>1. Init => TypeOK
  BY DEF Init, TypeOK, Request
<1>2. TypeOK /\ [Next]_vars => TypeOK'
  <2> SUFFICES ASSUME TypeOK, [Next]_vars
               PROVE  TypeOK'
    OBVIOUS
  <2>1. ASSUME NEW s \in Sessions, DecidesAfterChecks(s)
        PROVE  TypeOK'
    BY <2>1, DecideType DEF DecidesAfterChecks
  <2>2. CASE Next
    BY <2>1, <2>2, StepKinds, CreateFromCartType, OnlyReadsType, CommitType
  <2>3. CASE UNCHANGED vars
    BY <2>3 DEF vars, TypeOK
  <2> QED
    BY <2>2, <2>3
<1> QED
  BY <1>1, <1>2, PTL DEF Spec

-----------------------------------------------------------------------------
(* The inductive invariant *)

\* Checks made on a row the invariant holds of justify the write for good.
LEMMA DecideKeepsIInv ==
  ASSUME IInv, NEW s \in Sessions, DecidesAfterChecks(s)
  PROVE  IInv'
<1> PICK h \in Handler, o \in DOMAIN orders, data \in Data,
         n \in NoticeKind \cup {Undefined} :
      /\ Decide(s, h, o, data, n)
      /\ Checked(o, data, n)
  BY DEF DecidesAfterChecks
<1> DEFINE r == [phase |-> "writing", handler |-> h, order |-> o, data |-> data,
                 notice |-> n]
<1>1. TypeOK /\ TypeOK'
  BY DecideType DEF IInv
<1>2. /\ requests' = [requests EXCEPT ![s] = r]
      /\ UNCHANGED <<orders, notifications, everPaid, everDelivered, everCleared>>
  BY DEF Decide
<1>3. Justified(r)
  BY DEF Checked, Justified, IInv, HistoryFollowsRows, KitchenOnlyAfterPayment,
         StagesLeaveTheirMark
<1>4. Justified(r)'
  BY <1>2, <1>3 DEF Justified
<1>5. PendingWritesJustified'
  <2> SUFFICES ASSUME NEW t \in Sessions, (requests[t].phase)' = "writing"
               PROVE  Justified(requests[t])'
    BY DEF PendingWritesJustified
  <2>1. CASE t = s
    BY <1>1, <1>2, <1>4, <2>1 DEF TypeOK
  <2>2. CASE t # s
    <3>1. requests'[t] = requests[t]
      BY <1>1, <1>2, <2>2 DEF TypeOK
    <3>2. Justified(requests[t])
      BY <3>1 DEF IInv, PendingWritesJustified
    <3> QED
      BY <1>2, <3>1, <3>2 DEF Justified
  <2> QED
    BY <2>1, <2>2
<1> QED
  BY <1>1, <1>2, <1>5
     DEF IInv, HistoryFollowsRows, KitchenOnlyAfterPayment, StagesLeaveTheirMark,
         NoticesTellTheTruth

\* A new order awaits payment; what is pending concerns other orders.
LEMMA CreateFromCartKeepsIInv ==
  ASSUME IInv, NEW o \in Orders, NEW u \in Users, NEW c \in Cooks,
         CreateFromCart(o, u, c)
  PROVE  IInv'
<1>1. /\ o \notin DOMAIN orders
      /\ DOMAIN orders' = DOMAIN orders \cup {o}
      /\ orders'[o].status = "AWAITING_PAYMENT" /\ orders'[o].payment = "PENDING"
      /\ \A x \in DOMAIN orders : orders'[x] = orders[x]
      /\ UNCHANGED <<requests, notifications, everPaid, everDelivered, everCleared>>
  BY DEF CreateFromCart
<1>2. TypeOK /\ TypeOK'
  BY CreateFromCartType DEF IInv
<1>3. HistoryFollowsRows'
  BY <1>1 DEF IInv, HistoryFollowsRows, PaymentCompleted
<1>4. KitchenOnlyAfterPayment'
  BY <1>1 DEF IInv, KitchenOnlyAfterPayment, PaidStatus
<1>5. StagesLeaveTheirMark'
  BY <1>1 DEF IInv, StagesLeaveTheirMark
<1>6. NoticesTellTheTruth'
  BY <1>1 DEF IInv, NoticesTellTheTruth
<1>7. PendingWritesJustified'
  <2> SUFFICES ASSUME NEW t \in Sessions, requests[t].phase = "writing"
               PROVE  Justified(requests[t])'
    BY <1>1 DEF PendingWritesJustified
  <2>1. Justified(requests[t])
    BY DEF IInv, PendingWritesJustified
  <2>2. requests[t].order \in DOMAIN orders
    BY <1>2, WritingRequest
  <2> QED
    BY <1>1, <2>1, <2>2 DEF Justified
<1> QED
  BY <1>2, <1>3, <1>4, <1>5, <1>6, <1>7 DEF IInv

\* A step that only reads leaves fewer pending writes.
LEMMA OnlyReadsKeepsIInv ==
  ASSUME IInv, NEW s \in Sessions, OnlyReads(s)
  PROVE  IInv'
<1>1. TypeOK /\ TypeOK'
  BY OnlyReadsType DEF IInv
<1>2. /\ UNCHANGED <<orders, notifications, everPaid, everDelivered, everCleared>>
      /\ requests'[s].phase # "writing"
      /\ \A t \in Sessions \ {s} : requests'[t] = requests[t]
  BY <1>1 DEF OnlyReads, TypeOK, Idle
<1>3. PendingWritesJustified'
  <2> SUFFICES ASSUME NEW t \in Sessions, (requests[t].phase)' = "writing"
               PROVE  Justified(requests[t])'
    BY DEF PendingWritesJustified
  <2>1. requests'[t] = requests[t]
    BY <1>2
  <2>2. Justified(requests[t])
    BY <2>1 DEF IInv, PendingWritesJustified
  <2> QED
    BY <1>2, <2>1, <2>2 DEF Justified
<1> QED
  BY <1>1, <1>2, <1>3
     DEF IInv, HistoryFollowsRows, KitchenOnlyAfterPayment, StagesLeaveTheirMark,
         NoticesTellTheTruth

\* Writes never clear a stamp, and a preparation time only if the data says null.
LEMMA WritesKeepColumns ==
  ASSUME NEW row \in Row, NEW data \in Data
  PROVE  LET new == Updated(row, data)
         IN  /\ new.status = WriteColumn(data.status, row.status)
             /\ new.payment = WriteColumn(data.payment, row.payment)
             /\ new.cookingStartedAt = "set" <=>
                  data.cookingStartedAt = "set" \/ row.cookingStartedAt = "set"
             /\ new.readyAt = "set" <=> data.readyAt = "set" \/ row.readyAt = "set"
             /\ new.preparationTime = "set" <=>
                  \/ data.preparationTime = "set"
                  \/ row.preparationTime = "set" /\ data.preparationTime # "null"
  BY DEF Updated, WriteColumn, Row, Data, Undefined, Column

\* A justified write establishes what the invariant says of its row, and the
\* facts that justify the other pending writes survive it.
LEMMA CommitKeepsIInv ==
  ASSUME IInv, NEW s \in Sessions, Commit(s)
  PROVE  IInv'
<1> DEFINE r == requests[s]
           o == r.order
           old == orders[o]
           new == Updated(old, r.data)
<1>1. TypeOK /\ TypeOK'
  BY CommitType DEF IInv
<1>2. /\ o \in DOMAIN orders /\ o \in Orders
      /\ r.data \in Data /\ r.notice \in NoticeKind \cup {Undefined}
      /\ old \in Row
  BY <1>1, WritingRequest DEF Commit, TypeOK
<1>3. /\ orders' = [orders EXCEPT ![o] = new]
      /\ notifications' = notifications \cup {<<o, k>> : k \in {r.notice} \ {Undefined}}
      /\ everPaid' = everPaid \cup (IF r.data.payment = "COMPLETED" THEN {o} ELSE {})
      /\ everDelivered' =
           everDelivered \cup (IF r.data.status = "DELIVERED" THEN {o} ELSE {})
      /\ everCleared' =
           everCleared \cup (IF r.data.preparationTime = "null" THEN {o} ELSE {})
      /\ requests' = [requests EXCEPT ![s] = Idle]
  BY DEF Commit
<1>4. Justified(r)
  BY DEF IInv, PendingWritesJustified, Commit
<1>5. /\ new.status = WriteColumn(r.data.status, old.status)
      /\ new.payment = WriteColumn(r.data.payment, old.payment)
      /\ new.cookingStartedAt = "set" <=>
           r.data.cookingStartedAt = "set" \/ old.cookingStartedAt = "set"
      /\ new.readyAt = "set" <=> r.data.readyAt = "set" \/ old.readyAt = "set"
      /\ new.preparationTime = "set" <=>
           \/ r.data.preparationTime = "set"
           \/ old.preparationTime = "set" /\ r.data.preparationTime # "null"
  BY <1>2, WritesKeepColumns
<1>6. /\ DOMAIN orders' = DOMAIN orders
      /\ orders'[o] = new
      /\ \A x \in DOMAIN orders \ {o} : orders'[x] = orders[x]
  BY <1>1, <1>2, <1>3 DEF TypeOK
<1>7. /\ everPaid \subseteq everPaid' /\ everDelivered \subseteq everDelivered'
      /\ r.data.payment = "COMPLETED" => o \in everPaid'
      /\ r.data.status = "DELIVERED" => o \in everDelivered'
      /\ everCleared \subseteq everCleared'
      /\ r.data.preparationTime = "null" => o \in everCleared'
  BY <1>3
<1> HIDE DEF r, o, old, new
<1>8. HistoryFollowsRows'
  <2> SUFFICES ASSUME NEW x \in DOMAIN orders
               PROVE  /\ orders'[x].payment = "COMPLETED" => x \in everPaid'
                      /\ orders'[x].status = "DELIVERED" => x \in everDelivered'
    BY <1>6 DEF HistoryFollowsRows, PaymentCompleted
  <2>1. /\ orders[x].payment = "COMPLETED" => x \in everPaid
        /\ orders[x].status = "DELIVERED" => x \in everDelivered
    BY DEF IInv, HistoryFollowsRows, PaymentCompleted
  <2>2. CASE x = o
    BY <1>5, <1>6, <1>7, <2>1, <2>2 DEF WriteColumn, old
  <2>3. CASE x # o
    BY <1>6, <1>7, <2>1, <2>3
  <2> QED
    BY <2>2, <2>3
<1>9. KitchenOnlyAfterPayment'
  <2> SUFFICES ASSUME NEW x \in DOMAIN orders, orders'[x].status \in PaidStatus
               PROVE  x \in everPaid'
    BY <1>6 DEF KitchenOnlyAfterPayment
  <2>1. orders[x].status \in PaidStatus => x \in everPaid
    BY DEF IInv, KitchenOnlyAfterPayment
  <2>2. CASE x = o
    BY <1>4, <1>5, <1>6, <1>7, <2>1, <2>2 DEF WriteColumn, Justified, r, o, old
  <2>3. CASE x # o
    BY <1>6, <1>7, <2>1, <2>3
  <2> QED
    BY <2>2, <2>3
<1>10. StagesLeaveTheirMark'
  <2> SUFFICES ASSUME NEW x \in DOMAIN orders
               PROVE  /\ orders'[x].status = "COOKING" =>
                           orders'[x].cookingStartedAt = "set"
                      /\ orders'[x].status = "READY" => orders'[x].readyAt = "set"
    BY <1>6 DEF StagesLeaveTheirMark
  <2>1. /\ orders[x].status = "COOKING" => orders[x].cookingStartedAt = "set"
        /\ orders[x].status = "READY" => orders[x].readyAt = "set"
    BY DEF IInv, StagesLeaveTheirMark
  <2>2. CASE x = o
    BY <1>4, <1>5, <1>6, <2>1, <2>2 DEF WriteColumn, Justified, r, o, old
  <2>3. CASE x # o
    BY <1>6, <2>1, <2>3
  <2> QED
    BY <2>2, <2>3
<1>11. NoticesTellTheTruth'
  <2>1. ASSUME NEW x \in Orders, <<x, "accepted">> \in notifications'
        PROVE  /\ x \in DOMAIN orders' /\ x \in everPaid'
               /\ orders'[x].cookingStartedAt = "set"
               /\ orders'[x].preparationTime = "set" \/ x \in everCleared'
    <3>1. CASE <<x, "accepted">> \in notifications
      <4>1. /\ x \in DOMAIN orders /\ x \in everPaid
            /\ orders[x].cookingStartedAt = "set"
            /\ orders[x].preparationTime = "set" \/ x \in everCleared
        BY <3>1 DEF IInv, NoticesTellTheTruth
      <4> QED
        BY <4>1, <1>5, <1>6, <1>7 DEF old
    <3>2. CASE x = o /\ r.notice = "accepted"
      BY <3>2, <1>2, <1>4, <1>5, <1>6, <1>7 DEF Justified, o
    <3> QED
      BY <2>1, <3>1, <3>2, <1>3
  <2>2. ASSUME NEW x \in Orders, NEW verdict \in {"confirmed", "declined"},
               <<x, verdict>> \in notifications'
        PROVE  x \in everDelivered'
    <3>1. CASE <<x, verdict>> \in notifications
      BY <3>1, <1>7 DEF IInv, NoticesTellTheTruth
    <3>2. CASE x = o /\ r.notice = verdict
      BY <3>2, <1>4, <1>7 DEF Justified, o
    <3> QED
      BY <2>2, <3>1, <3>2, <1>3
  <2> QED
    BY <2>1, <2>2 DEF NoticesTellTheTruth
<1>12. PendingWritesJustified'
  <2> SUFFICES ASSUME NEW t \in Sessions, (requests[t].phase)' = "writing"
               PROVE  Justified(requests[t])'
    BY DEF PendingWritesJustified
  <2>1. requests'[t] = requests[t]
    BY <1>1, <1>3 DEF TypeOK, Idle
  <2>2. Justified(requests[t]) /\ requests[t].order \in DOMAIN orders
    BY <1>1, <2>1, WritingRequest DEF IInv, PendingWritesJustified
  <2>3. LET x == requests[t].order
        IN  /\ orders[x].cookingStartedAt = "set" => orders'[x].cookingStartedAt = "set"
            /\ orders[x].readyAt = "set" => orders'[x].readyAt = "set"
    BY <1>5, <1>6, <2>2 DEF old
  <2> QED
    BY <1>7, <2>1, <2>2, <2>3 DEF Justified
<1> QED
  BY <1>1, <1>8, <1>9, <1>10, <1>11, <1>12 DEF IInv

\* IInv holds initially and every step keeps it.
THEOREM InductiveInvariant == Spec => []IInv
<1>1. Init => IInv
  <2> SUFFICES ASSUME Init
               PROVE  IInv
    OBVIOUS
  <2>1. TypeOK
    BY DEF Init, TypeOK, Request
  <2> QED
    BY <2>1 DEF Init, IInv, HistoryFollowsRows, KitchenOnlyAfterPayment,
                StagesLeaveTheirMark, NoticesTellTheTruth, PendingWritesJustified, Idle
<1>2. IInv /\ [Next]_vars => IInv'
  <2> SUFFICES ASSUME IInv, [Next]_vars
               PROVE  IInv'
    OBVIOUS
  <2>1. CASE Next
    BY <2>1, StepKinds, CreateFromCartKeepsIInv, DecideKeepsIInv, OnlyReadsKeepsIInv,
       CommitKeepsIInv DEF IInv
  <2>2. CASE UNCHANGED vars
    BY <2>2 DEF vars, IInv, TypeOK, HistoryFollowsRows, KitchenOnlyAfterPayment,
                StagesLeaveTheirMark, NoticesTellTheTruth, PendingWritesJustified,
                Justified
  <2> QED
    BY <2>1, <2>2
<1> QED
  BY <1>1, <1>2, PTL DEF Spec

\* No order reaches the kitchen without a payment, however requests overlap.
THEOREM PaymentComesFirst == Spec => []KitchenOnlyAfterPayment
<1>1. IInv => KitchenOnlyAfterPayment
  BY DEF IInv
<1> QED
  BY <1>1, InductiveInvariant, PTL

\* Orders in COOKING and READY carry the stamps of these stages.
THEOREM StampsAreThere == Spec => []StagesLeaveTheirMark
<1>1. IInv => StagesLeaveTheirMark
  BY DEF IInv
<1> QED
  BY <1>1, InductiveInvariant, PTL

\* Notifications are only sent about what has happened; a preparation time that an
\* operator has cleared since is the one thing the row need not show any more.
THEOREM NotificationsAreTrue == Spec => []NoticesTellTheTruth
<1>1. IInv => NoticesTellTheTruth
  BY DEF IInv
<1> QED
  BY <1>1, InductiveInvariant, PTL

-----------------------------------------------------------------------------
(* The payment queue, and the way to delivery *)

\* What is legal to write about a row that the invariants hold of releases an order
\* with its payment, and follows the stages of the kitchen.
LEMMA LegalFollowsKitchen ==
  ASSUME IInv, KitchenInv, NEW o \in DOMAIN orders, NEW r, r.order = o, r.data \in Data,
         NEW n, Checked(o, r.data, n)
  PROVE  /\ "AWAITING_PAYMENT" \notin AdminStatuses => Releases(r)
         /\ AdminStatuses \cap LateStatus = {} => FollowsKitchen(r)
<1> DEFINE row == orders[o]
           data == r.data
<1>1. Legal(row, data, n)
  BY DEF Checked
<1>2. /\ row \in Row
      /\ data.status \in Status \cup {Undefined}
  BY DEF IInv, TypeOK, Data
<1>3. \/ /\ data.payment # Undefined
         /\ data.status \in {Undefined, "AWAITING_COOK_ACCEPTANCE"}
         /\ data.payment = "COMPLETED" /\ row.status = "AWAITING_PAYMENT" =>
              data.status = "AWAITING_COOK_ACCEPTANCE"
      \/ /\ data.payment = Undefined
         /\ \/ data.status \in {Undefined, "CANCELLED", "COOKING"}
            \/ <<row.status, data.status>> \in ValidNextStatuses
            \/ data.status = "CONFIRMED" /\ row.status = "DELIVERED"
            \/ data.status \in AdminStatuses
  BY <1>1 DEF Legal, PaymentData, NoChange
<1>4. ASSUME "AWAITING_PAYMENT" \notin AdminStatuses
      PROVE  Releases(r)
  BY <1>3, <1>4 DEF Releases, Undefined, ValidNextStatuses
<1>5. ASSUME AdminStatuses \cap LateStatus = {}
      PROVE  FollowsKitchen(r)
  <2>1. /\ row.status \in LateStatus \ {"PENDING"} =>
             row.cookingStartedAt = "set" /\ row.readyAt = "set"
        /\ row.status # "PENDING"
        /\ row.status = "COOKING" => row.cookingStartedAt = "set"
        /\ row.status = "DELIVERED" => o \in everDelivered
    BY <1>5 DEF IInv, KitchenInv, DeliveryFollowsKitchen, StagesLeaveTheirMark,
                HistoryFollowsRows, LateStatus
  <2>2. data.status = "READY" => data.readyAt = "set" \/ row.status = "READY"
    BY DEF Checked
  <2>3. CASE data.status \notin LateStatus
    BY <2>3 DEF FollowsKitchen, LateStatus
  <2>4. CASE data.status \in LateStatus
    <3>1. \/ row.status = "COOKING" /\ data.status = "READY"
          \/ row.status = "READY" /\ data.status = "ON_THE_WAY"
          \/ row.status = "ON_THE_WAY" /\ data.status = "DELIVERED"
          \/ row.status = "DELIVERED" /\ data.status = "CONFIRMED"
      BY <1>3, <1>5, <2>1, <2>4 DEF LateStatus, ValidNextStatuses, Undefined
    <3> QED
      BY <2>1, <2>2, <3>1 DEF FollowsKitchen, LateStatus
  <2> QED
    BY <2>3, <2>4
<1> QED
  BY <1>4, <1>5

\* A request that decides after its checks will write what follows the kitchen.
LEMMA DecideKeepsKitchenInv ==
  ASSUME IInv, IInv', KitchenInv, NEW s \in Sessions, DecidesAfterChecks(s)
  PROVE  KitchenInv'
<1> PICK h \in Handler, o \in DOMAIN orders, data \in Data,
         n \in NoticeKind \cup {Undefined} :
      /\ Decide(s, h, o, data, n)
      /\ Checked(o, data, n)
  BY DEF DecidesAfterChecks
<1> DEFINE r == [phase |-> "writing", handler |-> h, order |-> o, data |-> data,
                 notice |-> n]
<1>1. /\ requests' = [requests EXCEPT ![s] = r]
      /\ UNCHANGED <<orders, notifications, everPaid, everDelivered, everCleared>>
  BY DEF Decide
<1>2. r.order = o /\ r.data = data
  OBVIOUS
<1>3. /\ "AWAITING_PAYMENT" \notin AdminStatuses => Releases(r)
      /\ AdminStatuses \cap LateStatus = {} => FollowsKitchen(r)
  BY <1>2, LegalFollowsKitchen
<1> HIDE DEF r
<1>4. \A t \in Sessions : requests'[t] = IF t = s THEN r ELSE requests[t]
  BY <1>1 DEF IInv, TypeOK
<1>5. PendingPaymentsRelease'
  BY <1>1, <1>3, <1>4 DEF KitchenInv, PendingPaymentsRelease, Releases
<1>6. PendingStagesFollowKitchen'
  BY <1>1, <1>3, <1>4 DEF KitchenInv, PendingStagesFollowKitchen, FollowsKitchen
<1> QED
  BY <1>1, <1>5, <1>6 DEF KitchenInv, PaidOrderLeavesPaymentQueue, DeliveryFollowsKitchen

\* A new order is unpaid and at the beginning of its way.
LEMMA CreateFromCartKeepsKitchenInv ==
  ASSUME IInv, KitchenInv, NEW o \in Orders, NEW u \in Users, NEW c \in Cooks,
         CreateFromCart(o, u, c)
  PROVE  KitchenInv'
<1>1. /\ o \notin DOMAIN orders
      /\ DOMAIN orders' = DOMAIN orders \cup {o}
      /\ orders'[o].status = "AWAITING_PAYMENT" /\ orders'[o].payment = "PENDING"
      /\ \A x \in DOMAIN orders : orders'[x] = orders[x]
      /\ UNCHANGED <<requests, notifications, everPaid, everDelivered, everCleared>>
  BY DEF CreateFromCart
<1>2. \A t \in Sessions : requests[t].phase = "writing" => requests[t].order \in DOMAIN orders
  BY WritingRequest DEF IInv
<1>3. PaidOrderLeavesPaymentQueue'
  BY <1>1 DEF KitchenInv, PaidOrderLeavesPaymentQueue, PaymentCompleted
<1>4. DeliveryFollowsKitchen'
  BY <1>1 DEF KitchenInv, DeliveryFollowsKitchen, LateStatus
<1>5. PendingPaymentsRelease'
  BY <1>1, <1>2 DEF KitchenInv, PendingPaymentsRelease, Releases
<1>6. PendingStagesFollowKitchen'
  BY <1>1, <1>2 DEF KitchenInv, PendingStagesFollowKitchen, FollowsKitchen
<1> QED
  BY <1>3, <1>4, <1>5, <1>6 DEF KitchenInv

LEMMA OnlyReadsKeepsKitchenInv ==
  ASSUME IInv, KitchenInv, NEW s \in Sessions, OnlyReads(s)
  PROVE  KitchenInv'
<1>1. /\ UNCHANGED <<orders, notifications, everPaid, everDelivered, everCleared>>
      /\ requests'[s].phase # "writing"
      /\ \A t \in Sessions \ {s} : requests'[t] = requests[t]
  BY DEF OnlyReads, IInv, TypeOK, Idle
<1> QED
  BY <1>1 DEF KitchenInv, PaidOrderLeavesPaymentQueue, DeliveryFollowsKitchen,
              PendingPaymentsRelease, PendingStagesFollowKitchen, Releases, FollowsKitchen

\* What a commit does to the rows: it writes one, and clears no stamp.
LEMMA CommitWritesOneRow ==
  ASSUME TypeOK, NEW s \in Sessions, Commit(s)
  PROVE  LET r == requests[s]
             old == orders[r.order]
             new == orders'[r.order]
         IN  /\ r.phase = "writing" /\ r.order \in DOMAIN orders /\ r.order \in Orders
             /\ old \in Row /\ r.data \in Data
             /\ DOMAIN orders' = DOMAIN orders
             /\ new = Updated(old, r.data)
             /\ new.status = WriteColumn(r.data.status, old.status)
             /\ new.payment = WriteColumn(r.data.payment, old.payment)
             /\ new.cookingStartedAt = "set" <=>
                  r.data.cookingStartedAt = "set" \/ old.cookingStartedAt = "set"
             /\ new.readyAt = "set" <=> r.data.readyAt = "set" \/ old.readyAt = "set"
             /\ \A x \in DOMAIN orders \ {r.order} : orders'[x] = orders[x]
             /\ everDelivered \subseteq everDelivered'
             /\ \A t \in Sessions : requests'[t] = IF t = s THEN Idle ELSE requests[t]
<1> DEFINE r == requests[s]
           old == orders[r.order]
<1>1. r.order \in DOMAIN orders /\ r.order \in Orders /\ r.data \in Data /\ old \in Row
  BY WritingRequest DEF Commit, TypeOK
<1>2. /\ r.phase = "writing"
      /\ orders' = [orders EXCEPT ![r.order] = Updated(old, r.data)]
      /\ requests' = [requests EXCEPT ![s] = Idle]
      /\ everDelivered \subseteq everDelivered'
  BY DEF Commit
<1>3. /\ DOMAIN orders' = DOMAIN orders
      /\ orders'[r.order] = Updated(old, r.data)
      /\ \A x \in DOMAIN orders \ {r.order} : orders'[x] = orders[x]
      /\ \A t \in Sessions : requests'[t] = IF t = s THEN Idle ELSE requests[t]
  BY <1>1, <1>2 DEF TypeOK
<1> HIDE DEF r, old
<1> QED
  BY <1>1, <1>2, <1>3, WritesKeepColumns DEF r, old

LEMMA CommitKeepsKitchenInv ==
  ASSUME IInv, KitchenInv, NEW s \in Sessions, Commit(s)
  PROVE  KitchenInv'
<1> DEFINE r == requests[s]
           o == r.order
           old == orders[o]
           new == orders'[o]
<1>1. /\ r.phase = "writing" /\ o \in DOMAIN orders
      /\ old \in Row /\ r.data \in Data
      /\ DOMAIN orders' = DOMAIN orders
      /\ new.status = WriteColumn(r.data.status, old.status)
      /\ new.payment = WriteColumn(r.data.payment, old.payment)
      /\ new.cookingStartedAt = "set" <=>
           r.data.cookingStartedAt = "set" \/ old.cookingStartedAt = "set"
      /\ new.readyAt = "set" <=> r.data.readyAt = "set" \/ old.readyAt = "set"
      /\ \A x \in DOMAIN orders \ {o} : orders'[x] = orders[x]
      /\ everDelivered \subseteq everDelivered'
      /\ \A t \in Sessions : requests'[t] = IF t = s THEN Idle ELSE requests[t]
  BY CommitWritesOneRow DEF IInv
<1>2. /\ "AWAITING_PAYMENT" \notin AdminStatuses => Releases(r)
      /\ AdminStatuses \cap LateStatus = {} => FollowsKitchen(r)
  BY <1>1 DEF KitchenInv, PendingPaymentsRelease, PendingStagesFollowKitchen
<1>3. \A t \in Sessions : requests[t].phase = "writing" => requests[t].order \in DOMAIN orders
  BY WritingRequest DEF IInv
<1>4. \A t \in Sessions :
        requests'[t].phase = "writing" => t # s /\ requests'[t] = requests[t]
  BY <1>1 DEF Idle
<1>5. ASSUME "AWAITING_PAYMENT" \notin AdminStatuses
      PROVE  /\ \A x \in DOMAIN orders' :
                  orders'[x].payment = "COMPLETED" => orders'[x].status # "AWAITING_PAYMENT"
             /\ \A t \in Sessions : requests'[t].phase = "writing" => Releases(requests[t])'
  <2>1. Releases(r)
    BY <1>2, <1>5
  <2>2. \A x \in DOMAIN orders :
          orders[x].payment = "COMPLETED" => orders[x].status # "AWAITING_PAYMENT"
    BY <1>5 DEF KitchenInv, PaidOrderLeavesPaymentQueue, PaymentCompleted
  <2>3. /\ new.payment = "COMPLETED" => new.status # "AWAITING_PAYMENT"
        /\ old.status # "AWAITING_PAYMENT" => new.status # "AWAITING_PAYMENT"
    <3> HIDE DEF r, new
    <3> QED
      BY <1>1, <2>1, <2>2 DEF Releases, WriteColumn
  <2>4. ASSUME NEW t \in Sessions, requests'[t].phase = "writing"
        PROVE  Releases(requests[t])'
    <3>1. requests'[t] = requests[t] /\ requests[t].order \in DOMAIN orders
      BY <1>3, <1>4, <2>4
    <3>2. Releases(requests[t])
      BY <1>4, <1>5, <2>4 DEF KitchenInv, PendingPaymentsRelease
    <3>3. orders[requests[t].order].status # "AWAITING_PAYMENT" =>
            orders'[requests[t].order].status # "AWAITING_PAYMENT"
      BY <1>1, <2>3, <3>1
    <3> QED
      BY <3>1, <3>2, <3>3 DEF Releases
  <2>5. ASSUME NEW x \in DOMAIN orders', orders'[x].payment = "COMPLETED"
        PROVE  orders'[x].status # "AWAITING_PAYMENT"
    BY <1>1, <2>2, <2>3, <2>5
  <2> QED
    BY <2>4, <2>5
<1>6. ASSUME AdminStatuses \cap LateStatus = {}
      PROVE  /\ \A x \in DOMAIN orders' :
                  /\ orders'[x].status \in LateStatus \ {"PENDING"} =>
                       orders'[x].cookingStartedAt = "set" /\ orders'[x].readyAt = "set"
                  /\ orders'[x].status = "CONFIRMED" => x \in everDelivered'
                  /\ orders'[x].status # "PENDING"
             /\ \A t \in Sessions :
                  requests'[t].phase = "writing" => FollowsKitchen(requests[t])'
  <2>1. FollowsKitchen(r)
    BY <1>2, <1>6
  <2>2. \A x \in DOMAIN orders :
          /\ orders[x].status \in LateStatus \ {"PENDING"} =>
               orders[x].cookingStartedAt = "set" /\ orders[x].readyAt = "set"
          /\ orders[x].status = "CONFIRMED" => x \in everDelivered
          /\ orders[x].status # "PENDING"
    BY <1>6 DEF KitchenInv, DeliveryFollowsKitchen
  <2>3. /\ new.status \in LateStatus \ {"PENDING"} =>
             new.cookingStartedAt = "set" /\ new.readyAt = "set"
        /\ new.status = "CONFIRMED" => o \in everDelivered'
        /\ new.status # "PENDING"
    <3> HIDE DEF r, new
    <3> QED
      BY <1>1, <2>1, <2>2 DEF FollowsKitchen, WriteColumn, o
  <2>4. ASSUME NEW t \in Sessions, requests'[t].phase = "writing"
        PROVE  FollowsKitchen(requests[t])'
    <3>1. requests'[t] = requests[t] /\ requests[t].order \in DOMAIN orders
      BY <1>3, <1>4, <2>4
    <3>2. FollowsKitchen(requests[t])
      BY <1>4, <1>6, <2>4 DEF KitchenInv, PendingStagesFollowKitchen
    <3>3. LET x == requests[t].order
          IN  /\ orders[x].cookingStartedAt = "set" => orders'[x].cookingStartedAt = "set"
              /\ orders[x].readyAt = "set" => orders'[x].readyAt = "set"
      BY <1>1, <3>1
    <3> QED
      BY <1>1, <3>1, <3>2, <3>3 DEF FollowsKitchen
  <2>5. ASSUME NEW x \in DOMAIN orders'
        PROVE  /\ orders'[x].status \in LateStatus \ {"PENDING"} =>
                    orders'[x].cookingStartedAt = "set" /\ orders'[x].readyAt = "set"
               /\ orders'[x].status = "CONFIRMED" => x \in everDelivered'
               /\ orders'[x].status # "PENDING"
    BY <1>1, <2>2, <2>3
  <2> QED
    BY <2>4, <2>5
<1> QED
  BY <1>5, <1>6 DEF KitchenInv, PaidOrderLeavesPaymentQueue, DeliveryFollowsKitchen,
                    PendingPaymentsRelease, PendingStagesFollowKitchen, PaymentCompleted

\* KitchenInv holds initially and every step keeps it.
THEOREM KitchenInvariant == Spec => []KitchenInv
<1>1. Init => KitchenInv
  BY DEF Init, KitchenInv, PaidOrderLeavesPaymentQueue, DeliveryFollowsKitchen,
         PendingPaymentsRelease, PendingStagesFollowKitchen, Idle
<1>2. IInv /\ IInv' /\ KitchenInv /\ [Next]_vars => KitchenInv'
  <2> SUFFICES ASSUME IInv, IInv', KitchenInv, [Next]_vars
               PROVE  KitchenInv'
    OBVIOUS
  <2>1. CASE Next
    BY <2>1, StepKinds, CreateFromCartKeepsKitchenInv, DecideKeepsKitchenInv,
       OnlyReadsKeepsKitchenInv, CommitKeepsKitchenInv DEF IInv
  <2>2. CASE UNCHANGED vars
    BY <2>2 DEF vars, KitchenInv, PaidOrderLeavesPaymentQueue, DeliveryFollowsKitchen,
                PendingPaymentsRelease, PendingStagesFollowKitchen, Releases,
                FollowsKitchen
  <2> QED
    BY <2>1, <2>2
<1> QED
  BY <1>1, <1>2, InductiveInvariant, PTL DEF Spec

\* However requests interleave, an order that is paid for is out of the payment
\* queue, unless operators may put it back there.
THEOREM PaidOrdersAreReleased == Spec => []PaidOrderLeavesPaymentQueue
<1>1. KitchenInv => PaidOrderLeavesPaymentQueue
  BY DEF KitchenInv
<1> QED
  BY <1>1, KitchenInvariant, PTL

\* An order is on its way, delivered or confirmed only after it was started and
\* ready, unless operators may force these stages.
THEOREM DeliveriesComeFromKitchen == Spec => []DeliveryFollowsKitchen
<1>1. KitchenInv => DeliveryFollowsKitchen
  BY DEF KitchenInv
<1> QED
  BY <1>1, KitchenInvariant, PTL

-----------------------------------------------------------------------------
(* One answer from the cook, when requests do not overlap *)

\* The only session decides: what it will write is legal now.
LEMMA DecideKeepsSerialInv ==
  ASSUME IInv, SerialInv, NEW s \in Sessions, DecidesAfterChecks(s)
  PROVE  SerialInv'
<1> PICK h \in Handler, o \in DOMAIN orders, data \in Data,
         n \in NoticeKind \cup {Undefined} :
      /\ Decide(s, h, o, data, n)
      /\ Checked(o, data, n)
  BY DEF DecidesAfterChecks
<1> DEFINE r == [phase |-> "writing", handler |-> h, order |-> o, data |-> data,
                 notice |-> n]
<1>1. /\ requests' = [requests EXCEPT ![s] = r]
      /\ UNCHANGED <<orders, notifications, everPaid, everDelivered, everCleared>>
  BY DEF Decide
<1>2. r.order = o /\ r.data = data /\ r.notice = n
  OBVIOUS
<1>3. Legal(orders[o], data, n)
  BY DEF Checked
<1> HIDE DEF r
<1>4. requests'[s] = r
  BY <1>1 DEF IInv, TypeOK
<1>5. PendingIsLegal'
  BY <1>1, <1>2, <1>3, <1>4 DEF PendingIsLegal, OneSession
<1> QED
  BY <1>1, <1>5 DEF SerialInv, AnswersAreFinal, OneAnswerFromCook, Answers

\* A new order has had no answer yet.
LEMMA CreateFromCartKeepsSerialInv ==
  ASSUME IInv, SerialInv, NEW o \in Orders, NEW u \in Users, NEW c \in Cooks,
         CreateFromCart(o, u, c)
  PROVE  SerialInv'
<1>1. /\ o \notin DOMAIN orders
      /\ DOMAIN orders' = DOMAIN orders \cup {o}
      /\ \A x \in DOMAIN orders : orders'[x] = orders[x]
      /\ UNCHANGED <<requests, notifications, everPaid, everDelivered, everCleared>>
  BY DEF CreateFromCart
<1>2. \A t \in Sessions : requests[t].phase = "writing" => requests[t].order \in DOMAIN orders
  BY WritingRequest DEF IInv
<1>3. PendingIsLegal'
  BY <1>1, <1>2 DEF SerialInv, PendingIsLegal
<1>4. AnswersAreFinal'
  BY <1>1 DEF SerialInv, AnswersAreFinal, Answers
<1>5. OneAnswerFromCook'
  BY <1>1 DEF SerialInv, OneAnswerFromCook, Answers
<1> QED
  BY <1>3, <1>4, <1>5 DEF SerialInv

LEMMA OnlyReadsKeepsSerialInv ==
  ASSUME IInv, SerialInv, NEW s \in Sessions, OnlyReads(s)
  PROVE  SerialInv'
<1>1. /\ UNCHANGED <<orders, notifications, everPaid, everDelivered, everCleared>>
      /\ requests'[s].phase # "writing"
  BY DEF OnlyReads, IInv, TypeOK, Idle
<1>2. PendingIsLegal'
  BY <1>1 DEF PendingIsLegal, OneSession
<1> QED
  BY <1>1, <1>2 DEF SerialInv, AnswersAreFinal, OneAnswerFromCook, Answers

\* An answer takes the order out of the cook's inbox, and only a payment of an order
\* that waits for it, and so has no answer, puts one there.
LEMMA CommitKeepsSerialInv ==
  ASSUME IInv, SerialInv, NEW s \in Sessions, Commit(s)
  PROVE  SerialInv'
<1> DEFINE r == requests[s]
<1>0. r.order \in DOMAIN orders
  BY CommitWritesOneRow DEF IInv
<1> PICK o \in DOMAIN orders : o = r.order
  BY <1>0
<1> DEFINE old == orders[o]
           new == orders'[o]
           Waiting == {"AWAITING_PAYMENT", "AWAITING_COOK_ACCEPTANCE"}
<1>1. /\ r.phase = "writing" /\ o \in DOMAIN orders /\ o \in Orders
      /\ DOMAIN orders' = DOMAIN orders
      /\ new.status = WriteColumn(r.data.status, old.status)
      /\ \A x \in DOMAIN orders \ {o} : orders'[x] = orders[x]
      /\ \A t \in Sessions : requests'[t] = IF t = s THEN Idle ELSE requests[t]
  BY CommitWritesOneRow DEF IInv
<1>2. notifications' = notifications \cup {<<o, k>> : k \in {r.notice} \ {Undefined}}
  BY DEF Commit
<1>3. PendingIsLegal'
  BY <1>1 DEF PendingIsLegal, OneSession, Idle
<1>4. ASSUME OneSession, AdminStatuses \cap Waiting = {}
      PROVE  \A x \in Orders :
               /\ Answers(x)' # {} => x \in DOMAIN orders' /\ orders'[x].status \notin Waiting
               /\ Answers(x)' # {"accepted", "rejected"}
  <2>1. Legal(old, r.data, r.notice)
    BY <1>1, <1>4 DEF SerialInv, PendingIsLegal
  <2>2. \A x \in Orders :
          /\ Answers(x) # {} => x \in DOMAIN orders /\ orders[x].status \notin Waiting
          /\ Answers(x) # {"accepted", "rejected"}
    BY <1>4 DEF SerialInv, AnswersAreFinal, OneAnswerFromCook
  <2>3. \A x \in Orders \ {o} : Answers(x)' = Answers(x)
    BY <1>2 DEF Answers
  <2>4. CASE r.notice \in {"accepted", "rejected"}
    <3>1. old.status = "AWAITING_COOK_ACCEPTANCE" /\ r.data.status \in {"COOKING", "CANCELLED"}
      BY <2>1, <2>4 DEF Legal
    <3>2. Answers(o) = {}
      BY <1>1, <2>2, <3>1
    <3>3. Answers(o)' = {r.notice}
      BY <1>2, <2>4, <3>2 DEF Answers, Undefined
    <3>4. new.status \notin Waiting
      BY <1>1, <3>1 DEF WriteColumn, Undefined
    <3> QED
      BY <1>1, <2>2, <2>3, <3>3, <3>4
  <2>5. CASE r.notice \notin {"accepted", "rejected"}
    <3>1. Answers(o)' = Answers(o)
      BY <1>2, <2>5 DEF Answers
    <3>2. ASSUME old.status \notin Waiting
          PROVE  new.status \notin Waiting
      <4> HIDE DEF r, old, new
      <4>1. \/ r.data.status \in {Undefined, "CANCELLED", "COOKING", "CONFIRMED"}
            \/ <<old.status, r.data.status>> \in ValidNextStatuses
            \/ r.data.status \in AdminStatuses
        BY <2>1, <3>2 DEF Legal, PaymentData, NoChange
      <4> QED
        BY <1>1, <1>4, <3>2, <4>1 DEF WriteColumn, ValidNextStatuses
    <3> QED
      BY <1>1, <2>2, <2>3, <3>1, <3>2
  <2> QED
    BY <2>4, <2>5
<1> QED
  BY <1>3, <1>4 DEF SerialInv, AnswersAreFinal, OneAnswerFromCook

\* SerialInv holds initially and every step keeps it.
THEOREM SerialInvariant == Spec => []SerialInv
<1>1. Init => SerialInv
  BY DEF Init, SerialInv, PendingIsLegal, AnswersAreFinal, OneAnswerFromCook, Answers, Idle
<1>2. IInv /\ SerialInv /\ [Next]_vars => SerialInv'
  <2> SUFFICES ASSUME IInv, SerialInv, [Next]_vars
               PROVE  SerialInv'
    OBVIOUS
  <2>1. CASE Next
    BY <2>1, StepKinds, CreateFromCartKeepsSerialInv, DecideKeepsSerialInv,
       OnlyReadsKeepsSerialInv, CommitKeepsSerialInv DEF IInv
  <2>2. CASE UNCHANGED vars
    BY <2>2 DEF vars, SerialInv, PendingIsLegal, AnswersAreFinal, OneAnswerFromCook, Answers
  <2> QED
    BY <2>1, <2>2
<1> QED
  BY <1>1, <1>2, InductiveInvariant, PTL DEF Spec

\* When requests do not overlap and no operator puts an order back to where it could be
\* answered again, the customer gets at most one answer from the cook.
THEOREM OneAnswer == Spec => []OneAnswerFromCook
<1>1. SerialInv => OneAnswerFromCook
  BY DEF SerialInv
<1> QED
  BY <1>1, SerialInvariant, PTL

-----------------------------------------------------------------------------
(* The lifecycle is implemented, when requests do not overlap *)

\* A step that leaves the table alone is invisible in the lifecycle.
LEMMA ReadingStutters ==
  ASSUME UNCHANGED orders
  PROVE  UNCHANGED Lifecycle!vars
<1>1. UNCHANGED <<StatusOf, PaymentOf>>
  BY DEF StatusOf, PaymentOf
<1> QED
  BY <1>1 DEF Lifecycle!vars

\* Inserting the row is the lifecycle's Checkout.
LEMMA CreateFromCartIsCheckout ==
  ASSUME NEW o \in Orders, NEW u \in Users, NEW c \in Cooks, CreateFromCart(o, u, c)
  PROVE  Lifecycle!Next
<1>1. /\ o \notin DOMAIN orders
      /\ DOMAIN orders' = DOMAIN orders \cup {o}
      /\ orders'[o].status = "AWAITING_PAYMENT" /\ orders'[o].payment = "PENDING"
      /\ \A x \in DOMAIN orders : orders'[x] = orders[x]
  BY DEF CreateFromCart
<1>2. StatusOf[o] = "NONE"
  BY <1>1 DEF StatusOf
<1>3. StatusOf' = [StatusOf EXCEPT ![o] = "AWAITING_PAYMENT"]
  BY <1>1 DEF StatusOf
<1>4. PaymentOf' = [PaymentOf EXCEPT ![o] = "PENDING"]
  BY <1>1 DEF PaymentOf
<1>5. Lifecycle!Checkout(o)
  BY <1>2, <1>3, <1>4 DEF Lifecycle!Checkout
<1> QED
  BY <1>5 DEF Lifecycle!Next

\* A write of legal data is the lifecycle's step of that handler, or a stutter when
\* it changes neither the status nor the payment.
LEMMA CommitIsLifecycleStep ==
  ASSUME TypeOK, NEW s \in Sessions, Commit(s),
         Legal(orders[requests[s].order], requests[s].data, requests[s].notice)
  PROVE  Lifecycle!Next \/ UNCHANGED Lifecycle!vars
<1> DEFINE data == requests[s].data
<1>0. requests[s].order \in DOMAIN orders /\ requests[s].order \in Orders
  BY CommitWritesOneRow
<1> PICK o \in Orders : o = requests[s].order /\ o \in DOMAIN orders
  BY <1>0
<1> DEFINE old == orders[o]
           new == orders'[o]
<1>1. /\ old \in Row /\ data \in Data
      /\ DOMAIN orders' = DOMAIN orders
      /\ new.status = WriteColumn(data.status, old.status)
      /\ new.payment = WriteColumn(data.payment, old.payment)
      /\ \A x \in DOMAIN orders \ {o} : orders'[x] = orders[x]
  BY CommitWritesOneRow
<1>2. Legal(old, data, requests[s].notice)
  OBVIOUS
<1>3. StatusOf[o] = old.status /\ PaymentOf[o] = old.payment
  BY DEF StatusOf, PaymentOf
<1>4. StatusOf' = [StatusOf EXCEPT ![o] = WriteColumn(data.status, old.status)]
  BY <1>1 DEF StatusOf
<1>5. PaymentOf' = [PaymentOf EXCEPT ![o] = WriteColumn(data.payment, old.payment)]
  BY <1>1 DEF PaymentOf
<1>6. old.status # "NONE" /\ data.payment \in PaymentStatus \cup {Undefined}
  BY <1>1 DEF Row, Data, Status
<1> HIDE DEF data, old, new
<1>7. CASE data.payment # Undefined
  <2>1. /\ data.payment \in PaymentStatus
        /\ ~(data.payment = "COMPLETED" /\ old.payment = "COMPLETED")
        /\ data.status = IF data.payment = "COMPLETED" /\ old.status = "AWAITING_PAYMENT"
                         THEN "AWAITING_COOK_ACCEPTANCE" ELSE Undefined
    BY <1>2, <1>6, <1>7 DEF Legal, PaymentCompleted, PaymentData, NoChange
  <2>2. PaymentOf' = [PaymentOf EXCEPT ![o] = data.payment]
    BY <1>5, <1>7 DEF WriteColumn
  <2>3. StatusOf' = [StatusOf EXCEPT ![o] =
                       IF data.payment = "COMPLETED" /\ @ = "AWAITING_PAYMENT"
                       THEN "AWAITING_COOK_ACCEPTANCE" ELSE @]
    BY <1>3, <1>4, <2>1 DEF WriteColumn, Undefined, StatusOf
  <2>4. Lifecycle!RecordPayment(o, data.payment)
    BY <1>3, <1>6, <2>1, <2>2, <2>3 DEF Lifecycle!RecordPayment
  <2> QED
    BY <2>1, <2>4 DEF Lifecycle!Next, Lifecycle!PaymentStatus, PaymentStatus
<1>8. CASE data.payment = Undefined
  <2>1. UNCHANGED PaymentOf
    BY <1>3, <1>5, <1>8 DEF WriteColumn, PaymentOf
  <2>2. CASE data.status = Undefined
    <3>1. UNCHANGED StatusOf
      BY <1>3, <1>4, <2>2 DEF WriteColumn, StatusOf
    <3> QED
      BY <2>1, <3>1 DEF Lifecycle!vars
  <2>3. CASE data.status # Undefined
    <3>1. Lifecycle!Move(o, data.status)
      BY <1>4, <2>1, <2>3 DEF Lifecycle!Move, WriteColumn
    <3>2. CASE data.status = "CANCELLED"
      <4>1. Lifecycle!Cancel(o)
        BY <1>3, <1>6, <3>1, <3>2 DEF Lifecycle!Cancel
      <4> QED
        BY <4>1 DEF Lifecycle!Next
    <3>3. CASE /\ data.status = "COOKING"
               /\ old.status = "AWAITING_COOK_ACCEPTANCE" /\ PaymentCompleted(old)
      <4>1. Lifecycle!CookAccepts(o)
        BY <1>3, <3>1, <3>3 DEF Lifecycle!CookAccepts, PaymentCompleted
      <4> QED
        BY <4>1 DEF Lifecycle!Next
    <3>4. CASE <<old.status, data.status>> \in ValidNextStatuses
      <4>1. Lifecycle!CookAdvances(o, data.status)
        BY <1>3, <3>1, <3>4 DEF Lifecycle!CookAdvances, Lifecycle!NextInKitchen,
                                ValidNextStatuses
      <4>2. data.status \in {"CONFIRMED", "COOKING", "READY", "ON_THE_WAY", "DELIVERED"}
        BY <3>4 DEF ValidNextStatuses
      <4> QED
        BY <4>1, <4>2 DEF Lifecycle!Next
    <3>5. CASE data.status = "CONFIRMED" /\ old.status = "DELIVERED"
      <4>1. Lifecycle!CustomerConfirms(o)
        BY <1>3, <3>1, <3>5 DEF Lifecycle!CustomerConfirms
      <4> QED
        BY <4>1 DEF Lifecycle!Next
    <3>6. CASE data.status \in AdminStatuses /\ PaymentCompleted(old)
      <4>1. Lifecycle!AdminOverrides(o, data.status)
        BY <1>3, <3>1, <3>6 DEF Lifecycle!AdminOverrides, PaymentCompleted
      <4> QED
        BY <3>6, <4>1 DEF Lifecycle!Next
    <3> QED
      BY <1>2, <1>8, <2>3, <3>2, <3>3, <3>4, <3>5, <3>6 DEF Legal
  <2> QED
    BY <2>2, <2>3
<1> QED
  BY <1>7, <1>8

\* With one session, every behaviour of the handlers is one of the lifecycle: what a
\* request checked when it read the row still holds when it writes.
THEOREM Refinement ==
  ASSUME OneSession
  PROVE  Spec => ImplementsLifecycle
<1>1. Init => Lifecycle!Init
  <2> SUFFICES ASSUME Init
               PROVE  Lifecycle!Init
    OBVIOUS
  <2>1. DOMAIN orders = {}
    BY DEF Init
  <2>2. StatusOf = [o \in Orders |-> "NONE"] /\ PaymentOf = [o \in Orders |-> "NONE"]
    BY <2>1 DEF StatusOf, PaymentOf
  <2> QED
    BY <2>2 DEF Lifecycle!Init
<1>2. IInv /\ SerialInv /\ [Next]_vars => [Lifecycle!Next]_(Lifecycle!vars)
  <2> SUFFICES ASSUME IInv, SerialInv, [Next]_vars
               PROVE  Lifecycle!Next \/ UNCHANGED Lifecycle!vars
    OBVIOUS
  <2>1. CASE UNCHANGED vars
    BY <2>1, ReadingStutters DEF vars
  <2>2. ASSUME NEW s \in Sessions, DecidesAfterChecks(s)
        PROVE  UNCHANGED Lifecycle!vars
    BY <2>2, ReadingStutters DEF DecidesAfterChecks, Decide
  <2>3. ASSUME NEW s \in Sessions, OnlyReads(s)
        PROVE  UNCHANGED Lifecycle!vars
    BY <2>3, ReadingStutters DEF OnlyReads
  <2>4. ASSUME NEW s \in Sessions, Commit(s)
        PROVE  Lifecycle!Next \/ UNCHANGED Lifecycle!vars
    <3>1. Legal(orders[requests[s].order], requests[s].data, requests[s].notice)
      BY <2>4 DEF SerialInv, PendingIsLegal, Commit
    <3> QED
      BY <2>4, <3>1, CommitIsLifecycleStep DEF IInv
  <2>5. CASE Next
    BY <2>2, <2>3, <2>4, <2>5, StepKinds, CreateFromCartIsCheckout DEF IInv
  <2> QED
    BY <2>1, <2>5
<1> QED
  BY <1>1, <1>2, InductiveInvariant, SerialInvariant, PTL
     DEF Spec, ImplementsLifecycle, Lifecycle!Spec
=============================================================================
