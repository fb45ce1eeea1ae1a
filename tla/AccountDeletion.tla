----------------------------- MODULE AccountDeletion -----------------------------
(***************************************************************************)
(* AccountDeletion: UsersService.deleteAccount among the requests that use *)
(* what it deletes: carts, checkouts, orders, and the cook's own changes   *)
(* to the dishes.                                                          *)
(*                                                                         *)
(* A deletion checks the account and its orders, collects file paths, and  *)
(* then runs one transaction that takes nothing of this into account.      *)
(* Checkouts and changes to a dish likewise read first and write later.    *)
(* Other requests are single steps here: how a cart and an order behave    *)
(* under overlap is the matter of BasketService, Checkout and              *)
(* OrderService; files are in StoredFiles.                                 *)
(***************************************************************************)
CONSTANTS
  Users,      \* accounts of customers
  Cooks,      \* accounts of cooks
  Dishes,     \* dishes that may be created
  CookOf,     \* CookOf[d]: the cook of dish d
  Orders,     \* the order rows that may ever exist
  Sessions    \* requests the server may be handling at the same time

Accounts == Users \cup Cooks

\* "ACTIVE" stands for the statuses from AWAITING_PAYMENT to ON_THE_WAY.
OrderStatus == {"ACTIVE", "DELIVERED", "CONFIRMED", "CANCELLED"}

\* A dish row: not yet created, offered or not, or deleted (ids are not used again).
DishState == {"absent", "offered", "hidden", "gone"}

Order == [user: Users, cook: Cooks, dishes: SUBSET Dishes, status: OrderStatus]

Idle == [phase |-> "idle"]

Request ==
  {Idle}
    \cup [phase: {"ordering"}, user: Users, cook: Cooks, dishes: SUBSET Dishes]
    \cup [phase: {"updating"}, dish: Dishes, to: {"offered", "hidden"}]
    \cup [phase: {"deleting"}, account: Accounts]

VARIABLES
  active,     \* accounts with User.isActive
  deleted,    \* accounts that were deleted and not activated again by an operator
  dishes,     \* dishes[d]: the state of dish d's row
  carts,      \* carts[u]: the dishes in the cart of user u
  orders,     \* the orders, a function from those that exist
  requests,   \* requests[s]: where the handler of session s is
  overlapped  \* history: something was done while a request was under way

vars == <<active, deleted, dishes, carts, orders, requests, overlapped>>
accounts == <<active, deleted>>

Init ==
  /\ active = Accounts
  /\ deleted = {}
  /\ dishes = [d \in Dishes |-> "absent"]
  /\ carts = [u \in Users |-> {}]
  /\ orders = [o \in {} |-> Idle]
  /\ requests = [s \in Sessions |-> Idle]
  /\ overlapped = FALSE

TypeOK ==
  /\ active \subseteq Accounts /\ deleted \subseteq Accounts \ active
  /\ dishes \in [Dishes -> DishState]
  /\ carts \in [Users -> SUBSET Dishes]
  /\ DOMAIN orders \subseteq Orders /\ orders \in [DOMAIN orders -> Order]
  /\ requests \in [Sessions -> Request]
  /\ overlapped \in BOOLEAN

\* A step, beside what the sessions of S are doing.
Beside(S) == overlapped' = (overlapped \/ \E t \in S : requests[t] # Idle)

To(s, r) == requests' = [requests EXCEPT ![s] = r] /\ Beside(Sessions \ {s})

\* A request that is one step here.
OneStep == UNCHANGED requests /\ Beside(Sessions)

HasRow(d) == dishes[d] \in {"offered", "hidden"}

\* A cook whose account is active may be working (approved, within the hours).
MayWork(c) == c \in active

-----------------------------------------------------------------------------
(* Dishes *)

CreateDish(d) ==
  /\ MayWork(CookOf[d])
  /\ dishes[d] = "absent"
  /\ dishes' = [dishes EXCEPT ![d] = "offered"]
  /\ OneStep /\ UNCHANGED <<accounts, carts, orders>>

\* updateForCook reads the row, and writes isAvailable after it may have saved an
\* image.
UpdateDish(s, d, to) ==
  /\ requests[s] = Idle
  /\ MayWork(CookOf[d]) /\ HasRow(d)
  /\ To(s, [phase |-> "updating", dish |-> d, to |-> to])
  /\ UNCHANGED <<accounts, dishes, carts, orders>>

WriteDish(s) ==
  LET r == requests[s]
  IN  /\ r.phase = "updating"
      /\ dishes' = IF HasRow(r.dish) THEN [dishes EXCEPT ![r.dish] = r.to] ELSE dishes
      /\ To(s, Idle)
      /\ UNCHANGED <<accounts, carts, orders>>

InCarts(users) == UNION {carts[u] : u \in users}
Sold == UNION {orders[o].dishes : o \in DOMAIN orders}

\* Bug variant: the foreign keys of CartItem and OrderItem are not enforced.
MayDeleteRow_NoForeignKey(d, users) == TRUE

\* The foreign keys of CartItem and OrderItem restrict deleting a dish, when the
\* given users have carts.
MayDeleteRow(d, users) == d \notin InCarts(users) \cup Sold

DeleteDish(d) ==
  /\ MayWork(CookOf[d]) /\ HasRow(d)
  /\ MayDeleteRow(d, Users)
  /\ dishes' = [dishes EXCEPT ![d] = "gone"]
  /\ OneStep /\ UNCHANGED <<accounts, carts, orders>>

-----------------------------------------------------------------------------
(* Carts and orders *)

AddToCart(u, d) ==
  /\ u \in active
  /\ dishes[d] = "offered"
  /\ carts' = [carts EXCEPT ![u] = @ \cup {d}]
  /\ OneStep /\ UNCHANGED <<accounts, dishes, orders>>

ClearCart(u) ==
  /\ u \in active
  /\ carts[u] # {}
  /\ carts' = [carts EXCEPT ![u] = {}]
  /\ OneStep /\ UNCHANGED <<accounts, dishes, orders>>

\* resolveCheckoutGroups, for a cart with dishes of one cook.
Checkout(s, u, c) ==
  /\ requests[s] = Idle
  /\ u \in active /\ MayWork(c)
  /\ carts[u] # {} /\ Orders \ DOMAIN orders # {}
  /\ \A d \in carts[u] : CookOf[d] = c /\ dishes[d] = "offered"
  /\ To(s, [phase |-> "ordering", user |-> u, cook |-> c, dishes |-> carts[u]])
  /\ UNCHANGED <<accounts, dishes, carts, orders>>

\* createFromCart's transaction: it fails if a dish has lost its row (foreign key)
\* or the cart is gone.
CreateFromCart(s) ==
  LET r == requests[s]
  IN  /\ r.phase = "ordering"
      /\ \/ /\ carts[r.user] # {}
            /\ \A d \in r.dishes : HasRow(d)
            /\ \E o \in Orders \ DOMAIN orders :
                 orders' = [x \in DOMAIN orders \cup {o} |->
                              IF x = o
                              THEN [user |-> r.user, cook |-> r.cook, dishes |-> r.dishes,
                                    status |-> "ACTIVE"]
                              ELSE orders[x]]
            /\ carts' = [carts EXCEPT ![r.user] = {}]
         \/ /\ carts[r.user] = {} \/ \E d \in r.dishes : ~HasRow(d)
            /\ UNCHANGED <<orders, carts>>
      /\ To(s, Idle)
      /\ UNCHANGED <<accounts, dishes>>

\* Cook and customer move the order on or cancel it, operators may force any
\* status (OrderService has the rules).
OrderMoves(o) ==
  /\ \E status \in OrderStatus : orders' = [orders EXCEPT ![o].status = status]
  /\ OneStep /\ UNCHANGED <<accounts, dishes, carts>>

-----------------------------------------------------------------------------
(* Deleting an account *)

OrdersOf(a) == {o \in DOMAIN orders : a \in {orders[o].user, orders[o].cook}}

\* Bug variant: only what the account has ordered counts, not what it cooks.
ActiveOrders_OfCustomer(a) ==
  {o \in OrdersOf(a) : orders[o].user = a /\ orders[o].status \notin {"DELIVERED", "CANCELLED"}}

\* assertNoActiveOrders: of the account as customer or as cook, in a status that
\* is not in TERMINAL_ORDER_STATUSES.
ActiveOrders(a) == {o \in OrdersOf(a) : orders[o].status \notin {"DELIVERED", "CANCELLED"}}

\* The password is right, the account is not an operator's.
DeleteAccount(s, a) ==
  /\ requests[s] = Idle
  /\ a \in active
  /\ ActiveOrders(a) = {}
  /\ To(s, [phase |-> "deleting", account |-> a])
  /\ UNCHANGED <<accounts, dishes, carts, orders>>

DishesOf(a) == {d \in Dishes : CookOf[d] = a /\ HasRow(d)}

\* Bug variant: dishes that were ordered are left as they are.
EraseDishes_LeavesSold(r) ==
  dishes' = [d \in Dishes |-> IF d \in DishesOf(r.account) \ Sold THEN "gone"
                              ELSE dishes[d]]

\* Dishes nobody has ordered are deleted, the others taken off.
EraseDishes(r) ==
  dishes' = [d \in Dishes |->
               IF d \notin DishesOf(r.account) THEN dishes[d]
               ELSE IF d \in Sold THEN "hidden" ELSE "gone"]

\* Bug variant: the account can still log in.
Disabled_NotAtAll(a) == active

Disabled(a) == active \ {a}

\* The transaction: the account's cart goes first.  A dish to delete that is in
\* somebody else's cart makes it fail.
EraseAccount(s) ==
  LET r == requests[s]
      a == r.account
      emptied == [u \in Users |-> IF u = a THEN {} ELSE carts[u]]
      unsold == DishesOf(a) \ Sold
  IN  /\ r.phase = "deleting"
      /\ \/ /\ \A d \in unsold : MayDeleteRow(d, Users \ {a})
            /\ carts' = emptied
            /\ EraseDishes(r)
            /\ active' = Disabled(a)
            /\ deleted' = deleted \cup {a}
         \/ /\ \E d \in unsold : ~MayDeleteRow(d, Users \ {a})
            /\ UNCHANGED <<active, deleted, dishes, carts>>
      /\ To(s, Idle)
      /\ UNCHANGED orders

\* updateForCrm with isActive, which operators may also apply to a deleted account.
UpdateForCrm(a) ==
  /\ active' = IF a \in active THEN active \ {a} ELSE active \cup {a}
  /\ deleted' = IF a \in active THEN deleted ELSE deleted \ {a}
  /\ OneStep /\ UNCHANGED <<dishes, carts, orders>>

Next ==
  \/ \E s \in Sessions :
        \/ \E d \in Dishes, to \in {"offered", "hidden"} : UpdateDish(s, d, to)
        \/ \E u \in Users, c \in Cooks : Checkout(s, u, c)
        \/ \E a \in Accounts : DeleteAccount(s, a)
        \/ WriteDish(s) \/ CreateFromCart(s) \/ EraseAccount(s)
  \/ \E d \in Dishes : CreateDish(d) \/ DeleteDish(d)
  \/ \E u \in Users : ClearCart(u) \/ \E d \in Dishes : AddToCart(u, d)
  \/ \E o \in DOMAIN orders : OrderMoves(o)
  \/ \E a \in Accounts : UpdateForCrm(a)

Spec == Init /\ [][Next]_vars

-----------------------------------------------------------------------------
(* Properties *)

\* Whatever overlaps, deleting an account never takes the row of a dish that is in
\* an order or in a cart: histories of sales stay complete, carts stay readable.
ReferencesHold == \A d \in InCarts(Users) \cup Sold : HasRow(d)

\* As long as requests have not overlapped, a deleted account leaves no cart and no
\* dish on offer: whoever browses does not find what a deleted cook once sold.
NothingLeftOnOffer ==
  ~overlapped =>
    \A a \in deleted :
      /\ \A d \in DishesOf(a) : dishes[d] = "hidden"
      /\ a \in Users => carts[a] = {}

DeletionStep(a) == a \in deleted' /\ a \notin deleted

\* An order of the account, bought or cooked, is under way.
UnderWay(a) ==
  \E o \in DOMAIN orders : a \in {orders[o].user, orders[o].cook} /\ orders[o].status = "ACTIVE"

\* "Blocked while active orders exist", as long as requests have not overlapped: at
\* the moment an account goes, no order it bought or cooks is under way.
BlockedByActiveOrders ==
  [][\A a \in Accounts : DeletionStep(a) /\ ~overlapped' => ~UnderWay(a)]_vars

-----------------------------------------------------------------------------
(* What keeps them: where requests do not overlap, what a request has checked *)
(* still holds when it writes.                                                *)

StillWorking ==
  ~overlapped => \A s \in Sessions :
    requests[s].phase = "updating" => CookOf[requests[s].dish] \notin deleted

StillWithoutOrders ==
  ~overlapped => \A s \in Sessions :
    requests[s].phase = "deleting" => ActiveOrders(requests[s].account) = {}

DeletionInv ==
  /\ TypeOK
  /\ ReferencesHold
  /\ NothingLeftOnOffer
  /\ StillWorking
  /\ StillWithoutOrders
=============================================================================
