----------------------------- MODULE CheckoutProofs -----------------------------
(***************************************************************************)
(* Theorems about Checkout and the BasketService it extends, for any sets  *)
(* of customers, dishes, cooks and sessions, and any bounds.               *)
(***************************************************************************)
EXTENDS Checkout, Sums, TLAPS

USE BasketAssumption, CheckoutAssumption DEF BasketAssumption, CheckoutAssumption

Request == BasketRequest \cup CheckoutRequest

Merging == [phase: {"merging"}, user: Users, cart: 0..MaxAdds, asked: AddRequests,
            plan: Plans]

-----------------------------------------------------------------------------
(* Types *)

\* What a session holds, by the phase it is in.
LEMMA RequestShapes ==
  ASSUME TypeOK, NEW s \in Sessions
  PROVE  LET r == requests[s]
         IN  /\ r.phase = "adding" => r.user \in Users /\ r.asked \in AddRequests
             /\ r.phase = "merging" => r \in Merging
             /\ r.phase = "updating" => r.line \in LineIds /\ r.quantity \in 1..MaxMerged
             /\ r.phase = "removing" => r.line \in LineIds /\ r.cart \in CartIds
             /\ r.phase \in {"removed", "clearing", "emptied"} => r.cart \in CartIds
             /\ r.phase = "resolved" => r \in CheckoutRequest
<1>1. requests[s] \in BasketRequest \cup CheckoutRequest
  BY DEF TypeOK
<1> QED
  BY <1>1 DEF BasketRequest, CheckoutRequest, Idle, Merging

\* A step that only takes a session to a well-formed request keeps the types.
LEMMA RequestType ==
  ASSUME TypeOK, NEW s \in Sessions, NEW r \in Request, To(s, r),
         UNCHANGED <<available, carts, lines, adds, activeCooks, checkouts, orders>>
  PROVE  TypeOK'
  BY DEF TypeOK, TablesTyped, To, Moves, Request

\* A step that takes a session to a well-formed request and leaves a well-formed
\* cart and line table keeps the types.
LEMMA TablesType ==
  ASSUME TypeOK, NEW s \in Sessions, NEW r \in Request, To(s, r),
         DOMAIN carts' \subseteq CartIds, carts' \in [DOMAIN carts' -> Users],
         DOMAIN lines' \subseteq LineIds, lines' \in [DOMAIN lines' -> Line],
         adds' \in 0..MaxAdds, checkouts' \in Nat, orders' \subseteq Order,
         UNCHANGED <<available, activeCooks>>
  PROVE  TypeOK'
  BY DEF TypeOK, TablesTyped, To, Moves, Request

\* Taking rows out of the tables keeps their types.
LEMMA WithoutType ==
  ASSUME TypeOK, NEW C, NEW L
  PROVE  /\ DOMAIN Without(carts, C) = DOMAIN carts \ C
         /\ \A c \in DOMAIN carts \ C : Without(carts, C)[c] = carts[c]
         /\ Without(carts, C) \in [DOMAIN carts \ C -> Users]
         /\ DOMAIN Without(lines, L) = DOMAIN lines \ L
         /\ \A l \in DOMAIN lines \ L : Without(lines, L)[l] = lines[l]
         /\ Without(lines, L) \in [DOMAIN lines \ L -> Line]
         /\ DOMAIN carts \ C \subseteq CartIds
         /\ DOMAIN lines \ L \subseteq LineIds
  BY DEF Without, TypeOK, TablesTyped

LEMMA AddItemsType ==
  ASSUME TypeOK, NEW s \in Sessions, NEW u \in Users, NEW asked \in AddRequests,
         AddItems(s, u, asked), UNCHANGED <<activeCooks, checkouts, orders>>
  PROVE  TypeOK'
<1>1. [phase |-> "adding", user |-> u, asked |-> asked] \in Request
  BY DEF Request, BasketRequest
<1> QED
  BY <1>1, RequestType DEF AddItems

LEMMA UpsertCartType ==
  ASSUME TypeOK, NEW s \in Sessions, UpsertCart(s), UNCHANGED <<activeCooks, checkouts, orders>>
  PROVE  TypeOK'
<1> DEFINE q(c) == [phase |-> "merging", user |-> requests[s].user, cart |-> c,
                    asked |-> requests[s].asked, plan |-> [d \in Dishes |-> NotYet]]
<1>1. requests[s].user \in Users /\ requests[s].asked \in AddRequests
  BY RequestShapes DEF UpsertCart
<1>2. [d \in Dishes |-> NotYet] \in Plans
  BY DEF Plans, NotYet
<1>3. \A c \in 0..MaxAdds : q(c) \in Request
  BY <1>1, <1>2 DEF Request, BasketRequest
<1>4. \/ \E c \in CartsOf(requests[s].user) : To(s, q(c))
      \/ To(s, q(0))
  BY DEF UpsertCart
<1>5. CartsOf(requests[s].user) \subseteq 0..MaxAdds /\ 0 \in 0..MaxAdds
  BY DEF CartsOf, TypeOK, TablesTyped, CartIds
<1> HIDE DEF q
<1> QED
  BY <1>3, <1>4, <1>5, RequestType DEF UpsertCart

LEMMA MergeDishType ==
  ASSUME TypeOK, NEW s \in Sessions, NEW d \in Dishes, MergeDish(s, d),
         UNCHANGED <<activeCooks, checkouts, orders>>
  PROVE  TypeOK'
<1> DEFINE r == requests[s]
<1>1. r \in Merging
  BY RequestShapes DEF MergeDish
<1>2. r.asked[d] \in Nat \ {0}
  <2>1. r.asked \in AddRequests
    BY <1>1 DEF Merging
  <2>2. r.asked \in [Dishes -> Amounts \cup {0}]
    BY <2>1 DEF AddRequests
  <2>3. Amounts \cup {0} \subseteq Nat
    OBVIOUS
  <2> QED
    BY <2>2, <2>3 DEF MergeDish
<1> DEFINE q(row, quantity) == [r EXCEPT !.plan = Planned(@, d, row, quantity)]
<1>3. \A row \in 0..MaxAdds, quantity \in Nat \ {0} : q(row, quantity) \in Request
  <2> SUFFICES ASSUME NEW row \in 0..MaxAdds, NEW quantity \in Nat \ {0}
               PROVE  q(row, quantity) \in Merging
    BY DEF Merging, Request, BasketRequest
  <2>1. Planned(r.plan, d, row, quantity) \in Plans
    BY <1>1 DEF Merging, Plans, Planned
  <2> QED
    BY <1>1, <2>1 DEF Merging
<1>4. \E row \in 0..MaxAdds, quantity \in Nat \ {0} : To(s, q(row, quantity))
  <2>1. CASE To(s, q(0, r.asked[d]))
    BY <2>1, <1>2
  <2>2. ASSUME NEW l \in ExistingLines(r.cart, d),
               To(s, q(l[1], MergedQuantity(lines[l].quantity, r.asked[d])))
        PROVE  \E row \in 0..MaxAdds, quantity \in Nat \ {0} : To(s, q(row, quantity))
    <3>1. l[1] \in 0..MaxAdds
      BY DEF ExistingLines, LinesOf, TypeOK, TablesTyped, LineIds, CartIds
    <3>2. lines[l].quantity \in Nat \ {0}
      BY DEF ExistingLines, LinesOf, TypeOK, TablesTyped, Line
    <3>3. MergedQuantity(lines[l].quantity, r.asked[d]) \in Nat \ {0}
      BY <3>2, <1>2 DEF MergedQuantity
    <3> QED
      BY <2>2, <3>1, <3>3
  <2> QED
    BY <2>1, <2>2 DEF MergeDish
<1> HIDE DEF q
<1> QED
  BY <1>3, <1>4, RequestType DEF MergeDish

LEMMA IdleType == Idle \in Request
  BY DEF Request, BasketRequest

\* The rows a commit of addItems writes are well formed.
LEMMA WriteCartType ==
  ASSUME TypeOK, NEW r \in Merging, adds < MaxAdds, ~Refused(r), WriteCart(r)
  PROVE  /\ adds' \in 0..MaxAdds
         /\ DOMAIN carts' \subseteq CartIds /\ carts' \in [DOMAIN carts' -> Users]
         /\ DOMAIN lines' \subseteq LineIds /\ lines' \in [DOMAIN lines' -> Line]
<1>1. adds + 1 \in CartIds /\ adds' = adds + 1
  BY DEF TypeOK, TablesTyped, CartIds, WriteCart
<1>2. CartFor(r) \in CartIds
  BY <1>1 DEF CartFor, Merging, CartIds
<1>3. DOMAIN carts' \subseteq CartIds /\ carts' \in [DOMAIN carts' -> Users]
  BY <1>2 DEF WriteCart, TypeOK, TablesTyped, Merging
<1>4. ASSUME NEW d \in ToWrite(r)
      PROVE  /\ LineFor(r, d) \in LineIds
             /\ DishOf(LineFor(r, d)) = d
             /\ r.plan[d].quantity \in Nat \ {0}
  <2>1. d \in Dishes /\ r.plan[d] \in [row: 0..MaxAdds, quantity: Nat \ {0}]
    BY DEF ToWrite, Merging, Plans
  <2> QED
    BY <1>1, <2>1 DEF LineFor, LineIds, CartIds, DishOf
<1> DEFINE new == {LineFor(r, d) : d \in ToWrite(r)}
<1>5. lines' = [l \in DOMAIN lines \cup new |->
                  IF l \in new
                  THEN [cart |-> CartFor(r), quantity |-> r.plan[DishOf(l)].quantity]
                  ELSE lines[l]]
  BY DEF WriteCart
<1>6. new \subseteq LineIds /\ \A l \in new : r.plan[DishOf(l)].quantity \in Nat \ {0}
  BY <1>4
<1>7. DOMAIN lines \subseteq LineIds /\ \A l \in DOMAIN lines : lines[l] \in Line
  BY DEF TypeOK, TablesTyped
<1> HIDE DEF new
<1>8. \A l \in DOMAIN lines \cup new : lines'[l] \in Line
  BY <1>2, <1>5, <1>6, <1>7 DEF Line
<1>9. DOMAIN lines' = DOMAIN lines \cup new
  BY <1>5
<1>10. lines' = [l \in DOMAIN lines' |-> lines'[l]]
  BY <1>5
<1>11. lines' \in [DOMAIN lines' -> Line]
  BY <1>8, <1>9, <1>10
<1>12. adds' \in 0..MaxAdds
  BY <1>1 DEF CartIds
<1> QED
  BY <1>3, <1>6, <1>7, <1>9, <1>11, <1>12

LEMMA CommitAddType ==
  ASSUME TypeOK, NEW s \in Sessions, CommitAdd(s), UNCHANGED <<activeCooks, checkouts, orders>>
  PROVE  TypeOK'
<1> DEFINE r == requests[s]
<1>1. r \in Merging
  BY RequestShapes DEF CommitAdd
<1>2. CASE Refused(r) /\ UNCHANGED <<carts, lines, adds>>
  BY <1>2, IdleType, RequestType DEF CommitAdd
<1>3. CASE ~Refused(r) /\ WriteCart(r)
  <2>1. adds < MaxAdds /\ To(s, Idle) /\ available' = available
    BY DEF CommitAdd
  <2>2. orders' \subseteq Order /\ checkouts' \in Nat
    BY DEF TypeOK
  <2> HIDE DEF r
  <2> QED
    BY <1>1, <1>3, <2>1, <2>2, IdleType, WriteCartType, TablesType
<1> QED
  BY <1>2, <1>3 DEF CommitAdd

LEMMA UpdateItemQuantityType ==
  ASSUME TypeOK, NEW s \in Sessions, NEW u \in Users, NEW l \in DOMAIN lines,
         NEW quantity \in 1..MaxMerged, UpdateItemQuantity(s, u, l, quantity),
         UNCHANGED <<activeCooks, checkouts, orders>>
  PROVE  TypeOK'
<1>1. [phase |-> "updating", line |-> l, quantity |-> quantity] \in Request
  BY DEF Request, BasketRequest, TypeOK, TablesTyped
<1> QED
  BY <1>1, RequestType DEF UpdateItemQuantity, FindsLine

LEMMA RemoveItemType ==
  ASSUME TypeOK, NEW s \in Sessions, NEW u \in Users, NEW l \in DOMAIN lines,
         RemoveItem(s, u, l), UNCHANGED <<activeCooks, checkouts, orders>>
  PROVE  TypeOK'
<1>1. [phase |-> "removing", line |-> l, cart |-> lines[l].cart] \in Request
  BY DEF Request, BasketRequest, TypeOK, TablesTyped, Line
<1> QED
  BY <1>1, RequestType DEF RemoveItem, FindsLine

LEMMA WriteQuantityType ==
  ASSUME TypeOK, NEW s \in Sessions, WriteQuantity(s), UNCHANGED <<activeCooks, checkouts, orders>>
  PROVE  TypeOK'
<1> DEFINE r == requests[s]
<1>1. r.quantity \in Nat \ {0}
  BY RequestShapes DEF WriteQuantity
<1>2. \A l \in DOMAIN lines : [lines[l] EXCEPT !.quantity = r.quantity] \in Line
  BY <1>1 DEF TypeOK, TablesTyped, Line
<1>3. DOMAIN lines \subseteq LineIds /\ \A l \in DOMAIN lines : lines[l] \in Line
  BY DEF TypeOK, TablesTyped
<1>4. lines' \in [DOMAIN lines -> Line] /\ DOMAIN lines' = DOMAIN lines
  BY <1>2, <1>3 DEF WriteQuantity
<1> QED
  BY <1>3, <1>4, IdleType, TablesType DEF WriteQuantity, TypeOK, TablesTyped

\* A step that takes rows out of the tables keeps the types.
LEMMA RemovalType ==
  ASSUME TypeOK, NEW s \in Sessions, NEW r \in Request, To(s, r), NEW C, NEW L,
         carts' = Without(carts, C), lines' = Without(lines, L),
         checkouts' \in Nat, orders' \subseteq Order, UNCHANGED <<available, adds, activeCooks>>
  PROVE  TypeOK'
<1>1. adds' \in 0..MaxAdds
  BY DEF TypeOK, TablesTyped
<1> DEFINE newCarts == Without(carts, C)
           newLines == Without(lines, L)
<1>2. /\ DOMAIN newCarts \subseteq CartIds /\ newCarts \in [DOMAIN newCarts -> Users]
      /\ DOMAIN newLines \subseteq LineIds /\ newLines \in [DOMAIN newLines -> Line]
  BY DEF Without, TypeOK, TablesTyped
<1> HIDE DEF newCarts, newLines
<1>3. carts' = newCarts /\ lines' = newLines
  BY DEF newCarts, newLines
<1> QED
  BY <1>1, <1>2, <1>3, TablesType

\* Taking nothing out leaves a table as it is.
LEMMA WithoutNothing ==
  ASSUME TypeOK
  PROVE  Without(carts, {}) = carts /\ Without(lines, {}) = lines
  BY DEF Without, TypeOK, TablesTyped

LEMMA DeleteLineType ==
  ASSUME TypeOK, NEW s \in Sessions, DeleteLine(s), UNCHANGED <<activeCooks, checkouts, orders>>
  PROVE  TypeOK'
<1>1. [phase |-> "removed", cart |-> requests[s].cart] \in Request
  BY RequestShapes DEF DeleteLine, Request, BasketRequest
<1>2. orders' \subseteq Order /\ checkouts' \in Nat
  BY DEF TypeOK
<1>3. CASE requests[s].line \in DOMAIN lines
  <2>1. carts' = Without(carts, {}) /\ lines' = Without(lines, {requests[s].line})
    BY <1>3, WithoutNothing DEF DeleteLine
  <2> QED
    BY <1>1, <1>2, <1>3, <2>1, RemovalType DEF DeleteLine
<1>4. CASE requests[s].line \notin DOMAIN lines
  BY <1>4, IdleType, RequestType DEF DeleteLine
<1> QED
  BY <1>3, <1>4

LEMMA CountRemainingType ==
  ASSUME TypeOK, NEW s \in Sessions, CountRemaining(s), UNCHANGED <<activeCooks, checkouts, orders>>
  PROVE  TypeOK'
<1>1. [phase |-> "emptied", cart |-> requests[s].cart] \in Request
  BY RequestShapes DEF CountRemaining, Request, BasketRequest
<1> QED
  BY <1>1, IdleType, RequestType DEF CountRemaining

LEMMA DeleteCartType ==
  ASSUME TypeOK, NEW s \in Sessions, DeleteCart(s), UNCHANGED <<activeCooks, checkouts, orders>>
  PROVE  TypeOK'
<1>1. \E C : carts' = Without(carts, C)
  BY WithoutNothing DEF DeleteCart
<1>2. lines' = Without(lines, {}) /\ orders' \subseteq Order /\ checkouts' \in Nat
  BY WithoutNothing DEF DeleteCart, TypeOK
<1> QED
  BY <1>1, <1>2, IdleType, RemovalType DEF DeleteCart

LEMMA ClearCartType ==
  ASSUME TypeOK, NEW s \in Sessions, NEW u \in Users, ClearCart(s, u),
         UNCHANGED <<activeCooks, checkouts, orders>>
  PROVE  TypeOK'
<1>1. PICK c \in CartsOf(u) : To(s, [phase |-> "clearing", cart |-> c])
  BY DEF ClearCart
<1>2. [phase |-> "clearing", cart |-> c] \in Request
  BY DEF CartsOf, Request, BasketRequest, TypeOK, TablesTyped
<1> QED
  BY <1>1, <1>2, RequestType DEF ClearCart

LEMMA DeleteLinesType ==
  ASSUME TypeOK, NEW s \in Sessions, DeleteLines(s), UNCHANGED <<activeCooks, checkouts, orders>>
  PROVE  TypeOK'
<1>1. [phase |-> "emptied", cart |-> requests[s].cart] \in Request
  BY RequestShapes DEF DeleteLines, Request, BasketRequest
<1>2. carts' = Without(carts, {}) /\ orders' \subseteq Order /\ checkouts' \in Nat
  BY WithoutNothing DEF DeleteLines, TypeOK
<1> QED
  BY <1>1, <1>2, RemovalType DEF DeleteLines

LEMMA FailType ==
  ASSUME TypeOK, NEW s \in Sessions, Fail(s), UNCHANGED <<activeCooks, checkouts, orders>>
  PROVE  TypeOK'
  BY IdleType DEF Fail, Moves, TypeOK, TablesTyped, Request

LEMMA ResolveCheckoutGroupsType ==
  ASSUME TypeOK, NEW s \in Sessions, NEW u \in Users, ResolveCheckoutGroups(s, u)
  PROVE  TypeOK'
<1> DEFINE cooksOf(c) == {CookOf[DishOf(l)] : l \in LinesOf(c)}
           q(c) == [phase |-> "resolved", user |-> u, cart |-> c, items |-> ItemsOf(c),
                    unchecked |-> cooksOf(c)]
<1>1. PICK c \in CartsOf(u) : To(s, q(c))
  BY DEF ResolveCheckoutGroups
<1>2. c \in CartIds
  BY DEF CartsOf, TypeOK, TablesTyped
<1>3. \A l \in LinesOf(c) : l \in LineIds /\ lines[l].quantity \in Nat \ {0}
  BY DEF LinesOf, TypeOK, TablesTyped, Line
<1>4. ItemsOf(c) \subseteq Item
  BY <1>3 DEF Item, ItemsOf
<1>5. cooksOf(c) \subseteq Cooks
  BY <1>3 DEF LineIds, DishOf
<1> HIDE DEF cooksOf
<1>6. q(c) \in Request
  BY <1>2, <1>4, <1>5 DEF Request, CheckoutRequest
<1> HIDE DEF q
<1> QED
  BY <1>1, <1>6, RequestType DEF ResolveCheckoutGroups

LEMMA CheckCookType ==
  ASSUME TypeOK, NEW s \in Sessions, NEW c \in Cooks, CheckCook(s, c)
  PROVE  TypeOK'
<1> DEFINE r == requests[s]
           q == [r EXCEPT !.unchecked = @ \ {c}]
<1>1. r \in CheckoutRequest
  BY RequestShapes DEF CheckCook
<1>2. q \in Request
  BY <1>1 DEF CheckoutRequest, Request
<1>3. To(s, q) \/ To(s, Idle)
  BY DEF CheckCook
<1> HIDE DEF q
<1> QED
  BY <1>2, <1>3, IdleType, RequestType DEF CheckCook

LEMMA NewOrdersType ==
  ASSUME TypeOK, NEW r \in CheckoutRequest
  PROVE  NewOrders(r) \subseteq Order
<1> SUFFICES ASSUME NEW x \in NewOrders(r)
             PROVE  x \in Order
  OBVIOUS
<1>1. \A i \in r.items : CookOf[DishOf(i.line)] \in Cooks
  BY DEF CheckoutRequest, Item, LineIds, DishOf
<1>2. PICK c \in Cooks : x = [checkout |-> checkouts + 1, user |-> r.user, cook |-> c,
                              basket |-> r.cart, items |-> ItemsFor(r.items, c)]
  BY <1>1 DEF NewOrders
<1>3. ItemsFor(r.items, c) \subseteq Item
  BY DEF ItemsFor, CheckoutRequest
<1> QED
  BY <1>2, <1>3 DEF Order, CheckoutRequest, TypeOK

LEMMA CreateFromCartType ==
  ASSUME TypeOK, NEW s \in Sessions, CreateFromCart(s)
  PROVE  TypeOK'
<1> DEFINE r == requests[s]
<1>1. NewOrders(r) \subseteq Order
  BY RequestShapes, NewOrdersType DEF CreateFromCart
<1>2. CASE CartStillThere(r.cart)
  <2>1. orders' = orders \cup NewOrders(r) /\ checkouts' = checkouts + 1
    BY <1>2 DEF CreateFromCart
  <2>2. orders' \subseteq Order /\ checkouts' \in Nat
    BY <1>1, <2>1 DEF TypeOK
  <2> QED
    BY <1>2, <2>2, IdleType, RemovalType DEF CreateFromCart
<1>3. CASE ~CartStillThere(r.cart)
  BY <1>3, IdleType, RequestType DEF CreateFromCart
<1> QED
  BY <1>2, <1>3

LEMMA UpdateDishType ==
  ASSUME TypeOK, NEW d \in Dishes, UpdateDish(d), UNCHANGED <<activeCooks, checkouts, orders>>
  PROVE  TypeOK'
  BY DEF TypeOK, TablesTyped, UpdateDish

LEMMA CookTurnsType ==
  ASSUME TypeOK, NEW c \in Cooks, CookTurns(c)
  PROVE  TypeOK'
  BY DEF TypeOK, TablesTyped, CookTurns

\* The empty tables are well formed.
LEMMA InitType ==
  ASSUME Init
  PROVE  TypeOK
<1>1. DOMAIN carts \subseteq CartIds /\ carts \in [DOMAIN carts -> Users]
  BY DEF Init, BasketInit
<1>2. DOMAIN lines \subseteq LineIds /\ lines \in [DOMAIN lines -> Line]
  BY DEF Init, BasketInit
<1>3. available \subseteq Dishes /\ adds \in 0..MaxAdds
  BY BasketAssumption DEF Init, BasketInit
<1>4. cut \in BOOLEAN
  BY DEF Init, BasketInit
<1>5. requests \in [Sessions -> BasketRequest \cup CheckoutRequest]
  BY DEF Init, BasketInit, BasketRequest
<1> QED
  BY <1>1, <1>2, <1>3, <1>4, <1>5 DEF Init, TypeOK, TablesTyped

\* Whatever the handlers of baskets and checkouts leave in the tables and keep
\* while they wait is well formed: in particular no line has a quantity of 0, not
\* even after updateItemQuantity with a quantity below 1.
THEOREM TypeCorrectness == Spec => []TypeOK
<1>1. Init => TypeOK
  BY InitType
<1>2. TypeOK /\ [Next]_vars => TypeOK'
  <2> SUFFICES ASSUME TypeOK, [Next]_vars
               PROVE  TypeOK'
    OBVIOUS
  <2>1. CASE BasketNext /\ UNCHANGED <<activeCooks, checkouts, orders>>
    BY <2>1, AddItemsType, UpsertCartType, MergeDishType, CommitAddType,
       UpdateItemQuantityType, WriteQuantityType, RemoveItemType, DeleteLineType,
       CountRemainingType, DeleteCartType, ClearCartType, DeleteLinesType, FailType,
       UpdateDishType
    DEF BasketNext
  <2>2. CASE CheckoutNext
    BY <2>2, ResolveCheckoutGroupsType, CheckCookType, CreateFromCartType, CookTurnsType
    DEF CheckoutNext
  <2>3. CASE UNCHANGED vars
    BY <2>3 DEF vars, TypeOK, TablesTyped
  <2> QED
    BY <2>1, <2>2, <2>3 DEF Next
<1> QED
  BY <1>1, <1>2, PTL DEF Spec

-----------------------------------------------------------------------------
(* Steps that take rows out of the tables, or leave them as they are *)

\* Rows only go, the rest stay in place, and no line loses its cart.
Shrinks ==
  /\ adds' = adds
  /\ DOMAIN carts' \subseteq DOMAIN carts
  /\ \A c \in DOMAIN carts' : carts'[c] = carts[c]
  /\ DOMAIN lines' \subseteq DOMAIN lines
  /\ \A l \in DOMAIN lines' : lines'[l].cart = lines[l].cart /\ lines'[l].cart \in DOMAIN carts'

\* Where the sessions are after a step of one of them.
LEMMA OneSessionMoves ==
  ASSUME TypeOK, NEW s \in Sessions, NEW q, Moves(s, q)
  PROVE  /\ requests'[s] = q
         /\ \A t \in Sessions \ {s} : requests'[t] = requests[t]
  BY DEF TypeOK, Moves

LEMMA TablesShrink ==
  ASSUME IInv, Shrinks
  PROVE  IdsUsed' /\ TablesConsistent'
  BY DEF IInv, IdsUsed, TablesConsistent, Shrinks

LEMMA OrdersKept ==
  ASSUME IInv, Shrinks, orders' = orders
  PROVE  ItemsUsed' /\ LineOrderedOnce'
  BY DEF IInv, ItemsUsed, LineOrderedOnce, LinesIn, Shrinks

LEMMA CartsKept ==
  ASSUME IInv, Shrinks, NEW s \in Sessions, NEW q, Moves(s, q), q.phase # "merging"
  PROVE  CartsAgree' /\ PlansAgree'
<1>1. TypeOK /\ CartsAgree /\ PlansAgree
  BY DEF IInv
<1>2. \A u \in Users : CartsOf(u) = {} => CartsOf(u)' = {}
  BY DEF Shrinks, CartsOf
<1>3. \A t \in Sessions : requests'[t].phase = "merging" => requests'[t] = requests[t]
  BY <1>1, OneSessionMoves
<1>4. \A t \in Sessions : requests'[t].phase = "merging" => requests[t].user \in Users
  BY <1>1, <1>3, RequestShapes DEF Merging
<1>5. CartsAgree'
  BY <1>1, <1>2, <1>3, <1>4 DEF CartsAgree, CreatesCart, Shrinks
<1>6. PlansAgree'
  BY <1>1, <1>3 DEF PlansAgree, Shrinks
<1> QED
  BY <1>5, <1>6

\* q is not a checkout, or the one r is, with some of its cooks checked.
NoNewCheckout(q, r) ==
  q.phase = "resolved" => r.phase = "resolved" /\ q.cart = r.cart /\ q.items = r.items

LEMMA CheckoutsKept ==
  ASSUME IInv, Shrinks, orders' = orders, NEW s \in Sessions, NEW q, Moves(s, q),
         NoNewCheckout(q, requests[s])
  PROVE  CheckoutsAgree'
<1>1. TypeOK /\ CheckoutsAgree
  BY DEF IInv
<1>2. ASSUME NEW t \in Sessions, requests'[t].phase = "resolved"
      PROVE  /\ requests[t].phase = "resolved"
             /\ requests'[t].cart = requests[t].cart
             /\ LinesIn(requests'[t]) = LinesIn(requests[t])
  BY <1>1, <1>2, OneSessionMoves DEF NoNewCheckout, LinesIn
<1> QED
  BY <1>1, <1>2 DEF CheckoutsAgree, Shrinks

\* All that a step that shrinks the tables and starts nothing keeps.
LEMMA QuietStep ==
  ASSUME IInv, Shrinks, TypeOK', orders' = orders, NEW s \in Sessions, NEW q, Moves(s, q),
         q.phase # "merging", NoNewCheckout(q, requests[s])
  PROVE  IInv'
  BY TablesShrink, OrdersKept, CartsKept, CheckoutsKept DEF IInv

LEMMA SameTables ==
  ASSUME IInv, UNCHANGED <<carts, lines, adds>>
  PROVE  Shrinks
  BY DEF IInv, TablesConsistent, Shrinks

\* A step that only takes a session to a request of another kind keeps all.
LEMMA QuietRequest ==
  ASSUME IInv, TypeOK', NEW s \in Sessions, NEW q, Moves(s, q),
         q.phase # "merging", NoNewCheckout(q, requests[s]),
         UNCHANGED <<carts, lines, adds, orders>>
  PROVE  IInv'
  BY SameTables, QuietStep

LEMMA AddItemsKeeps ==
  ASSUME IInv, NEW s \in Sessions, NEW u \in Users, NEW asked \in AddRequests,
         AddItems(s, u, asked), UNCHANGED <<activeCooks, checkouts, orders>>
  PROVE  IInv'
<1>1. TypeOK'
  BY AddItemsType DEF IInv
<1> QED
  BY <1>1, QuietRequest DEF To, AddItems, NoNewCheckout

LEMMA UpdateItemQuantityKeeps ==
  ASSUME IInv, NEW s \in Sessions, NEW u \in Users, NEW l \in DOMAIN lines,
         NEW quantity \in 1..MaxMerged, UpdateItemQuantity(s, u, l, quantity),
         UNCHANGED <<activeCooks, checkouts, orders>>
  PROVE  IInv'
<1>1. TypeOK'
  BY UpdateItemQuantityType DEF IInv
<1> QED
  BY <1>1, QuietRequest DEF To, UpdateItemQuantity, FindsLine, NoNewCheckout

LEMMA RemoveItemKeeps ==
  ASSUME IInv, NEW s \in Sessions, NEW u \in Users, NEW l \in DOMAIN lines,
         RemoveItem(s, u, l), UNCHANGED <<activeCooks, checkouts, orders>>
  PROVE  IInv'
<1>1. TypeOK'
  BY RemoveItemType DEF IInv
<1> QED
  BY <1>1, QuietRequest DEF To, RemoveItem, FindsLine, NoNewCheckout

LEMMA WriteQuantityKeeps ==
  ASSUME IInv, NEW s \in Sessions, WriteQuantity(s),
         UNCHANGED <<activeCooks, checkouts, orders>>
  PROVE  IInv'
<1>1. TypeOK' /\ To(s, Idle)
  BY WriteQuantityType DEF IInv, WriteQuantity
<1>2. DOMAIN lines' = DOMAIN lines
  BY DEF WriteQuantity
<1>3. \A l \in DOMAIN lines : lines'[l].cart = lines[l].cart
  <2> SUFFICES ASSUME NEW l \in DOMAIN lines
               PROVE  lines'[l].cart = lines[l].cart
    OBVIOUS
  <2>1. lines[l] \in Line
    BY DEF IInv, TypeOK, TablesTyped
  <2> QED
    BY <2>1 DEF WriteQuantity, Line
<1>4. Shrinks
  BY <1>2, <1>3 DEF Shrinks, WriteQuantity, IInv, TablesConsistent
<1> QED
  BY <1>1, <1>4, QuietStep DEF To, Idle, NoNewCheckout

\* Taking out lines, and then carts that have none left, keeps the rest in place.
LEMMA RemovalShrinks ==
  ASSUME IInv, NEW C, NEW L, carts' = Without(carts, C), lines' = Without(lines, L),
         adds' = adds, \A l \in DOMAIN lines \ L : lines[l].cart \notin C
  PROVE  Shrinks
  BY DEF Shrinks, Without, IInv, TablesConsistent

LEMMA DeleteLineKeeps ==
  ASSUME IInv, NEW s \in Sessions, DeleteLine(s),
         UNCHANGED <<activeCooks, checkouts, orders>>
  PROVE  IInv'
<1>1. TypeOK /\ TypeOK'
  BY DeleteLineType DEF IInv
<1>2. PICK q \in {Idle, [phase |-> "removed", cart |-> requests[s].cart]} : To(s, q)
  BY DEF DeleteLine
<1>3. \E L : lines' = Without(lines, L)
  BY <1>1, WithoutNothing DEF DeleteLine
<1>4. carts' = Without(carts, {}) /\ adds' = adds
  BY <1>1, WithoutNothing DEF DeleteLine
<1>5. Shrinks
  BY <1>3, <1>4, RemovalShrinks
<1>6. q.phase # "merging" /\ q.phase # "resolved"
  BY DEF Idle
<1> QED
  BY <1>1, <1>2, <1>5, <1>6, QuietStep DEF To, NoNewCheckout

LEMMA CountRemainingKeeps ==
  ASSUME IInv, NEW s \in Sessions, CountRemaining(s),
         UNCHANGED <<activeCooks, checkouts, orders>>
  PROVE  IInv'
<1>1. TypeOK'
  BY CountRemainingType DEF IInv
<1>2. PICK q \in {Idle, [phase |-> "emptied", cart |-> requests[s].cart]} : To(s, q)
  BY DEF CountRemaining
<1>3. q.phase # "merging" /\ q.phase # "resolved"
  BY DEF Idle
<1> QED
  BY <1>1, <1>2, <1>3, QuietRequest DEF To, CountRemaining, NoNewCheckout

LEMMA DeleteCartKeeps ==
  ASSUME IInv, NEW s \in Sessions, DeleteCart(s),
         UNCHANGED <<activeCooks, checkouts, orders>>
  PROVE  IInv'
<1>1. TypeOK /\ TypeOK' /\ To(s, Idle)
  BY DeleteCartType DEF IInv, DeleteCart
<1>2. lines' = Without(lines, {}) /\ adds' = adds
  BY <1>1, WithoutNothing DEF DeleteCart
<1>3. CASE CanDeleteCart(requests[s].cart)
  <2>1. \A l \in DOMAIN lines \ {} : lines[l].cart \notin {requests[s].cart}
    BY <1>3 DEF CanDeleteCart, LinesOf
  <2>2. Shrinks
    BY <1>2, <1>3, <2>1, RemovalShrinks DEF DeleteCart
  <2> QED
    BY <1>1, <2>2, QuietStep DEF To, Idle, NoNewCheckout
<1>4. CASE ~CanDeleteCart(requests[s].cart)
  BY <1>1, <1>4, QuietRequest DEF To, DeleteCart, Idle, NoNewCheckout
<1> QED
  BY <1>3, <1>4

LEMMA ClearCartKeeps ==
  ASSUME IInv, NEW s \in Sessions, NEW u \in Users, ClearCart(s, u),
         UNCHANGED <<activeCooks, checkouts, orders>>
  PROVE  IInv'
<1>1. TypeOK'
  BY ClearCartType DEF IInv
<1> QED
  BY <1>1, QuietRequest DEF To, ClearCart, NoNewCheckout

LEMMA DeleteLinesKeeps ==
  ASSUME IInv, NEW s \in Sessions, DeleteLines(s),
         UNCHANGED <<activeCooks, checkouts, orders>>
  PROVE  IInv'
<1>1. TypeOK /\ TypeOK'
  BY DeleteLinesType DEF IInv
<1>2. carts' = Without(carts, {}) /\ adds' = adds
  BY <1>1, WithoutNothing DEF DeleteLines
<1>3. Shrinks
  BY <1>2, RemovalShrinks DEF DeleteLines
<1> QED
  BY <1>1, <1>3, QuietStep DEF To, DeleteLines, NoNewCheckout

LEMMA FailKeeps ==
  ASSUME IInv, NEW s \in Sessions, Fail(s), UNCHANGED <<activeCooks, checkouts, orders>>
  PROVE  IInv'
<1>1. TypeOK'
  BY FailType DEF IInv
<1> QED
  BY <1>1, QuietRequest DEF Fail, Idle, NoNewCheckout

LEMMA CheckCookKeeps ==
  ASSUME IInv, NEW s \in Sessions, NEW c \in Cooks, CheckCook(s, c)
  PROVE  IInv'
<1> DEFINE r == requests[s]
           q == [r EXCEPT !.unchecked = @ \ {c}]
<1>1. TypeOK /\ TypeOK'
  BY CheckCookType DEF IInv
<1>2. r \in CheckoutRequest
  BY <1>1, RequestShapes DEF CheckCook
<1>3. q.phase = r.phase /\ q.cart = r.cart /\ q.items = r.items /\ r.phase = "resolved"
  BY <1>2 DEF CheckoutRequest, CheckCook
<1>4. To(s, q) \/ To(s, Idle)
  BY DEF CheckCook
<1> HIDE DEF q
<1>5. CASE To(s, q)
  BY <1>1, <1>3, <1>5, QuietRequest DEF To, CheckCook, NoNewCheckout
<1>6. CASE To(s, Idle)
  BY <1>1, <1>6, QuietRequest DEF To, CheckCook, Idle, NoNewCheckout
<1> QED
  BY <1>4, <1>5, <1>6

\* The dishes' and the cooks' availability is in no other conjunct than the types.
LEMMA SurroundingsKeep ==
  ASSUME IInv, TypeOK', UNCHANGED <<carts, lines, adds, requests, orders>>
  PROVE  IInv'
<1>1. IdsUsed' /\ TablesConsistent'
  BY DEF IInv, IdsUsed, TablesConsistent
<1>2. CartsAgree'
  BY DEF IInv, CartsAgree, CreatesCart, CartsOf
<1>3. PlansAgree'
  BY DEF IInv, PlansAgree
<1>4. ItemsUsed' /\ LineOrderedOnce'
  BY DEF IInv, ItemsUsed, LineOrderedOnce, LinesIn
<1>5. CheckoutsAgree'
  BY DEF IInv, CheckoutsAgree, LinesIn
<1> QED
  BY <1>1, <1>2, <1>3, <1>4, <1>5 DEF IInv

-----------------------------------------------------------------------------
(* The transaction of addItems *)

LEMMA UpsertCartKeeps ==
  ASSUME IInv, NEW s \in Sessions, UpsertCart(s),
         UNCHANGED <<activeCooks, checkouts, orders>>
  PROVE  IInv'
<1> DEFINE r == requests[s]
           q(c) == [phase |-> "merging", user |-> r.user, cart |-> c,
                    asked |-> r.asked, plan |-> [d \in Dishes |-> NotYet]]
<1>1. TypeOK /\ TypeOK'
  BY UpsertCartType DEF IInv
<1>2. PICK c : /\ To(s, q(c))
               /\ \/ c \in CartsOf(r.user)
                  \/ c = 0 /\ CartsOf(r.user) = {} /\ MayInsertCart(s, r.user)
  BY DEF UpsertCart
<1>3. /\ q(c).phase = "merging" /\ q(c).user = r.user /\ q(c).cart = c
      /\ \A d \in Dishes : q(c).plan[d] = NotYet
  OBVIOUS
<1> HIDE DEF q
<1>4. requests'[s] = q(c) /\ \A t \in Sessions \ {s} : requests'[t] = requests[t]
  BY <1>1, <1>2, OneSessionMoves DEF To
<1>5. UNCHANGED <<carts, lines, adds>> /\ Shrinks
  BY SameTables DEF UpsertCart
<1>6. c \in 0..adds /\ (c \in DOMAIN carts => carts[c] = r.user)
  <2>1. 0 \notin DOMAIN carts /\ DOMAIN carts \subseteq 1..adds /\ adds \in Nat
    BY DEF IInv, IdsUsed, TypeOK, TablesTyped
  <2> QED
    BY <1>2, <2>1 DEF CartsOf
<1>7. c = 0 => CartsOf(r.user) = {} /\ MayInsertCart(s, r.user)
  BY <1>2 DEF CartsOf, IInv, TypeOK, TablesTyped, CartIds
<1>8. \A u : CartsOf(u)' = CartsOf(u)
  BY <1>5 DEF CartsOf
<1>9. CartsAgree'
  BY <1>3, <1>4, <1>5, <1>6, <1>7, <1>8
  DEF IInv, CartsAgree, CreatesCart, MayInsertCart
<1>10. PlansAgree'
  BY <1>3, <1>4, <1>5 DEF IInv, PlansAgree, NotYet, TypeOK, TablesTyped
<1>11. CheckoutsAgree'
  BY <1>2, <1>3, <1>5, CheckoutsKept DEF To, NoNewCheckout
<1> QED
  BY <1>1, <1>5, <1>9, <1>10, <1>11, TablesShrink, OrdersKept DEF IInv

LEMMA MergeDishKeeps ==
  ASSUME IInv, NEW s \in Sessions, NEW d \in Dishes, MergeDish(s, d),
         UNCHANGED <<activeCooks, checkouts, orders>>
  PROVE  IInv'
<1> DEFINE r == requests[s]
           existing == ExistingLines(r.cart, d)
           q(row, quantity) == [r EXCEPT !.plan = Planned(@, d, row, quantity)]
<1>1. TypeOK /\ TypeOK'
  BY MergeDishType DEF IInv
<1>2. r \in Merging
  BY <1>1, RequestShapes DEF MergeDish
<1>3. PICK row, quantity : /\ To(s, q(row, quantity))
                           /\ row = 0 \/ \E l \in existing : row = l[1]
  BY DEF MergeDish
<1>4. /\ q(row, quantity).phase = "merging" /\ q(row, quantity).user = r.user
      /\ q(row, quantity).cart = r.cart
      /\ q(row, quantity).plan = Planned(r.plan, d, row, quantity)
  BY <1>2 DEF Merging
<1>5. /\ Planned(r.plan, d, row, quantity)[d].row = row
      /\ \A e \in Dishes \ {d} : Planned(r.plan, d, row, quantity)[e] = r.plan[e]
  BY <1>2 DEF Merging, Plans, Planned
<1> HIDE DEF q
<1>6. /\ requests'[s] = q(row, quantity)
      /\ \A t \in Sessions \ {s} : requests'[t] = requests[t]
  BY <1>1, <1>3, OneSessionMoves DEF To
<1>7. UNCHANGED <<carts, lines, adds>> /\ Shrinks
  BY SameTables DEF MergeDish
<1>8. \A u : CartsOf(u)' = CartsOf(u)
  BY <1>7 DEF CartsOf
<1>9. CartsAgree'
  BY <1>4, <1>6, <1>7, <1>8 DEF IInv, CartsAgree, CreatesCart, MergeDish
<1>10. row \in 0..adds /\ (<<row, d>> \in DOMAIN lines => lines[<<row, d>>].cart = r.cart)
  <2>1. CASE row = 0
    BY <2>1 DEF IInv, TypeOK, TablesTyped, LineIds, CartIds
  <2>2. ASSUME NEW l \in existing, row = l[1]
        PROVE  /\ row \in 0..adds
               /\ <<row, d>> \in DOMAIN lines => lines[<<row, d>>].cart = r.cart
    <3>1. l \in DOMAIN lines /\ l \in LineIds /\ l[2] = d /\ lines[l].cart = r.cart
      BY DEF ExistingLines, LinesOf, DishOf, IInv, TypeOK, TablesTyped
    <3>2. l = <<row, d>>
      BY <2>2, <3>1 DEF LineIds
    <3>3. row \in 1..adds
      BY <2>2, <3>1 DEF IInv, IdsUsed
    <3> QED
      BY <3>1, <3>2, <3>3
  <2> QED
    BY <1>3, <2>1, <2>2
<1>11. PlansAgree'
  BY <1>4, <1>5, <1>6, <1>7, <1>10 DEF IInv, PlansAgree, MergeDish
<1>12. CheckoutsAgree'
  BY <1>3, <1>4, <1>7, CheckoutsKept DEF To, NoNewCheckout
<1> QED
  BY <1>1, <1>7, <1>9, <1>11, <1>12, TablesShrink, OrdersKept DEF IInv

\* What a commit of addItems that is not rolled back does to the tables: the cart
\* it writes to is new or was the user's, and the lines it creates are new.
Grows(r, c) ==
  /\ adds' = adds + 1
  /\ DOMAIN carts' = DOMAIN carts \cup {c}
  /\ \A d \in DOMAIN carts : carts'[d] = carts[d]
  /\ carts'[c] = r.user
  /\ DOMAIN lines \subseteq DOMAIN lines'
  /\ \A l \in DOMAIN lines : lines'[l].cart = lines[l].cart
  /\ \A l \in DOMAIN lines' \ DOMAIN lines : l[1] = adds + 1 /\ lines'[l].cart = c
  /\ \/ r.cart = 0 /\ c = adds + 1 /\ CartsOf(r.user) = {}
     \/ r.cart # 0 /\ c = r.cart /\ c \in DOMAIN carts

LEMMA WriteCartGrows ==
  ASSUME IInv, NEW s \in Sessions, CommitAdd(s), ~Refused(requests[s]),
         WriteCart(requests[s])
  PROVE  Grows(requests[s], CartFor(requests[s]))
<1> DEFINE r == requests[s]
           new == {LineFor(r, d) : d \in ToWrite(r)}
<1>1. TypeOK /\ r \in Merging /\ r.phase = "merging"
  BY RequestShapes DEF IInv, CommitAdd
<1>2. PICK d0 \in Dishes : d0 \in ToWrite(r)
  BY <1>1 DEF CommitAdd, Merging, AddRequests
<1>3. /\ \A d \in Dishes :
            /\ r.plan[d].row \in 0..adds
            /\ r.plan[d] # NotYet /\ <<r.plan[d].row, d>> \in DOMAIN lines =>
                 lines[<<r.plan[d].row, d>>].cart = r.cart
      /\ r.cart \in DOMAIN carts => carts[r.cart] = r.user
      /\ r.cart = 0 => CartsOf(r.user) = {}
  BY <1>1 DEF IInv, PlansAgree, CartsAgree, CreatesCart
<1>4. \A d \in ToWrite(r) :
        /\ d \in Dishes
        /\ r.plan[d].row # 0 => /\ <<r.plan[d].row, d>> \in DOMAIN lines
                                /\ lines[<<r.plan[d].row, d>>].cart = r.cart
  BY <1>3 DEF Refused, ToWrite, LineFor
<1>5. r.cart # 0 => r.cart \in DOMAIN carts
  <2>1. CASE r.plan[d0].row = 0
    BY <1>2, <2>1 DEF Refused
  <2>2. CASE r.plan[d0].row # 0
    BY <1>2, <1>4, <2>2 DEF IInv, TablesConsistent
  <2> QED
    BY <2>1, <2>2
<1>6. /\ DOMAIN carts \subseteq 1..adds /\ adds \in Nat
      /\ \A l \in DOMAIN lines : l[1] \in 1..adds /\ lines[l].cart \in DOMAIN carts
  BY DEF IInv, IdsUsed, TablesConsistent, TypeOK, TablesTyped
<1>7. /\ adds' = adds + 1
      /\ carts' = [c \in DOMAIN carts \cup {CartFor(r)} |->
                    IF c = CartFor(r) THEN r.user ELSE carts[c]]
      /\ lines' = [l \in DOMAIN lines \cup new |->
                    IF l \in new
                    THEN [cart |-> CartFor(r), quantity |-> r.plan[DishOf(l)].quantity]
                    ELSE lines[l]]
  BY DEF WriteCart
<1>8. \A l \in new :
        \/ l \in DOMAIN lines /\ lines[l].cart = r.cart
        \/ l[1] = adds + 1
  BY <1>4 DEF LineFor
<1> HIDE DEF new
<1>9. /\ DOMAIN lines' = DOMAIN lines \cup new
      /\ \A l \in new : lines'[l].cart = CartFor(r)
      /\ \A l \in DOMAIN lines \ new : lines'[l] = lines[l]
  BY <1>7
<1>10. \A l \in DOMAIN lines \cap new : lines[l].cart = CartFor(r)
  <2> SUFFICES ASSUME NEW l \in DOMAIN lines \cap new
               PROVE  lines[l].cart = CartFor(r)
    OBVIOUS
  <2>1. l[1] # adds + 1
    BY <1>6
  <2>2. lines[l].cart = r.cart /\ r.cart # 0
    BY <1>6, <1>8, <2>1
  <2> QED
    BY <2>2 DEF CartFor
<1>11. /\ \A l \in DOMAIN lines : lines'[l].cart = lines[l].cart
       /\ \A l \in DOMAIN lines' \ DOMAIN lines :
             l[1] = adds + 1 /\ lines'[l].cart = CartFor(r)
  BY <1>8, <1>9, <1>10
<1>12. /\ DOMAIN carts' = DOMAIN carts \cup {CartFor(r)}
       /\ carts'[CartFor(r)] = r.user
       /\ \A c \in DOMAIN carts : carts'[c] = carts[c]
  BY <1>3, <1>6, <1>7 DEF CartFor
<1> QED
  BY <1>3, <1>5, <1>7, <1>9, <1>11, <1>12 DEF Grows, CartFor

LEMMA CommitAddKeeps ==
  ASSUME IInv, NEW s \in Sessions, CommitAdd(s),
         UNCHANGED <<activeCooks, checkouts, orders>>
  PROVE  IInv'
<1> DEFINE r == requests[s]
           c == CartFor(r)
<1>1. TypeOK /\ TypeOK' /\ To(s, Idle) /\ r.phase = "merging"
  BY CommitAddType DEF IInv, CommitAdd
<1>2. CASE UNCHANGED <<carts, lines, adds>>
  BY <1>1, <1>2, QuietRequest DEF To, Idle, NoNewCheckout
<1>3. CASE ~Refused(r) /\ WriteCart(r)
  <2>1. Grows(r, c)
    BY <1>3, WriteCartGrows
  <2>2. requests'[s] = Idle /\ \A t \in Sessions \ {s} : requests'[t] = requests[t]
    BY <1>1, OneSessionMoves DEF To
  <2>3. adds \in Nat /\ DOMAIN carts \subseteq 1..adds /\ \A l \in DOMAIN lines : l[1] \in 1..adds
    BY DEF IInv, IdsUsed, TypeOK, TablesTyped
  <2>4. r.cart \in DOMAIN carts => carts[r.cart] = r.user
    BY <1>1 DEF IInv, CartsAgree
  <2> HIDE DEF c, r
  <2>5. IdsUsed'
    BY <2>1, <2>3 DEF Grows, IdsUsed
  <2>6. TablesConsistent'
    <3>1. \A l \in DOMAIN lines' : lines'[l].cart \in DOMAIN carts'
      BY <2>1 DEF Grows, IInv, TablesConsistent
    <3>2. \A a, b \in DOMAIN carts' : carts'[a] = carts'[b] => a = b
      BY <2>1 DEF Grows, IInv, TablesConsistent, CartsOf
    <3> QED
      BY <3>1, <3>2 DEF TablesConsistent
  <2>7. ASSUME NEW t \in Sessions, requests'[t].phase = "merging"
        PROVE  t # s /\ requests'[t] = requests[t] /\ requests[t].phase = "merging"
    BY <2>2, <2>7 DEF Idle
  <2>8. CartsAgree'
    <3>1. ASSUME NEW t \in Sessions, CreatesCart(requests'[t])
          PROVE  \A b \in DOMAIN carts' : carts'[b] # requests'[t].user
      <4>1. t # s /\ requests'[t] = requests[t] /\ CreatesCart(requests[t])
        BY <2>7, <3>1 DEF CreatesCart
      <4>2. \A b \in DOMAIN carts : carts[b] # requests[t].user
        BY <4>1 DEF IInv, CartsAgree, CartsOf
      <4>3. CASE r.cart = 0
        <5>1. r.user # requests[t].user
          BY <1>1, <4>1, <4>3 DEF IInv, CartsAgree, CreatesCart, r
        <5> QED
          BY <2>1, <4>1, <4>2, <5>1 DEF Grows
      <4>4. CASE r.cart # 0
        BY <2>1, <4>1, <4>2, <4>4 DEF Grows
      <4> QED
        BY <4>3, <4>4
    <3>2. ASSUME NEW t \in Sessions, requests'[t].phase = "merging"
          PROVE  /\ requests'[t].cart \in 0..adds'
                 /\ requests'[t].cart \in DOMAIN carts' =>
                      carts'[requests'[t].cart] = requests'[t].user
      <4>1. requests'[t] = requests[t] /\ requests[t].phase = "merging"
        BY <2>7, <3>2
      <4>2. requests[t].cart \in 0..adds
        BY <4>1 DEF IInv, CartsAgree
      <4>3. requests[t].cart \in DOMAIN carts => carts[requests[t].cart] = requests[t].user
        BY <4>1 DEF IInv, CartsAgree
      <4> QED
        BY <2>1, <2>3, <4>1, <4>2, <4>3 DEF Grows
    <3>3. ASSUME NEW t \in Sessions, NEW v \in Sessions \ {t},
                 CreatesCart(requests'[t]), CreatesCart(requests'[v])
          PROVE  requests'[v].user # requests'[t].user
      BY <2>7, <3>3 DEF IInv, CartsAgree, CreatesCart
    <3> QED
      BY <2>7, <3>1, <3>2, <3>3 DEF CartsAgree, CreatesCart, CartsOf
  <2>9. PlansAgree'
    BY <2>1, <2>3, <2>7 DEF Grows, IInv, PlansAgree
  <2>10. ItemsUsed' /\ LineOrderedOnce'
    <3>1. ItemsUsed'
      BY <2>1, <2>3 DEF Grows, IInv, ItemsUsed
    <3>2. \A x \in orders : \A l \in LinesIn(x) : l \in DOMAIN lines' => l \in DOMAIN lines
      <4>1. \A x \in orders : \A l \in LinesIn(x) : l[1] \in 1..adds
        BY DEF IInv, ItemsUsed, LinesIn
      <4> QED
        BY <2>1, <2>3, <4>1 DEF Grows
    <3>3. LineOrderedOnce'
      BY <3>2 DEF IInv, LineOrderedOnce, LinesIn
    <3> QED
      BY <3>1, <3>3
  <2>11. CheckoutsAgree'
    <3>1. ASSUME NEW t \in Sessions, requests'[t].phase = "resolved"
          PROVE  requests'[t] = requests[t] /\ requests[t].phase = "resolved"
      BY <2>2, <3>1 DEF Idle
    <3>2. ASSUME NEW t \in Sessions, requests[t].phase = "resolved"
          PROVE  /\ requests[t].cart \in 1..adds'
                 /\ requests[t].cart \notin DOMAIN carts =>
                      requests[t].cart \notin DOMAIN carts'
                 /\ \A l \in LinesIn(requests[t]) :
                       /\ l[1] \in 1..adds'
                       /\ l \in DOMAIN lines' => lines'[l].cart = requests[t].cart
      <4>1. requests[t].cart \in 1..adds
        BY <3>2 DEF IInv, CheckoutsAgree
      <4>2. \A l \in LinesIn(requests[t]) :
               /\ l[1] \in 1..adds
               /\ l \in DOMAIN lines => lines[l].cart = requests[t].cart
        BY <3>2 DEF IInv, CheckoutsAgree
      <4> QED
        BY <2>1, <2>3, <4>1, <4>2 DEF Grows
    <3>3. /\ \A x \in orders, t \in Sessions :
                requests[t].phase = "resolved" /\ LinesIn(x) \cap LinesIn(requests[t]) # {}
                  => requests[t].cart \notin DOMAIN carts
          /\ \A t, v \in Sessions :
                /\ requests[t].phase = "resolved" /\ requests[v].phase = "resolved"
                /\ LinesIn(requests[v]) \cap LinesIn(requests[t]) # {}
                => requests[v].cart = requests[t].cart
      BY DEF IInv, CheckoutsAgree
    <3> QED
      BY <3>1, <3>2, <3>3 DEF CheckoutsAgree, LinesIn
  <2> QED
    BY <1>1, <2>5, <2>6, <2>8, <2>9, <2>10, <2>11 DEF IInv
<1> QED
  BY <1>2, <1>3 DEF CommitAdd

-----------------------------------------------------------------------------
(* Checkouts *)

LEMMA ResolveCheckoutGroupsKeeps ==
  ASSUME IInv, NEW s \in Sessions, NEW u \in Users, ResolveCheckoutGroups(s, u)
  PROVE  IInv'
<1> DEFINE q(c) == [phase |-> "resolved", user |-> u, cart |-> c, items |-> ItemsOf(c),
                    unchecked |-> {CookOf[DishOf(l)] : l \in LinesOf(c)}]
<1>1. TypeOK /\ TypeOK'
  BY ResolveCheckoutGroupsType DEF IInv
<1>2. PICK c \in CartsOf(u) : To(s, q(c))
  BY DEF ResolveCheckoutGroups
<1>3. LinesIn(q(c)) = LinesOf(c)
  <2>1. q(c).items = ItemsOf(c)
    OBVIOUS
  <2>2. \A i \in ItemsOf(c) : i.line \in LinesOf(c)
    BY DEF ItemsOf
  <2>3. ASSUME NEW l \in LinesOf(c)
        PROVE  \E i \in ItemsOf(c) : i.line = l
    <3> DEFINE i == [line |-> l, quantity |-> lines[l].quantity]
    <3>1. i \in ItemsOf(c) /\ i.line = l
      BY DEF ItemsOf
    <3> HIDE DEF i
    <3> QED
      BY <3>1
  <2> HIDE DEF q
  <2> QED
    BY <2>1, <2>2, <2>3 DEF LinesIn
<1>4. q(c).phase = "resolved" /\ q(c).cart = c
  OBVIOUS
<1> HIDE DEF q
<1>5. requests'[s] = q(c) /\ \A t \in Sessions \ {s} : requests'[t] = requests[t]
  BY <1>1, <1>2, OneSessionMoves DEF To
<1>6. UNCHANGED <<carts, lines, adds, orders>> /\ Shrinks
  BY SameTables DEF ResolveCheckoutGroups
<1>7. /\ c \in 1..adds
      /\ \A l \in LinesOf(c) : l \in DOMAIN lines /\ l[1] \in 1..adds /\ lines[l].cart = c
  BY DEF CartsOf, LinesOf, IInv, IdsUsed
<1>8. \A x \in orders : LinesIn(x) \cap LinesOf(c) = {}
  BY <1>7 DEF IInv, LineOrderedOnce
<1>9. ASSUME NEW t \in Sessions, requests[t].phase = "resolved",
             LinesIn(requests[t]) \cap LinesOf(c) # {}
      PROVE  requests[t].cart = c
  BY <1>7, <1>9 DEF IInv, CheckoutsAgree
<1>10. CheckoutsAgree'
  <2>2. ASSUME NEW t \in Sessions, requests'[t].phase = "resolved"
        PROVE  /\ requests'[t].cart \in 1..adds
               /\ \A l \in LinesIn(requests'[t]) :
                     /\ l[1] \in 1..adds
                     /\ l \in DOMAIN lines => lines[l].cart = requests'[t].cart
               /\ \A x \in orders :
                     LinesIn(x) \cap LinesIn(requests'[t]) # {}
                       => requests'[t].cart \notin DOMAIN carts
    <3>1. CASE t = s
      BY <1>3, <1>4, <1>5, <1>7, <1>8, <3>1
    <3>2. CASE t # s
      BY <1>5, <2>2, <3>2 DEF IInv, CheckoutsAgree
    <3> QED
      BY <3>1, <3>2
  <2>3. ASSUME NEW t \in Sessions, NEW v \in Sessions,
               requests'[t].phase = "resolved", requests'[v].phase = "resolved",
               LinesIn(requests'[v]) \cap LinesIn(requests'[t]) # {}
        PROVE  requests'[v].cart = requests'[t].cart
    <3>1. CASE t = s \/ v = s
      BY <1>3, <1>4, <1>5, <1>9, <2>3, <3>1
    <3>2. CASE t # s /\ v # s
      BY <1>5, <2>3, <3>2 DEF IInv, CheckoutsAgree
    <3> QED
      BY <3>1, <3>2
  <2> QED
    BY <1>6, <2>2, <2>3 DEF CheckoutsAgree, LinesIn
<1>11. CartsAgree' /\ PlansAgree'
  BY <1>2, <1>4, <1>6, CartsKept DEF To
<1> QED
  BY <1>1, <1>6, <1>10, <1>11, TablesShrink, OrdersKept DEF IInv

LEMMA CreateFromCartKeeps ==
  ASSUME IInv, NEW s \in Sessions, CreateFromCart(s)
  PROVE  IInv'
<1> DEFINE r == requests[s]
           c == r.cart
<1>1. TypeOK /\ TypeOK' /\ To(s, Idle) /\ r.phase = "resolved" /\ adds' = adds
  BY CreateFromCartType DEF IInv, CreateFromCart
<1>2. CASE ~CartStillThere(c)
  BY <1>1, <1>2, QuietRequest DEF To, CreateFromCart, Idle, NoNewCheckout
<1>3. CASE CartStillThere(c)
  <2>1. /\ carts' = Without(carts, {c})
        /\ lines' = Without(lines, LinesOf(c))
        /\ orders' = orders \cup NewOrders(r)
    BY <1>3 DEF CreateFromCart
  <2>2. Shrinks
    BY <1>1, <2>1, RemovalShrinks DEF LinesOf
  <2>3. IdsUsed' /\ TablesConsistent' /\ CartsAgree' /\ PlansAgree'
    BY <1>1, <2>2, TablesShrink, CartsKept DEF To, Idle
  <2>4. /\ DOMAIN carts' = DOMAIN carts \ {c}
        /\ DOMAIN lines' = DOMAIN lines \ LinesOf(c)
    BY <2>1 DEF Without
  <2>5. /\ \A l \in LinesIn(r) : /\ l[1] \in 1..adds
                                 /\ l \in DOMAIN lines => lines[l].cart = c
        /\ \A x \in orders : LinesIn(x) \cap LinesIn(r) = {}
        /\ \A t \in Sessions :
              requests[t].phase = "resolved" /\ LinesIn(requests[t]) \cap LinesIn(r) # {}
                => requests[t].cart = c
    BY <1>1, <1>3 DEF IInv, CheckoutsAgree, CartStillThere
  <2>6. ASSUME NEW x \in NewOrders(r)
        PROVE  /\ x.items \subseteq r.items
               /\ \A l \in LinesIn(x) : CookOf[DishOf(l)] = x.cook
               /\ LinesIn(x) \subseteq LinesIn(r)
    <3>1. x.items = ItemsFor(r.items, x.cook)
      BY DEF NewOrders
    <3> QED
      BY <3>1 DEF ItemsFor, LinesIn
  <2>7. ItemsUsed'
    <3>1. \A i \in r.items : i.line[1] \in 1..adds
      BY <2>5 DEF LinesIn
    <3> QED
      BY <1>1, <2>1, <2>6, <3>1 DEF IInv, ItemsUsed
  <2>8. LineOrderedOnce'
    <3>1. \A x, y \in NewOrders(r) : x # y => x.cook # y.cook
      BY DEF NewOrders
    <3>2. \A x, y \in NewOrders(r) : x # y => LinesIn(x) \cap LinesIn(y) = {}
      BY <2>6, <3>1
    <3>3. \A x \in orders, y \in NewOrders(r) : LinesIn(x) \cap LinesIn(y) = {}
      BY <2>5, <2>6
    <3>4. \A x, y \in orders' : x # y => LinesIn(x) \cap LinesIn(y) = {}
      BY <2>1, <3>2, <3>3 DEF IInv, LineOrderedOnce
    <3>5. \A x \in orders : LinesIn(x) \cap DOMAIN lines' = {}
      BY <2>4 DEF IInv, LineOrderedOnce
    <3>6. \A x \in NewOrders(r) : LinesIn(x) \cap DOMAIN lines' = {}
      BY <2>4, <2>5, <2>6 DEF LinesOf
    <3> QED
      BY <2>1, <3>4, <3>5, <3>6 DEF LineOrderedOnce, LinesIn
  <2>9. CheckoutsAgree'
    <3>1. ASSUME NEW t \in Sessions, requests'[t].phase = "resolved"
          PROVE  requests'[t] = requests[t] /\ requests[t].phase = "resolved"
      BY <1>1, <3>1, OneSessionMoves DEF To, Idle
    <3>2. ASSUME NEW t \in Sessions, requests[t].phase = "resolved"
          PROVE  /\ requests[t].cart \in 1..adds'
                 /\ \A l \in LinesIn(requests[t]) :
                       /\ l[1] \in 1..adds'
                       /\ l \in DOMAIN lines' => lines'[l].cart = requests[t].cart
      BY <1>1, <2>2, <3>2 DEF IInv, CheckoutsAgree, Shrinks
    <3>3. ASSUME NEW t \in Sessions, requests[t].phase = "resolved", NEW x \in orders',
                 LinesIn(x) \cap LinesIn(requests[t]) # {}
          PROVE  requests[t].cart \notin DOMAIN carts'
      <4>1. CASE x \in orders
        BY <2>4, <3>3, <4>1 DEF IInv, CheckoutsAgree
      <4>2. CASE x \in NewOrders(r)
        BY <2>4, <2>5, <2>6, <3>3, <4>2
      <4> QED
        BY <2>1, <4>1, <4>2
    <3>4. \A t, v \in Sessions :
             /\ requests[t].phase = "resolved" /\ requests[v].phase = "resolved"
             /\ LinesIn(requests[v]) \cap LinesIn(requests[t]) # {}
             => requests[v].cart = requests[t].cart
      BY DEF IInv, CheckoutsAgree
    <3> QED
      BY <3>1, <3>2, <3>3, <3>4 DEF CheckoutsAgree, LinesIn
  <2> QED
    BY <1>1, <2>3, <2>7, <2>8, <2>9 DEF IInv
<1> QED
  BY <1>2, <1>3

-----------------------------------------------------------------------------
(* Theorems *)

\* The strengthening of LineOrderedOnce is an invariant: whatever requests
\* overlap, and wherever they are cut short, ids stay fresh, a cart belongs to
\* one customer, and what a checkout has read are lines of a cart that is gone
\* once they are ordered.
THEOREM InductiveInvariant == Spec => []IInv
<1>1. Init => IInv
  <2> SUFFICES ASSUME Init
               PROVE  IInv
    OBVIOUS
  <2>1. TypeOK
    BY InitType
  <2>2. IdsUsed /\ TablesConsistent
    BY DEF Init, BasketInit, IdsUsed, TablesConsistent
  <2>3. \A s \in Sessions : requests[s].phase = "idle"
    BY DEF Init, BasketInit, Idle
  <2>4. CartsAgree /\ PlansAgree /\ CheckoutsAgree
    BY <2>3 DEF CartsAgree, CreatesCart, PlansAgree, CheckoutsAgree
  <2>5. ItemsUsed /\ LineOrderedOnce
    BY DEF Init, ItemsUsed, LineOrderedOnce
  <2> QED
    BY <2>1, <2>2, <2>4, <2>5 DEF IInv
<1>2. IInv /\ [Next]_vars => IInv'
  <2> SUFFICES ASSUME IInv, [Next]_vars
               PROVE  IInv'
    OBVIOUS
  <2>1. CASE BasketNext /\ UNCHANGED <<activeCooks, checkouts, orders>>
    <3>1. ASSUME NEW d \in Dishes, UpdateDish(d)
          PROVE  IInv'
      <4>1. TypeOK'
        BY <2>1, <3>1, UpdateDishType DEF IInv
      <4> QED
        BY <2>1, <3>1, <4>1, SurroundingsKeep DEF UpdateDish
    <3> QED
      BY <2>1, <3>1, AddItemsKeeps, UpsertCartKeeps, MergeDishKeeps, CommitAddKeeps,
         UpdateItemQuantityKeeps, WriteQuantityKeeps, RemoveItemKeeps, DeleteLineKeeps,
         CountRemainingKeeps, DeleteCartKeeps, ClearCartKeeps, DeleteLinesKeeps, FailKeeps
      DEF BasketNext
  <2>2. CASE CheckoutNext
    <3>1. ASSUME NEW c \in Cooks, CookTurns(c)
          PROVE  IInv'
      <4>1. TypeOK'
        BY <3>1, CookTurnsType DEF IInv
      <4> QED
        BY <3>1, <4>1, SurroundingsKeep DEF CookTurns
    <3> QED
      BY <2>2, <3>1, ResolveCheckoutGroupsKeeps, CheckCookKeeps, CreateFromCartKeeps
      DEF CheckoutNext
  <2>3. CASE UNCHANGED vars
    <3>1. TypeOK'
      BY <2>3 DEF vars, IInv, TypeOK, TablesTyped
    <3> QED
      BY <2>3, <3>1, SurroundingsKeep DEF vars
  <2> QED
    BY <2>1, <2>2, <2>3 DEF Next
<1> QED
  BY <1>1, <1>2, PTL DEF Spec

\* createFromCart: of any number of checkouts of one basket, and whatever basket
\* requests run beside them, one orders its lines, and none orders a line that
\* stays in a basket.
THEOREM LinesAreOrderedOnce == Spec => []LineOrderedOnce
<1>1. IInv => LineOrderedOnce
  BY DEF IInv
<1> QED
  BY <1>1, InductiveInvariant, PTL

\* A line of a cart never outlives its cart, and a customer never has two carts,
\* although addItems, removeItem, clearCart and createFromCart overlap.
THEOREM TablesStayConsistent == Spec => []TablesConsistent
<1>1. IInv => TablesConsistent
  BY DEF IInv
<1> QED
  BY <1>1, InductiveInvariant, PTL

-----------------------------------------------------------------------------
(* Empty carts, and lines of one dish *)

\* All of LinesInv that a step keeps which shrinks the tables and starts no
\* transaction: every cart that is empty after it must have been so before, and not
\* in the care of the session that moves, or be in its care now.
LEMMA LinesQuiet ==
  ASSUME IInv, LinesInv, Shrinks, NEW s \in Sessions, NEW q, To(s, q), q.phase # "merging",
         q.phase = "removing" =>
           /\ q.line[1] \in 1..adds
           /\ q.line \in DOMAIN lines => lines[q.line].cart = q.cart,
         \A c \in DOMAIN carts' : LinesOf(c)' = {} =>
           Attends(q, c) \/ (LinesOf(c) = {} /\ ~Attends(requests[s], c))
  PROVE  LinesInv'
<1>1. requests'[s] = q /\ \A t \in Sessions \ {s} : requests'[t] = requests[t]
  BY OneSessionMoves DEF IInv, To
<1>2. EmptyCartsAttended'
  <2> SUFFICES ASSUME ~cut', NEW c \in DOMAIN carts', LinesOf(c)' = {}
               PROVE  \E t \in Sessions : Attends(requests'[t], c)
    BY DEF EmptyCartsAttended, Attends
  <2>1. CASE Attends(q, c)
    BY <1>1, <2>1
  <2>2. CASE LinesOf(c) = {} /\ ~Attends(requests[s], c)
    <3>1. ~cut /\ c \in DOMAIN carts
      BY DEF To, Shrinks
    <3>2. PICK t \in Sessions : Attends(requests[t], c)
      BY <2>2, <3>1 DEF LinesInv, EmptyCartsAttended
    <3> QED
      BY <1>1, <2>2, <3>2
  <2> QED
    BY <2>1, <2>2
<1>3. RemovalsAgree'
  <2> SUFFICES ASSUME NEW t \in Sessions, requests'[t].phase = "removing"
               PROVE  /\ requests'[t].line[1] \in 1..adds'
                      /\ requests'[t].line \in DOMAIN lines' =>
                           lines'[requests'[t].line].cart = requests'[t].cart
    BY DEF RemovalsAgree
  <2>1. /\ requests'[t].line[1] \in 1..adds
        /\ requests'[t].line \in DOMAIN lines =>
             lines[requests'[t].line].cart = requests'[t].cart
    BY <1>1 DEF LinesInv, RemovalsAgree
  <2> QED
    BY <2>1 DEF Shrinks
<1>4. LookupsHold'
  BY <1>1 DEF LookupsHold, OneSession
<1>5. OneLinePerDish'
  BY DEF LinesInv, OneLinePerDish, Shrinks
<1> QED
  BY <1>2, <1>3, <1>4, <1>5 DEF LinesInv

\* The same where the tables stay as they are.
LEMMA LinesQuietRequest ==
  ASSUME IInv, LinesInv, NEW s \in Sessions, NEW q, To(s, q), q.phase # "merging",
         q.phase = "removing" =>
           /\ q.line[1] \in 1..adds
           /\ q.line \in DOMAIN lines => lines[q.line].cart = q.cart,
         \A c \in DOMAIN carts : LinesOf(c) = {} /\ Attends(requests[s], c) => Attends(q, c),
         UNCHANGED <<carts, lines, adds>>
  PROVE  LinesInv'
<1>1. Shrinks /\ \A c : LinesOf(c)' = LinesOf(c)
  BY SameTables DEF LinesOf
<1> QED
  BY <1>1, LinesQuiet

\* A session that is not looking after an empty cart.
LEMMA Inattentive ==
  ASSUME NEW r, r.phase \notin {"removed", "emptied"}
  PROVE  \A c : ~Attends(r, c)
  BY DEF Attends

\* Requests that start, and the second steps that write no row.
LEMMA ReadersKeepLines ==
  ASSUME IInv, LinesInv, NEW s \in Sessions,
         \/ \E u \in Users, asked \in AddRequests : AddItems(s, u, asked)
         \/ \E u \in Users, l \in DOMAIN lines, quantity \in 1..MaxMerged :
               UpdateItemQuantity(s, u, l, quantity)
         \/ \E u \in Users, l \in DOMAIN lines : RemoveItem(s, u, l)
         \/ \E u \in Users : ClearCart(s, u)
         \/ \E u \in Users : ResolveCheckoutGroups(s, u)
         \/ \E c \in Cooks : CheckCook(s, c)
  PROVE  LinesInv'
<1>1. \A l \in DOMAIN lines : l[1] \in 1..adds
  BY DEF IInv, IdsUsed
<1>2. UNCHANGED <<carts, lines, adds>>
  BY DEF AddItems, UpdateItemQuantity, RemoveItem, FindsLine, ClearCart,
         ResolveCheckoutGroups, CheckCook
<1>3. requests[s].phase \in {"idle", "resolved"}
  <2>1. requests[s] = Idle \/ requests[s].phase = "resolved"
    BY DEF AddItems, UpdateItemQuantity, RemoveItem, FindsLine, ClearCart,
           ResolveCheckoutGroups, CheckCook
  <2> QED
    BY <2>1 DEF Idle
<1>4. PICK q : /\ To(s, q) /\ q.phase # "merging"
               /\ q.phase = "removing" =>
                    q.line \in DOMAIN lines /\ lines[q.line].cart = q.cart
  <2>1. ASSUME NEW u \in Users, NEW asked \in AddRequests, AddItems(s, u, asked)
        PROVE  \E q : To(s, q) /\ q.phase = "adding"
    BY <2>1 DEF AddItems
  <2>2. ASSUME NEW u \in Users, NEW l \in DOMAIN lines, NEW quantity \in 1..MaxMerged,
               UpdateItemQuantity(s, u, l, quantity)
        PROVE  \E q : To(s, q) /\ q.phase = "updating"
    BY <2>2 DEF UpdateItemQuantity
  <2>3. ASSUME NEW u \in Users, NEW l \in DOMAIN lines, RemoveItem(s, u, l)
        PROVE  \E q : To(s, q) /\ q.phase = "removing" /\ q.line \in DOMAIN lines
                      /\ lines[q.line].cart = q.cart
    <3> DEFINE q == [phase |-> "removing", line |-> l, cart |-> lines[l].cart]
    <3>1. To(s, q) /\ q.phase = "removing" /\ q.line = l /\ q.cart = lines[l].cart
      BY <2>3 DEF RemoveItem
    <3> HIDE DEF q
    <3> QED
      BY <3>1
  <2>4. ASSUME NEW u \in Users, ClearCart(s, u)
        PROVE  \E q : To(s, q) /\ q.phase = "clearing"
    BY <2>4 DEF ClearCart
  <2>5. ASSUME NEW u \in Users, ResolveCheckoutGroups(s, u)
        PROVE  \E q : To(s, q) /\ q.phase = "resolved"
    BY <2>5 DEF ResolveCheckoutGroups
  <2>6. ASSUME NEW c \in Cooks, CheckCook(s, c)
        PROVE  \E q : To(s, q) /\ q.phase \in {"resolved", "idle"}
    <3>1. requests[s] \in CheckoutRequest
      BY <2>6, RequestShapes DEF CheckCook, IInv
    <3> DEFINE q == [requests[s] EXCEPT !.unchecked = @ \ {c}]
    <3>2. q.phase = "resolved"
      BY <2>6, <3>1 DEF CheckCook, CheckoutRequest
    <3>3. To(s, q) \/ To(s, Idle)
      BY <2>6 DEF CheckCook
    <3> HIDE DEF q
    <3> QED
      BY <3>2, <3>3 DEF Idle
  <2> QED
    BY <2>1, <2>2, <2>3, <2>4, <2>5, <2>6
<1> QED
  BY <1>1, <1>2, <1>3, <1>4, LinesQuietRequest, Inattentive

LEMMA WriteQuantityKeepsLines ==
  ASSUME IInv, LinesInv, NEW s \in Sessions, WriteQuantity(s)
  PROVE  LinesInv'
<1>1. To(s, Idle) /\ DOMAIN lines' = DOMAIN lines /\ carts' = carts /\ adds' = adds
  BY DEF WriteQuantity
<1>2. \A l \in DOMAIN lines : lines'[l].cart = lines[l].cart
  <2> SUFFICES ASSUME NEW l \in DOMAIN lines
               PROVE  lines'[l].cart = lines[l].cart
    OBVIOUS
  <2>1. lines[l] \in Line
    BY DEF IInv, TypeOK, TablesTyped
  <2> QED
    BY <2>1 DEF WriteQuantity, Line
<1>3. Shrinks
  BY <1>1, <1>2 DEF Shrinks, IInv, TablesConsistent
<1>4. \A c : LinesOf(c)' = LinesOf(c)
  BY <1>1, <1>2 DEF LinesOf
<1>5. \A c : ~Attends(requests[s], c)
  BY Inattentive DEF WriteQuantity
<1> QED
  BY <1>1, <1>3, <1>4, <1>5, LinesQuiet DEF Idle

\* The session that removes a line looks after the line's cart from then on.
LEMMA DeleteLineKeepsLines ==
  ASSUME IInv, LinesInv, NEW s \in Sessions, DeleteLine(s)
  PROVE  LinesInv'
<1> DEFINE r == requests[s]
           q == [phase |-> "removed", cart |-> r.cart]
<1>1. /\ r.phase = "removing" /\ UNCHANGED <<carts, adds>>
      /\ r.line \in DOMAIN lines => lines[r.line].cart = r.cart
  BY DEF DeleteLine, LinesInv, RemovalsAgree
<1>2. \A c : ~Attends(r, c)
  BY <1>1, Inattentive
<1>3. CASE r.line \in DOMAIN lines
  <2>1. To(s, q) /\ lines' = Without(lines, {r.line})
    BY <1>3 DEF DeleteLine
  <2>2. carts' = Without(carts, {})
    BY <1>1, WithoutNothing DEF IInv
  <2>3. Shrinks
    BY <1>1, <2>1, <2>2, RemovalShrinks
  <2>4. \A c : c # r.cart => LinesOf(c)' = LinesOf(c)
    BY <1>1, <1>3, <2>1 DEF LinesOf, Without
  <2>5. Attends(q, r.cart) /\ q.phase = "removed"
    BY DEF Attends
  <2> HIDE DEF q, r
  <2> QED
    BY <1>2, <2>1, <2>3, <2>4, <2>5, LinesQuiet DEF r
<1>4. CASE r.line \notin DOMAIN lines
  <2>1. To(s, Idle) /\ UNCHANGED lines
    BY <1>4 DEF DeleteLine
  <2> QED
    BY <1>1, <1>2, <2>1, LinesQuietRequest DEF Idle
<1> QED
  BY <1>3, <1>4

\* It leaves a cart alone only when lines remain in it.
LEMMA CountRemainingKeepsLines ==
  ASSUME IInv, LinesInv, NEW s \in Sessions, CountRemaining(s)
  PROVE  LinesInv'
<1> DEFINE c0 == requests[s].cart
           q == [phase |-> "emptied", cart |-> c0]
<1>1. UNCHANGED <<carts, lines, adds>>
  BY DEF CountRemaining
<1>2. CASE NothingRemains(c0)
  <2>1. To(s, q) /\ q.phase = "emptied" /\ q.cart = c0
    BY <1>2 DEF CountRemaining
  <2> HIDE DEF q
  <2> QED
    BY <1>1, <2>1, LinesQuietRequest DEF Attends
<1>3. CASE ~NothingRemains(c0)
  <2>1. To(s, Idle)
    BY <1>3 DEF CountRemaining
  <2>2. LinesOf(c0) # {}
    BY <1>3, FS_EmptySet DEF NothingRemains
  <2> QED
    BY <1>1, <2>1, <2>2, LinesQuietRequest DEF Attends, Idle
<1> QED
  BY <1>2, <1>3

\* The cart is deleted unless it is gone or has a line again.
LEMMA DeleteCartKeepsLines ==
  ASSUME IInv, LinesInv, NEW s \in Sessions, DeleteCart(s)
  PROVE  LinesInv'
<1> DEFINE c0 == requests[s].cart
<1>1. To(s, Idle) /\ UNCHANGED <<lines, adds>>
  BY DEF DeleteCart
<1>2. CASE CanDeleteCart(c0)
  <2>1. carts' = Without(carts, {c0}) /\ lines' = Without(lines, {})
    BY <1>1, <1>2, WithoutNothing DEF DeleteCart, IInv
  <2>2. \A l \in DOMAIN lines \ {} : lines[l].cart \notin {c0}
    BY <1>2 DEF CanDeleteCart, LinesOf
  <2>3. Shrinks
    BY <1>1, <2>1, <2>2, RemovalShrinks
  <2>4. \A c \in DOMAIN carts' : c # c0 /\ LinesOf(c)' = LinesOf(c)
    BY <1>1, <2>1 DEF Without, LinesOf
  <2>5. \A c \in DOMAIN carts' : ~Attends(requests[s], c)
    BY <2>4 DEF Attends
  <2> QED
    BY <1>1, <2>3, <2>4, <2>5, LinesQuiet DEF Idle
<1>3. CASE ~CanDeleteCart(c0)
  <2>1. UNCHANGED carts
    BY <1>3 DEF DeleteCart
  <2>2. \A c \in DOMAIN carts : ~(LinesOf(c) = {} /\ Attends(requests[s], c))
    BY <1>3 DEF CanDeleteCart, Attends
  <2> QED
    BY <1>1, <2>1, <2>2, LinesQuietRequest DEF Idle
<1> QED
  BY <1>2, <1>3

LEMMA DeleteLinesKeepsLines ==
  ASSUME IInv, LinesInv, NEW s \in Sessions, DeleteLines(s)
  PROVE  LinesInv'
<1> DEFINE c0 == requests[s].cart
           q == [phase |-> "emptied", cart |-> c0]
<1>1. To(s, q) /\ UNCHANGED <<carts, adds>> /\ lines' = Without(lines, LinesOf(c0))
  BY DEF DeleteLines
<1>2. carts' = Without(carts, {})
  BY <1>1, WithoutNothing DEF IInv
<1>3. Shrinks
  BY <1>1, <1>2, RemovalShrinks
<1>4. \A c : c # c0 => LinesOf(c)' = LinesOf(c)
  BY <1>1 DEF LinesOf, Without
<1>5. q.phase = "emptied" /\ Attends(q, c0) /\ \A c : ~Attends(requests[s], c)
  BY Inattentive DEF Attends, DeleteLines
<1> HIDE DEF q
<1> QED
  BY <1>1, <1>3, <1>4, <1>5, LinesQuiet

\* A checkout takes the cart away with its lines, or does nothing.
LEMMA CreateFromCartKeepsLines ==
  ASSUME IInv, LinesInv, NEW s \in Sessions, CreateFromCart(s)
  PROVE  LinesInv'
<1> DEFINE c0 == requests[s].cart
<1>1. /\ To(s, Idle) /\ UNCHANGED adds /\ \A c : ~Attends(requests[s], c)
  BY Inattentive DEF CreateFromCart
<1>2. CASE CartStillThere(c0)
  <2>1. carts' = Without(carts, {c0}) /\ lines' = Without(lines, LinesOf(c0))
    BY <1>2 DEF CreateFromCart
  <2>2. Shrinks
    BY <1>1, <2>1, RemovalShrinks DEF LinesOf
  <2>3. \A c \in DOMAIN carts' : LinesOf(c)' = LinesOf(c)
    BY <2>1 DEF Without, LinesOf
  <2> QED
    BY <1>1, <2>2, <2>3, LinesQuiet DEF Idle
<1>3. CASE ~CartStillThere(c0)
  <2>1. UNCHANGED <<carts, lines>>
    BY <1>3 DEF CreateFromCart
  <2> QED
    BY <1>1, <2>1, LinesQuietRequest DEF Idle
<1> QED
  BY <1>2, <1>3

\* A step after which a request has been cut short, or no request has moved.
LEMMA FailKeepsLines ==
  ASSUME IInv, LinesInv, NEW s \in Sessions, Fail(s)
  PROVE  LinesInv'
<1>1. requests'[s] = Idle /\ \A t \in Sessions \ {s} : requests'[t] = requests[t]
  BY OneSessionMoves DEF IInv, Fail
<1>2. UNCHANGED <<carts, lines, adds>> /\ cut'
  BY DEF Fail
<1>3. EmptyCartsAttended'
  BY <1>2 DEF EmptyCartsAttended
<1>4. RemovalsAgree'
  BY <1>1, <1>2 DEF LinesInv, RemovalsAgree, Idle
<1>5. LookupsHold'
  BY <1>1 DEF LookupsHold, OneSession, Idle
<1>6. OneLinePerDish'
  BY <1>2 DEF LinesInv, OneLinePerDish
<1> QED
  BY <1>3, <1>4, <1>5, <1>6 DEF LinesInv

LEMMA SurroundingsKeepLines ==
  ASSUME LinesInv, UNCHANGED <<carts, lines, adds, requests, cut>>
  PROVE  LinesInv'
<1>1. \A c : LinesOf(c)' = LinesOf(c)
  BY DEF LinesOf
<1>2. EmptyCartsAttended'
  BY <1>1 DEF LinesInv, EmptyCartsAttended, Attends
<1>3. RemovalsAgree'
  BY DEF LinesInv, RemovalsAgree
<1>4. LookupsHold' /\ OneLinePerDish'
  BY <1>1 DEF LinesInv, LookupsHold, ExistingLines, OneLinePerDish
<1> QED
  BY <1>2, <1>3, <1>4 DEF LinesInv

\* A transaction begins with no dish looked up.
LEMMA UpsertCartKeepsLines ==
  ASSUME IInv, LinesInv, NEW s \in Sessions, UpsertCart(s)
  PROVE  LinesInv'
<1> DEFINE r == requests[s]
           q(c) == [phase |-> "merging", user |-> r.user, cart |-> c,
                    asked |-> r.asked, plan |-> [d \in Dishes |-> NotYet]]
<1>1. PICK c : To(s, q(c))
  BY DEF UpsertCart
<1>2. q(c).phase = "merging" /\ \A d \in Dishes : q(c).plan[d] = NotYet
  OBVIOUS
<1> HIDE DEF q
<1>3. requests'[s] = q(c) /\ \A t \in Sessions \ {s} : requests'[t] = requests[t]
  BY <1>1, OneSessionMoves DEF IInv, To
<1>4. UNCHANGED <<carts, lines, adds, cut>> /\ r.phase = "adding"
  BY <1>1 DEF UpsertCart, To
<1>5. LookupsHold'
  BY <1>2, <1>3 DEF LookupsHold, OneSession
<1>6. \A x : LinesOf(x)' = LinesOf(x)
  BY <1>4 DEF LinesOf
<1>7. EmptyCartsAttended'
  BY <1>3, <1>4, <1>6 DEF LinesInv, EmptyCartsAttended, Attends
<1>8. RemovalsAgree' /\ OneLinePerDish'
  BY <1>2, <1>3, <1>4 DEF LinesInv, RemovalsAgree, OneLinePerDish
<1> QED
  BY <1>5, <1>7, <1>8 DEF LinesInv

LEMMA MergeDishKeepsLines ==
  ASSUME IInv, LinesInv, NEW s \in Sessions, NEW d \in Dishes, MergeDish(s, d)
  PROVE  LinesInv'
<1> DEFINE r == requests[s]
           existing == ExistingLines(r.cart, d)
           q(row, quantity) == [r EXCEPT !.plan = Planned(@, d, row, quantity)]
<1>1. r \in Merging
  BY RequestShapes DEF MergeDish, IInv
<1>2. PICK row, quantity : /\ To(s, q(row, quantity))
                           /\ row = 0 => existing = {}
  <2>1. \A l \in existing : l[1] # 0
    BY DEF ExistingLines, LinesOf, IInv, TypeOK, TablesTyped, LineIds, CartIds
  <2> QED
    BY <2>1 DEF MergeDish
<1>3. /\ q(row, quantity).phase = "merging" /\ q(row, quantity).cart = r.cart
      /\ q(row, quantity).plan = Planned(r.plan, d, row, quantity)
  BY <1>1 DEF Merging
<1>4. /\ Planned(r.plan, d, row, quantity)[d].row = row
      /\ \A e \in Dishes \ {d} : Planned(r.plan, d, row, quantity)[e] = r.plan[e]
  BY <1>1 DEF Merging, Plans, Planned
<1> HIDE DEF q
<1>5. /\ requests'[s] = q(row, quantity)
      /\ \A t \in Sessions \ {s} : requests'[t] = requests[t]
  BY <1>2, OneSessionMoves DEF IInv, To
<1>6. UNCHANGED <<carts, lines, adds, cut>> /\ r.phase = "merging"
  BY <1>2 DEF MergeDish, To
<1>7. \A x : LinesOf(x)' = LinesOf(x) /\ \A e : ExistingLines(x, e)' = ExistingLines(x, e)
  BY <1>6 DEF LinesOf, ExistingLines
<1>8. LookupsHold'
  <2> SUFFICES ASSUME OneSession, NEW e \in Dishes,
                      requests'[s].plan[e] # NotYet, requests'[s].plan[e].row = 0
               PROVE  ExistingLines(requests'[s].cart, e) = {}
    BY <1>7 DEF LookupsHold, OneSession
  <2>1. CASE e = d
    BY <1>2, <1>3, <1>4, <1>5, <2>1
  <2>2. CASE e # d
    BY <1>3, <1>4, <1>5, <1>6, <2>2 DEF LinesInv, LookupsHold
  <2> QED
    BY <2>1, <2>2
<1>9. EmptyCartsAttended'
  BY <1>5, <1>6, <1>7 DEF LinesInv, EmptyCartsAttended, Attends
<1>10. RemovalsAgree' /\ OneLinePerDish'
  BY <1>3, <1>5, <1>6 DEF LinesInv, RemovalsAgree, OneLinePerDish
<1> QED
  BY <1>8, <1>9, <1>10 DEF LinesInv

\* A commit of addItems leaves a line in the cart it writes to, and no second line of
\* a dish if what it has read is still so.
LEMMA CommitAddKeepsLines ==
  ASSUME IInv, LinesInv, NEW s \in Sessions, CommitAdd(s)
  PROVE  LinesInv'
<1> DEFINE r == requests[s]
           new == {LineFor(r, d) : d \in ToWrite(r)}
<1>1. /\ r \in Merging /\ r.phase = "merging" /\ To(s, Idle)
      /\ \A d \in Dishes : r.asked[d] # 0 => d \in ToWrite(r)
  BY RequestShapes DEF IInv, CommitAdd
<1>2. CASE UNCHANGED <<carts, lines, adds>>
  <2>1. \A c : ~Attends(r, c)
    BY <1>1, Inattentive
  <2> QED
    BY <1>1, <1>2, <2>1, LinesQuietRequest DEF Idle
<1>3. CASE ~Refused(r) /\ WriteCart(r)
  <2> PICK c : c = CartFor(r)
    OBVIOUS
  <2>1. Grows(r, c)
    BY <1>3, WriteCartGrows
  <2>2. requests'[s] = Idle /\ \A t \in Sessions \ {s} : requests'[t] = requests[t]
    BY <1>1, OneSessionMoves DEF IInv, To
  <2>3. PICK d0 \in Dishes : d0 \in ToWrite(r)
    BY <1>1 DEF Merging, AddRequests
  <2>4. /\ DOMAIN lines' = DOMAIN lines \cup new
        /\ \A l \in new : lines'[l].cart = c
    BY <1>3 DEF WriteCart
  <2>5. /\ adds \in Nat
        /\ \A l \in DOMAIN lines : l[1] \in 1..adds /\ lines[l].cart \in 1..adds
    BY DEF IInv, IdsUsed, TablesConsistent, TypeOK, TablesTyped
  <2>6. ~cut' => ~cut
    BY <1>1 DEF To
  <2>7. EmptyCartsAttended'
    <3> SUFFICES ASSUME ~cut', NEW x \in DOMAIN carts', LinesOf(x)' = {}
                 PROVE  \E t \in Sessions : Attends(requests'[t], x)
      BY DEF EmptyCartsAttended, Attends
    <3>1. x # c
      BY <2>3, <2>4 DEF LinesOf
    <3>2. x \in DOMAIN carts /\ LinesOf(x) = {}
      BY <2>1, <3>1 DEF Grows, LinesOf
    <3>3. PICK t \in Sessions : Attends(requests[t], x)
      BY <2>6, <3>2 DEF LinesInv, EmptyCartsAttended
    <3>4. t # s
      BY <1>1, <3>3 DEF Attends
    <3> QED
      BY <2>2, <3>3, <3>4
  <2>8. RemovalsAgree'
    <3> SUFFICES ASSUME NEW t \in Sessions, requests'[t].phase = "removing"
                 PROVE  /\ requests[t].line[1] \in 1..adds'
                        /\ requests[t].line \in DOMAIN lines' =>
                             lines'[requests[t].line].cart = requests[t].cart
      BY <2>2 DEF RemovalsAgree, Idle
    <3>1. requests[t].phase = "removing"
      BY <2>2 DEF Idle
    <3>2. /\ requests[t].line[1] \in 1..adds
          /\ requests[t].line \in DOMAIN lines =>
               lines[requests[t].line].cart = requests[t].cart
      BY <3>1 DEF LinesInv, RemovalsAgree
    <3> QED
      BY <2>1, <2>5, <3>2 DEF Grows
  <2>9. LookupsHold'
    BY <2>2 DEF LookupsHold, OneSession, Idle
  <2>10. OneLinePerDish'
    <3> SUFFICES ASSUME OneSession, NEW l \in DOMAIN lines', NEW m \in DOMAIN lines',
                        lines'[l].cart = lines'[m].cart, DishOf(l) = DishOf(m)
                 PROVE  l = m
      BY DEF OneLinePerDish
    <3>1. ASSUME NEW x \in new, NEW y \in new, DishOf(x) = DishOf(y)
          PROVE  x = y
      BY <3>1 DEF LineFor, DishOf
    <3>2. ASSUME NEW x \in new \ DOMAIN lines, NEW y \in DOMAIN lines, lines[y].cart = c
          PROVE  DishOf(x) # DishOf(y)
      <4>1. PICK d \in ToWrite(r) : x = LineFor(r, d)
        OBVIOUS
      <4>2. d \in Dishes /\ r.plan[d] # NotYet /\ DishOf(x) = d
        BY <4>1 DEF ToWrite, LineFor, DishOf
      <4>3. r.plan[d].row = 0
        BY <1>3, <4>1 DEF Refused
      <4>4. ExistingLines(r.cart, d) = {}
        BY <1>1, <4>2, <4>3 DEF LinesInv, LookupsHold
      <4>5. c = r.cart
        BY <2>5, <3>2 DEF CartFor
      <4> QED
        BY <3>2, <4>2, <4>4, <4>5 DEF ExistingLines, LinesOf
    <3>3. /\ \A x \in DOMAIN lines : lines'[x].cart = lines[x].cart
          /\ \A x \in DOMAIN lines' \ DOMAIN lines : x \in new
      BY <2>1, <2>4 DEF Grows
    <3> HIDE DEF new
    <3>4. CASE l \in DOMAIN lines /\ m \in DOMAIN lines
      BY <3>3, <3>4 DEF LinesInv, OneLinePerDish
    <3>5. CASE l \notin DOMAIN lines /\ m \notin DOMAIN lines
      BY <3>1, <3>3, <3>5
    <3>6. CASE l \in DOMAIN lines /\ m \notin DOMAIN lines
      BY <2>4, <3>2, <3>3, <3>6
    <3>7. CASE l \notin DOMAIN lines /\ m \in DOMAIN lines
      BY <2>4, <3>2, <3>3, <3>7
    <3> QED
      BY <3>4, <3>5, <3>6, <3>7
  <2> QED
    BY <2>7, <2>8, <2>9, <2>10 DEF LinesInv
<1> QED
  BY <1>2, <1>3 DEF CommitAdd

\* LinesInv holds initially and every step keeps it.
THEOREM LinesInvariant == Spec => []LinesInv
<1>1. Init => LinesInv
  <2> SUFFICES ASSUME Init
               PROVE  LinesInv
    OBVIOUS
  <2>1. DOMAIN carts = {} /\ DOMAIN lines = {} /\ \A s \in Sessions : requests[s].phase = "idle"
    BY DEF Init, BasketInit, Idle
  <2> QED
    BY <2>1 DEF LinesInv, EmptyCartsAttended, RemovalsAgree, LookupsHold, OneLinePerDish
<1>2. IInv /\ LinesInv /\ [Next]_vars => LinesInv'
  <2> SUFFICES ASSUME IInv, LinesInv, [Next]_vars
               PROVE  LinesInv'
    OBVIOUS
  <2>1. CASE BasketNext
    BY <2>1, ReadersKeepLines, UpsertCartKeepsLines, MergeDishKeepsLines,
       CommitAddKeepsLines, WriteQuantityKeepsLines, DeleteLineKeepsLines,
       CountRemainingKeepsLines, DeleteCartKeepsLines, DeleteLinesKeepsLines,
       FailKeepsLines, SurroundingsKeepLines
    DEF BasketNext, UpdateDish
  <2>2. CASE CheckoutNext
    BY <2>2, ReadersKeepLines, CreateFromCartKeepsLines, SurroundingsKeepLines
    DEF CheckoutNext, CookTurns
  <2>3. CASE UNCHANGED vars
    BY <2>3, SurroundingsKeepLines DEF vars
  <2> QED
    BY <2>1, <2>2, <2>3 DEF Next
<1> QED
  BY <1>1, <1>2, InductiveInvariant, PTL DEF Spec

\* As long as no request is cut short, all requests together leave no empty cart: the
\* last to remove or clear lines finds that nothing remains, and deletes the cart.
THEOREM NoEmptyCartIsLeft == Spec => []NoEmptyCartLeft
<1>1. LinesInv => NoEmptyCartLeft
  BY DEF LinesInv, EmptyCartsAttended, NoEmptyCartLeft, Attends, Idle
<1> QED
  BY <1>1, LinesInvariant, PTL

\* When requests do not overlap, addItems finds every unit of a dish in the one line
\* the cart has of it.
THEOREM CartHasOneLinePerDish == Spec => []OneLinePerDish
<1>1. LinesInv => OneLinePerDish
  BY DEF LinesInv
<1> QED
  BY <1>1, LinesInvariant, PTL

-----------------------------------------------------------------------------
(* Units in baskets and orders                                               *)

Quantities(table, ls) == [l \in ls |-> table[l].quantity]

OrderedQuantities(xs) == [x \in xs |-> x[2].quantity]

LEMMA UnitsOfIsTotal ==
  ASSUME NEW table, NEW ls, IsFiniteSet(ls)
  PROVE  IsTotal(UnitsOf(table, ls), Quantities(table, ls), ls)
<1> DEFINE F(h) == [s \in SUBSET ls |->
                      IF s = {} THEN 0
                      ELSE LET x == CHOOSE x \in s : TRUE
                           IN  table[x].quantity + h[s \ {x}]]
           iter == CHOOSE h : h = F(h)
<1>1. ASSUME NEW h PROVE SumsOver(h, Quantities(table, ls), SUBSET ls) <=> h = F(h)
  BY SomeIsMember DEF SumsOver, Quantities, Some
<1>2. PICK g : SumsOver(g, Quantities(table, ls), SUBSET ls)
  BY SumsExist
<1>3. iter = F(iter)
  <2> HIDE DEF F
  <2> QED
    BY <1>1, <1>2
<1>4. UnitsOf(table, ls) = iter[ls]
  BY DEF UnitsOf, MapThenSumSet, MapThenFoldSet
<1> QED
  BY <1>1, <1>3, <1>4 DEF IsTotal

LEMMA UnitsOrderedIsTotal ==
  ASSUME NEW xs, IsFiniteSet(xs)
  PROVE  IsTotal(UnitsOrdered(xs), OrderedQuantities(xs), xs)
<1> DEFINE F(h) == [s \in SUBSET xs |->
                      IF s = {} THEN 0
                      ELSE LET x == CHOOSE x \in s : TRUE
                           IN  x[2].quantity + h[s \ {x}]]
           iter == CHOOSE h : h = F(h)
<1>1. ASSUME NEW h PROVE SumsOver(h, OrderedQuantities(xs), SUBSET xs) <=> h = F(h)
  BY SomeIsMember DEF SumsOver, OrderedQuantities, Some
<1>2. PICK g : SumsOver(g, OrderedQuantities(xs), SUBSET xs)
  BY SumsExist
<1>3. iter = F(iter)
  <2> HIDE DEF F
  <2> QED
    BY <1>1, <1>2
<1>4. UnitsOrdered(xs) = iter[xs]
  BY DEF UnitsOrdered, MapThenSumSet, MapThenFoldSet
<1> QED
  BY <1>1, <1>3, <1>4 DEF IsTotal

\* No line holds no unit, and one line holds its quantity.
LEMMA UnitsOfNothing ==
  ASSUME NEW table
  PROVE  UnitsOf(table, {}) = 0
BY FS_EmptySet, UnitsOfIsTotal, TotalOfNothing

LEMMA UnitsOfOneLine ==
  ASSUME NEW table, NEW l, table[l].quantity \in Nat
  PROVE  UnitsOf(table, {l}) = table[l].quantity
<1> DEFINE ls == {} \cup {l}
           w == Quantities(table, ls)
           v == Quantities(table, {})
<1>1. IsFiniteSet({}) /\ IsFiniteSet(ls) /\ ls = {l}
  BY FS_EmptySet, FS_Singleton
<1>2. w \in [ls -> Nat] /\ w[l] = table[l].quantity /\ SameOn(v, w, {}) /\ l \notin {}
  BY DEF Quantities, SameOn
<1>3. IsTotal(UnitsOf(table, {}), v, {}) /\ IsTotal(UnitsOf(table, ls), w, ls)
  BY <1>1, UnitsOfIsTotal
<1> HIDE DEF w, v
<1>4. UnitsOf(table, ls) = UnitsOf(table, {}) + w[l]
  BY <1>1, <1>2, <1>3, TotalOfOneMore
<1> QED
  BY <1>1, <1>2, <1>4, UnitsOfNothing

LEMMA UnitsOrderedNothing == UnitsOrdered({}) = 0
BY FS_EmptySet, UnitsOrderedIsTotal, TotalOfNothing

\* One more item adds its quantity.
LEMMA OneMoreOrdered ==
  ASSUME NEW xs, IsFiniteSet(xs), NEW y, y \notin xs,
         \A x \in xs \cup {y} : x[2].quantity \in Nat
  PROVE  UnitsOrdered(xs \cup {y}) = UnitsOrdered(xs) + y[2].quantity
<1> DEFINE ys == xs \cup {y}
           w == OrderedQuantities(ys)
           v == OrderedQuantities(xs)
<1>1. IsFiniteSet(ys)
  BY FS_AddElement
<1>2. w \in [ys -> Nat] /\ w[y] = y[2].quantity /\ SameOn(v, w, xs)
  BY DEF OrderedQuantities, SameOn
<1>3. IsTotal(UnitsOrdered(xs), v, xs) /\ IsTotal(UnitsOrdered(ys), w, ys)
  BY <1>1, UnitsOrderedIsTotal
<1> HIDE DEF w, v
<1>4. UnitsOrdered(ys) = UnitsOrdered(xs) + w[y]
  BY <1>2, <1>3, TotalOfOneMore
<1> QED
  BY <1>2, <1>4

-----------------------------------------------------------------------------
(* What requests have read, with one session *)

LEMMA ReadsOfStep ==
  ASSUME NEW s \in Sessions,
         requests'[s].phase \in {"adding", "merging"} => AsksFor(requests[s])',
         requests'[s].phase = "resolved" => HoldsCart(requests[s])'
  PROVE  ReadsHold'
BY DEF ReadsHold, OneSession

\* A request that takes no note of carts and dishes.
LEMMA ReadsNothing ==
  ASSUME TypeOK, NEW s \in Sessions, NEW q, Moves(s, q),
         q.phase \notin {"adding", "merging", "resolved"}
  PROVE  ReadsHold'
<1>1. requests'[s] = q
  BY OneSessionMoves
<1> QED
  BY <1>1, ReadsOfStep

LEMMA BasketStepsKeepReads ==
  ASSUME TypeOK, NEW s \in Sessions,
         \/ \E u \in Users, l \in DOMAIN lines, quantity \in 1..MaxMerged :
               UpdateItemQuantity(s, u, l, quantity)
         \/ \E u \in Users, l \in DOMAIN lines : RemoveItem(s, u, l)
         \/ \E u \in Users : ClearCart(s, u)
         \/ CommitAdd(s) \/ WriteQuantity(s) \/ DeleteLine(s) \/ CountRemaining(s)
         \/ DeleteCart(s) \/ DeleteLines(s) \/ Fail(s) \/ CreateFromCart(s)
  PROVE  ReadsHold'
<1>1. ASSUME NEW l, NEW quantity, To(s, [phase |-> "updating", line |-> l, quantity |-> quantity])
      PROVE  ReadsHold'
  BY <1>1, ReadsNothing DEF To
<1>2. ASSUME NEW l, NEW c, To(s, [phase |-> "removing", line |-> l, cart |-> c])
      PROVE  ReadsHold'
  BY <1>2, ReadsNothing DEF To
<1>3. ASSUME NEW c, NEW phase \in {"removed", "clearing", "emptied"},
             To(s, [phase |-> phase, cart |-> c])
      PROVE  ReadsHold'
  BY <1>3, ReadsNothing DEF To
<1>4. ASSUME Moves(s, Idle)
      PROVE  ReadsHold'
  BY <1>4, ReadsNothing DEF Idle
<1>5. CASE \E u \in Users, l \in DOMAIN lines, quantity \in 1..MaxMerged :
              UpdateItemQuantity(s, u, l, quantity)
  BY <1>1, <1>5 DEF UpdateItemQuantity
<1>6. CASE \E u \in Users, l \in DOMAIN lines : RemoveItem(s, u, l)
  BY <1>2, <1>6 DEF RemoveItem
<1>7. CASE \/ \E u \in Users : ClearCart(s, u)
           \/ DeleteLine(s) \/ CountRemaining(s) \/ DeleteLines(s)
  BY <1>3, <1>4, <1>7 DEF ClearCart, DeleteLine, CountRemaining, DeleteLines, To
<1>8. CASE CommitAdd(s) \/ WriteQuantity(s) \/ DeleteCart(s) \/ Fail(s) \/ CreateFromCart(s)
  BY <1>4, <1>8 DEF CommitAdd, WriteQuantity, DeleteCart, Fail, CreateFromCart, To
<1> QED
  BY <1>5, <1>6, <1>7, <1>8

LEMMA AddItemsKeepsReads ==
  ASSUME TypeOK, NEW s \in Sessions, NEW u \in Users, NEW asked \in AddRequests,
         AddItems(s, u, asked)
  PROVE  ReadsHold'
<1>1. requests'[s] = [phase |-> "adding", user |-> u, asked |-> asked]
  BY OneSessionMoves DEF AddItems, To
<1>2. \A d \in Dishes : asked[d] <= MaxMerged
  BY DEF AddItems, AddRequests
<1>3. AsksFor(requests[s])'
  BY <1>1, <1>2 DEF AsksFor
<1> QED
  BY <1>1, <1>3, ReadsOfStep

LEMMA UpsertCartKeepsReads ==
  ASSUME TypeOK, ReadsHold, OneSession, NEW s \in Sessions, UpsertCart(s)
  PROVE  ReadsHold'
<1> DEFINE r == requests[s]
           q(c) == [phase |-> "merging", user |-> r.user, cart |-> c, asked |-> r.asked,
                    plan |-> [d \in Dishes |-> NotYet]]
<1>1. PICK c : To(s, q(c))
  BY DEF UpsertCart
<1>2. requests'[s] = q(c)
  BY <1>1, OneSessionMoves DEF To
<1>3. \A d \in Dishes : r.asked[d] <= MaxMerged
  BY DEF UpsertCart, ReadsHold, AsksFor
<1>4. AsksFor(requests[s])'
  BY <1>2, <1>3 DEF AsksFor
<1> QED
  BY <1>2, <1>4, ReadsOfStep

LEMMA MergeDishKeepsReads ==
  ASSUME TypeOK, ReadsHold, OneSession, NEW s \in Sessions, NEW d \in Dishes, MergeDish(s, d)
  PROVE  ReadsHold'
<1> DEFINE r == requests[s]
           q(row, quantity) == [r EXCEPT !.plan = Planned(@, d, row, quantity)]
<1>1. r \in Merging /\ r.phase = "merging" /\ r.asked[d] # 0 /\ UNCHANGED lines
  BY RequestShapes DEF MergeDish
<1>2. PICK row, quantity :
        /\ To(s, q(row, quantity))
        /\ row = 0 => quantity = r.asked[d]
        /\ row # 0 => quantity = lines[<<row, d>>].quantity + r.asked[d]
  <2>1. CASE To(s, q(0, r.asked[d]))
    BY <2>1
  <2>2. ASSUME NEW l \in ExistingLines(r.cart, d),
               To(s, q(l[1], MergedQuantity(lines[l].quantity, r.asked[d])))
        PROVE  \E row, quantity :
                  /\ To(s, q(row, quantity))
                  /\ row = 0 => quantity = r.asked[d]
                  /\ row # 0 => quantity = lines[<<row, d>>].quantity + r.asked[d]
    <3>1. l = <<l[1], d>> /\ l[1] # 0
      BY DEF ExistingLines, LinesOf, DishOf, TypeOK, TablesTyped, LineIds, CartIds
    <3> HIDE DEF q
    <3> QED
      BY <2>2, <3>1 DEF MergedQuantity
  <2> QED
    BY <2>1, <2>2 DEF MergeDish
<1>3. /\ q(row, quantity).phase = "merging" /\ q(row, quantity).asked = r.asked
      /\ q(row, quantity).plan = Planned(r.plan, d, row, quantity)
  BY <1>1 DEF Merging
<1>4. /\ Planned(r.plan, d, row, quantity)[d].row = row
      /\ Planned(r.plan, d, row, quantity)[d].quantity = quantity
      /\ \A e \in Dishes \ {d} : Planned(r.plan, d, row, quantity)[e] = r.plan[e]
  BY <1>1 DEF Merging, Plans, Planned
<1> HIDE DEF q
<1>5. requests'[s] = q(row, quantity)
  BY <1>2, OneSessionMoves DEF To
<1>6. AsksFor(r)
  BY <1>1 DEF ReadsHold
<1>7. AsksFor(requests[s])'
  <2> SUFFICES ASSUME NEW e \in Dishes
               PROVE  LET p == Planned(r.plan, d, row, quantity)[e]
                      IN  /\ r.asked[e] <= MaxMerged
                          /\ p # NotYet =>
                               /\ r.asked[e] # 0
                               /\ p.row = 0 => p.quantity = r.asked[e]
                               /\ p.row # 0 =>
                                    p.quantity = lines[<<p.row, e>>].quantity + r.asked[e]
    BY <1>1, <1>3, <1>5 DEF AsksFor
  <2>1. CASE e = d
    BY <1>1, <1>2, <1>4, <1>6, <2>1 DEF AsksFor
  <2>2. CASE e # d
    BY <1>1, <1>4, <1>6, <2>2 DEF AsksFor
  <2> QED
    BY <2>1, <2>2
<1> QED
  BY <1>3, <1>5, <1>7, ReadsOfStep

LEMMA ResolveKeepsReads ==
  ASSUME TypeOK, NEW s \in Sessions, NEW u \in Users, ResolveCheckoutGroups(s, u)
  PROVE  ReadsHold'
<1> DEFINE q(c) == [phase |-> "resolved", user |-> u, cart |-> c, items |-> ItemsOf(c),
                    unchecked |-> {CookOf[DishOf(l)] : l \in LinesOf(c)}]
<1>1. PICK c \in CartsOf(u) : To(s, q(c)) /\ LinesOf(c) # {}
  BY DEF ResolveCheckoutGroups
<1>2. requests'[s] = q(c) /\ UNCHANGED <<carts, lines>>
  BY <1>1, OneSessionMoves DEF To, ResolveCheckoutGroups
<1>3. ItemsOf(c)' = ItemsOf(c) /\ ItemsOf(c) # {} /\ c \in DOMAIN carts /\ carts[c] = u
  BY <1>1, <1>2 DEF ItemsOf, LinesOf, CartsOf
<1>4. /\ q(c).phase = "resolved" /\ q(c).user = u /\ q(c).cart = c
      /\ q(c).items = ItemsOf(c)
  OBVIOUS
<1> HIDE DEF q
<1>5. HoldsCart(requests[s])'
  BY <1>2, <1>3, <1>4 DEF HoldsCart, ItemsOf, LinesOf
<1> QED
  BY <1>2, <1>4, <1>5, ReadsOfStep

LEMMA CheckCookKeepsReads ==
  ASSUME TypeOK, ReadsHold, OneSession, NEW s \in Sessions, NEW c \in Cooks, CheckCook(s, c)
  PROVE  ReadsHold'
<1> DEFINE r == requests[s]
           q == [r EXCEPT !.unchecked = @ \ {c}]
<1>1. r \in CheckoutRequest /\ r.phase = "resolved" /\ UNCHANGED <<carts, lines>>
  BY RequestShapes DEF CheckCook
<1>2. /\ q.phase = "resolved" /\ q.user = r.user /\ q.cart = r.cart /\ q.items = r.items
  BY <1>1 DEF CheckoutRequest
<1>3. To(s, q) \/ To(s, Idle)
  BY DEF CheckCook
<1> HIDE DEF q
<1>4. CASE To(s, Idle)
  BY <1>4, ReadsNothing DEF To, Idle
<1>5. CASE To(s, q)
  <2>1. requests'[s] = q
    BY <1>5, OneSessionMoves DEF To
  <2>2. HoldsCart(r)
    BY <1>1 DEF ReadsHold
  <2>3. HoldsCart(requests[s])'
    BY <1>1, <1>2, <2>1, <2>2 DEF HoldsCart, ItemsOf, LinesOf
  <2> QED
    BY <1>2, <2>1, <2>3, ReadsOfStep
<1> QED
  BY <1>3, <1>4, <1>5

LEMMA SurroundingsKeepReads ==
  ASSUME ReadsHold, UNCHANGED <<carts, lines, requests>>
  PROVE  ReadsHold'
<1>1. ASSUME NEW s \in Sessions
      PROVE  /\ AsksFor(requests[s]) => AsksFor(requests[s])'
             /\ HoldsCart(requests[s]) => HoldsCart(requests[s])'
  BY DEF AsksFor, HoldsCart, ItemsOf, LinesOf
<1> QED
  BY <1>1 DEF ReadsHold

\* With one session, what a request has read is still so when it writes.
THEOREM ReadsInvariant == Spec => []ReadsHold
<1>1. Init => ReadsHold
  BY DEF Init, BasketInit, Idle, ReadsHold
<1>2. TypeOK /\ ReadsHold /\ [Next]_vars => ReadsHold'
  <2> SUFFICES ASSUME TypeOK, ReadsHold, OneSession, [Next]_vars
               PROVE  ReadsHold'
    BY DEF ReadsHold, OneSession
  <2>1. CASE BasketNext
    BY <2>1, BasketStepsKeepReads, AddItemsKeepsReads, UpsertCartKeepsReads,
       MergeDishKeepsReads, SurroundingsKeepReads
    DEF BasketNext, UpdateDish
  <2>2. CASE CheckoutNext
    BY <2>2, BasketStepsKeepReads, ResolveKeepsReads, CheckCookKeepsReads,
       SurroundingsKeepReads
    DEF CheckoutNext, CookTurns
  <2>3. CASE UNCHANGED vars
    BY <2>3, SurroundingsKeepReads DEF vars
  <2> QED
    BY <2>1, <2>2, <2>3 DEF Next
<1> QED
  BY <1>1, <1>2, TypeCorrectness, PTL DEF Spec

-----------------------------------------------------------------------------
(* Every behaviour of carts, lines and orders is one of Basket *)

\* A customer has at most one line of a dish, whose quantity is what the basket holds.
LEMMA HeldIsOne ==
  IInv /\ LinesInv /\ OneSession =>
    \A u \in Users : \A d : \A l, m \in HeldLines(u, d) : l = m
BY DEF IInv, LinesInv, TablesConsistent, OneLinePerDish, HeldLines

LEMMA HeldUnits ==
  IInv /\ LinesInv /\ OneSession =>
    \A u \in Users : \A d :
      /\ HeldLines(u, d) = {} => InBasket(u, d) = 0
      /\ \A l \in HeldLines(u, d) :
            /\ HeldLines(u, d) = {l}
            /\ lines[l].quantity \in Nat \ {0}
            /\ InBasket(u, d) = lines[l].quantity
<1> SUFFICES ASSUME IInv, LinesInv, OneSession, NEW u \in Users, NEW d
             PROVE  /\ HeldLines(u, d) = {} => InBasket(u, d) = 0
                    /\ \A l \in HeldLines(u, d) :
                          /\ HeldLines(u, d) = {l}
                          /\ lines[l].quantity \in Nat \ {0}
                          /\ InBasket(u, d) = lines[l].quantity
  OBVIOUS
<1>1. HeldLines(u, d) = {} => InBasket(u, d) = 0
  BY UnitsOfNothing DEF InBasket
<1>2. ASSUME NEW l \in HeldLines(u, d)
      PROVE  /\ HeldLines(u, d) = {l}
             /\ lines[l].quantity \in Nat \ {0}
             /\ InBasket(u, d) = lines[l].quantity
  <2>1. HeldLines(u, d) = {l}
    BY HeldIsOne
  <2>2. lines[l].quantity \in Nat \ {0}
    BY DEF HeldLines, IInv, TypeOK, TablesTyped, Line
  <2> QED
    BY <2>1, <2>2, UnitsOfOneLine DEF InBasket
<1> QED
  BY <1>1, <1>2

LEMMA HeldUnitsAfter ==
  ASSUME IInv', LinesInv', OneSession
  PROVE  \A u \in Users : \A d :
           /\ HeldLines(u, d)' = {} => InBasket(u, d)' = 0
           /\ \A l \in HeldLines(u, d)' :
                 /\ HeldLines(u, d)' = {l}
                 /\ InBasket(u, d)' = lines'[l].quantity
<1>1. (IInv /\ LinesInv /\ OneSession)' =>
        (\A u \in Users : \A d :
           /\ HeldLines(u, d) = {} => InBasket(u, d) = 0
           /\ \A l \in HeldLines(u, d) :
                 /\ HeldLines(u, d) = {l}
                 /\ lines[l].quantity \in Nat \ {0}
                 /\ InBasket(u, d) = lines[l].quantity)'
  BY HeldUnits, PTL
<1> QED
  BY <1>1

\* All that the steps below start from.
Serial == IInv /\ LinesInv /\ ReadsHold /\ OneSession

\* Lines that stay where they are hold the same units.
LEMMA SameUnits ==
  ASSUME Serial, NEW u \in Users, NEW d, HeldLines(u, d)' = HeldLines(u, d),
         \A l \in HeldLines(u, d) : lines'[l].quantity = lines[l].quantity
  PROVE  InBasket(u, d)' = InBasket(u, d)
<1>1. CASE HeldLines(u, d) = {}
  BY <1>1, UnitsOfNothing DEF InBasket
<1>2. ASSUME NEW l \in HeldLines(u, d)
      PROVE  InBasket(u, d)' = InBasket(u, d)
  <2>1. /\ HeldLines(u, d)' = {l} /\ InBasket(u, d) = lines[l].quantity
        /\ lines'[l].quantity = lines[l].quantity /\ lines'[l].quantity \in Nat
    BY HeldUnits DEF Serial
  <2> QED
    BY <2>1, UnitsOfOneLine DEF InBasket
<1> QED
  BY <1>1, <1>2

LEMMA SameOrders ==
  ASSUME orders' = orders
  PROVE  AllOrdered' = AllOrdered
BY DEF AllOrdered, Ordered, OrderedItems

\* A step after which all baskets hold what they held.
LEMMA SameBaskets ==
  ASSUME orders' = orders, \A u \in Users, d \in Dishes : InBasket(u, d)' = InBasket(u, d)
  PROVE  UNCHANGED BasketView!vars
BY SameOrders DEF Baskets, BasketView!vars

LEMMA SameRows ==
  ASSUME UNCHANGED <<carts, lines, orders>>
  PROVE  UNCHANGED BasketView!vars
BY SameBaskets DEF InBasket, HeldLines

\* What one customer's basket, and orders, become.
LEMMA BasketsAfter ==
  ASSUME NEW u \in Users, NEW units, units = [d \in Dishes |-> units[d]],
         \A d \in Dishes : InBasket(u, d)' = units[d],
         \A v \in Users \ {u}, d \in Dishes : InBasket(v, d)' = InBasket(v, d)
  PROVE  Baskets' = [Baskets EXCEPT ![u] = units]
<1> DEFINE after == [v \in Users |-> [d \in Dishes |-> InBasket(v, d)']]
<1>1. after[u] = units
  <2>1. after[u] = [d \in Dishes |-> InBasket(u, d)']
    OBVIOUS
  <2>2. after[u] = [d \in Dishes |-> units[d]]
    BY <2>1, Zenon
  <2> QED
    BY <2>2
<1>2. ASSUME NEW v \in Users \ {u}
      PROVE  after[v] = Baskets[v]
  BY DEF Baskets
<1>3. Baskets' = after
  BY DEF Baskets
<1>4. after = [v \in Users |-> after[v]] /\ Baskets = [v \in Users |-> Baskets[v]]
  BY DEF Baskets
<1> HIDE DEF after
<1> QED
  BY <1>1, <1>2, <1>3, <1>4

LEMMA OrderedAfter ==
  ASSUME NEW u \in Users, NEW units, units = [d \in Dishes |-> units[d]],
         \A d \in Dishes : Ordered(u, d)' = units[d],
         \A v \in Users \ {u}, d \in Dishes : Ordered(v, d)' = Ordered(v, d)
  PROVE  AllOrdered' = [AllOrdered EXCEPT ![u] = units]
<1> DEFINE after == [v \in Users |-> [d \in Dishes |-> Ordered(v, d)']]
<1>1. after[u] = units
  <2>1. after[u] = [d \in Dishes |-> Ordered(u, d)']
    OBVIOUS
  <2>2. after[u] = [d \in Dishes |-> units[d]]
    BY <2>1, Zenon
  <2> QED
    BY <2>2
<1>2. ASSUME NEW v \in Users \ {u}
      PROVE  after[v] = AllOrdered[v]
  BY DEF AllOrdered
<1>3. AllOrdered' = after
  BY DEF AllOrdered
<1>4. after = [v \in Users |-> after[v]] /\ AllOrdered = [v \in Users |-> AllOrdered[v]]
  BY DEF AllOrdered
<1> HIDE DEF after
<1> QED
  BY <1>1, <1>2, <1>3, <1>4

\* A step after which the basket of one customer holds other units.
LEMMA PutUnits ==
  ASSUME orders' = orders, NEW u \in Users, NEW units, units = [d \in Dishes |-> units[d]],
         \A d \in Dishes : InBasket(u, d)' = units[d],
         \A v \in Users \ {u}, d \in Dishes : InBasket(v, d)' = InBasket(v, d)
  PROVE  BasketView!Put(u, units)
<1>1. Baskets' = [Baskets EXCEPT ![u] = units]
  BY BasketsAfter
<1> QED
  BY <1>1, SameOrders DEF BasketView!Put

\* A step that leaves n of one dish in the basket of one customer.
LEMMA ChangesUnits ==
  ASSUME orders' = orders, NEW u \in Users, NEW d \in Dishes, NEW n \in 0..MaxMerged,
         InBasket(u, d) \in Nat \ {0}, InBasket(u, d)' = n,
         \A v \in Users, e \in Dishes :
           <<v, e>> # <<u, d>> => InBasket(v, e)' = InBasket(v, e)
  PROVE  BasketView!Next
<1> PICK units : units = [Baskets[u] EXCEPT ![d] = n]
  OBVIOUS
<1>1. units = [e \in Dishes |-> units[e]] /\ \A e \in Dishes : InBasket(u, e)' = units[e]
  BY DEF Baskets
<1>2. BasketView!Put(u, units)
  BY <1>1, PutUnits
<1>3. BasketView!Change(u, d, n)
  BY <1>2 DEF BasketView!Change, Baskets
<1> QED
  BY <1>3 DEF BasketView!Next

LEMMA WriteQuantityIsChange ==
  ASSUME Serial, IInv', LinesInv', NEW s \in Sessions, WriteQuantity(s),
         UNCHANGED <<activeCooks, checkouts, orders>>
  PROVE  BasketView!Next \/ UNCHANGED BasketView!vars
<1> DEFINE r == requests[s]
           k == r.line
<1>1. /\ carts' = carts
      /\ lines' = [l \in DOMAIN lines |->
                     IF l = k THEN [lines[l] EXCEPT !.quantity = r.quantity] ELSE lines[l]]
      /\ r.quantity \in 1..MaxMerged /\ k \in LineIds
  BY RequestShapes DEF WriteQuantity, Serial, IInv
<1>2. CASE k \notin DOMAIN lines
  <2>1. lines' = lines
    BY <1>1, <1>2 DEF Serial, IInv, TypeOK, TablesTyped
  <2> QED
    BY <1>1, <2>1, SameRows
<1>3. CASE k \in DOMAIN lines
  <2> PICK u \in Users, d \in Dishes, n \in 1..MaxMerged :
        u = carts[lines[k].cart] /\ d = DishOf(k) /\ n = r.quantity
    BY <1>1, <1>3 DEF Serial, IInv, TypeOK, TablesTyped, TablesConsistent, LineIds, DishOf
  <2>1. /\ DOMAIN lines' = DOMAIN lines
        /\ \A l \in DOMAIN lines : lines'[l].cart = lines[l].cart
        /\ \A l \in DOMAIN lines \ {k} : lines'[l] = lines[l]
        /\ lines'[k].quantity = n
    BY <1>1, <1>3 DEF Serial, IInv, TypeOK, TablesTyped, Line
  <2>2. \A v, e : HeldLines(v, e)' = HeldLines(v, e)
    BY <1>1, <2>1 DEF HeldLines
  <2>3. k \in HeldLines(u, d) /\ k \in HeldLines(u, d)'
    BY <1>3, <2>2 DEF HeldLines
  <2>4. InBasket(u, d) \in Nat \ {0} /\ InBasket(u, d)' = n
    BY <2>1, <2>3, HeldUnits, HeldUnitsAfter DEF Serial
  <2>5. ASSUME NEW v \in Users, NEW e \in Dishes, <<v, e>> # <<u, d>>
        PROVE  InBasket(v, e)' = InBasket(v, e)
    <3>1. \A l \in HeldLines(v, e) : l \in DOMAIN lines \ {k}
      BY <2>5 DEF HeldLines
    <3> QED
      BY <2>1, <2>2, <3>1, SameUnits
  <2> QED
    BY <2>4, <2>5, ChangesUnits
<1> QED
  BY <1>2, <1>3

LEMMA DeleteLineIsChange ==
  ASSUME Serial, IInv', LinesInv', NEW s \in Sessions, DeleteLine(s),
         UNCHANGED <<activeCooks, checkouts, orders>>
  PROVE  BasketView!Next \/ UNCHANGED BasketView!vars
<1> DEFINE k == requests[s].line
<1>1. carts' = carts /\ k \in LineIds
  BY RequestShapes DEF DeleteLine, Serial, IInv
<1>2. CASE k \notin DOMAIN lines
  BY <1>1, <1>2, SameRows DEF DeleteLine
<1>3. CASE k \in DOMAIN lines
  <2> PICK u \in Users, d \in Dishes : u = carts[lines[k].cart] /\ d = DishOf(k)
    BY <1>1, <1>3 DEF Serial, IInv, TypeOK, TablesTyped, TablesConsistent, LineIds, DishOf
  <2>1. /\ DOMAIN lines' = DOMAIN lines \ {k}
        /\ \A l \in DOMAIN lines \ {k} : lines'[l] = lines[l]
    BY <1>3 DEF DeleteLine, Without
  <2>2. \A v, e : HeldLines(v, e)' = HeldLines(v, e) \ {k}
    BY <1>1, <2>1 DEF HeldLines
  <2>3. HeldLines(u, d) = {k} /\ InBasket(u, d) \in Nat \ {0}
    <3>1. k \in HeldLines(u, d)
      BY <1>3 DEF HeldLines
    <3> QED
      BY <3>1, HeldUnits DEF Serial
  <2>4. InBasket(u, d)' = 0
    BY <2>2, <2>3, HeldUnitsAfter DEF Serial
  <2>5. ASSUME NEW v \in Users, NEW e \in Dishes, <<v, e>> # <<u, d>>
        PROVE  InBasket(v, e)' = InBasket(v, e)
    <3>1. \A l \in HeldLines(v, e) : l \in DOMAIN lines \ {k}
      BY <2>5 DEF HeldLines
    <3> QED
      BY <2>1, <2>2, <3>1, SameUnits
  <2>6. 0 \in 0..MaxMerged
    OBVIOUS
  <2> QED
    BY <2>3, <2>4, <2>5, <2>6, ChangesUnits
<1> QED
  BY <1>2, <1>3

\* Only a cart without lines is deleted, which changes no basket.
LEMMA DeleteCartStutters ==
  ASSUME Serial, NEW s \in Sessions, DeleteCart(s),
         UNCHANGED <<activeCooks, checkouts, orders>>
  PROVE  UNCHANGED BasketView!vars
<1> DEFINE c == requests[s].cart
<1>1. lines' = lines
  BY DEF DeleteCart
<1>2. CASE CanDeleteCart(c)
  <2>1. carts' = Without(carts, {c}) /\ LinesOf(c) = {}
    BY <1>2 DEF DeleteCart, CanDeleteCart
  <2>2. \A l \in DOMAIN lines : lines[l].cart \in DOMAIN carts \ {c}
    BY <2>1 DEF LinesOf, Serial, IInv, TablesConsistent
  <2>3. \A l \in DOMAIN lines : carts'[lines[l].cart] = carts[lines[l].cart]
    BY <2>1, <2>2 DEF Without
  <2>4. \A u, d : HeldLines(u, d)' = HeldLines(u, d)
    BY <1>1, <2>3 DEF HeldLines
  <2> QED
    BY <1>1, <2>4, SameBaskets DEF InBasket
<1>3. CASE ~CanDeleteCart(c)
  <2>1. carts' = carts
    BY <1>3 DEF DeleteCart
  <2> QED
    BY <1>1, <2>1, SameRows
<1> QED
  BY <1>2, <1>3

\* All lines of a customer are in the customer's one cart: without the lines of that
\* cart, the basket is empty and the others are as they were.
LEMMA CartEmptied ==
  ASSUME Serial, NEW c \in DOMAIN carts, lines' = Without(lines, LinesOf(c)),
         carts' = carts \/ carts' = Without(carts, {c}),
         NEW u \in Users, u = carts[c]
  PROVE  /\ \A d \in Dishes : InBasket(u, d)' = 0
         /\ \A v \in Users \ {u}, d \in Dishes : InBasket(v, d)' = InBasket(v, d)
<1>1. /\ DOMAIN lines' = DOMAIN lines \ LinesOf(c)
      /\ \A l \in DOMAIN lines' : lines'[l] = lines[l] /\ lines[l].cart # c
  BY DEF Without, LinesOf
<1>2. \A l \in DOMAIN lines : lines[l].cart \in DOMAIN carts
  BY DEF Serial, IInv, TablesConsistent
<1>3. \A l \in DOMAIN lines' : carts'[lines[l].cart] = carts[lines[l].cart]
  BY <1>1, <1>2 DEF Without
<1>4. ASSUME NEW d \in Dishes
      PROVE  InBasket(u, d)' = 0
  <2>1. \A l \in DOMAIN lines : carts[lines[l].cart] = u => lines[l].cart = c
    BY <1>2 DEF Serial, IInv, TablesConsistent
  <2>2. HeldLines(u, d)' = {}
    BY <1>1, <1>3, <2>1 DEF HeldLines
  <2> QED
    BY <2>2, UnitsOfNothing DEF InBasket
<1>5. ASSUME NEW v \in Users \ {u}, NEW d \in Dishes
      PROVE  InBasket(v, d)' = InBasket(v, d)
  <2>1. \A l \in HeldLines(v, d) : l \in DOMAIN lines'
    BY <1>1 DEF HeldLines, LinesOf
  <2>2. HeldLines(v, d)' = HeldLines(v, d)
    <3>1. \A l \in DOMAIN lines' : l \in DOMAIN lines /\ lines'[l] = lines[l]
      BY <1>1
    <3> QED
      BY <1>3, <2>1, <3>1 DEF HeldLines
  <2>3. \A l \in HeldLines(v, d) : lines'[l].quantity = lines[l].quantity
    BY <1>1, <2>1
  <2> QED
    BY <2>2, <2>3, SameUnits
<1> QED
  BY <1>4, <1>5

LEMMA DeleteLinesIsClear ==
  ASSUME Serial, NEW s \in Sessions, DeleteLines(s),
         UNCHANGED <<activeCooks, checkouts, orders>>
  PROVE  BasketView!Next \/ UNCHANGED BasketView!vars
<1> PICK c : c = requests[s].cart
  OBVIOUS
<1>1. lines' = Without(lines, LinesOf(c)) /\ carts' = carts
  BY DEF DeleteLines
<1>2. CASE c \in DOMAIN carts
  <2> PICK u \in Users : u = carts[c]
    BY <1>2 DEF Serial, IInv, TypeOK, TablesTyped
  <2> PICK units : units = BasketView!Nothing
    OBVIOUS
  <2>1. /\ \A d \in Dishes : InBasket(u, d)' = units[d]
        /\ \A v \in Users \ {u}, d \in Dishes : InBasket(v, d)' = InBasket(v, d)
    BY <1>1, <1>2, CartEmptied DEF BasketView!Nothing
  <2>2. units = [d \in Dishes |-> units[d]]
    BY DEF BasketView!Nothing
  <2>3. BasketView!Clear(u)
    BY <2>1, <2>2, PutUnits DEF BasketView!Clear
  <2> QED
    BY <2>3 DEF BasketView!Next
<1>3. CASE c \notin DOMAIN carts
  <2>1. LinesOf(c) = {}
    BY <1>3 DEF LinesOf, Serial, IInv, TablesConsistent
  <2>2. lines' = lines
    BY <1>1, <2>1, WithoutNothing DEF Serial, IInv
  <2> QED
    BY <1>1, <2>2, SameRows
<1> QED
  BY <1>2, <1>3

LEMMA CommitAddIsAdd ==
  ASSUME Serial, IInv', LinesInv', NEW s \in Sessions, CommitAdd(s),
         UNCHANGED <<activeCooks, checkouts, orders>>
  PROVE  BasketView!Next \/ UNCHANGED BasketView!vars
<1> PICK r : r = requests[s]
  OBVIOUS
<1> DEFINE new == {LineFor(r, d) : d \in ToWrite(r)}
<1>1. /\ r \in Merging /\ r.phase = "merging"
      /\ \A d \in Dishes : r.asked[d] # 0 => d \in ToWrite(r)
  BY RequestShapes DEF Serial, IInv, CommitAdd
<1>2. CASE UNCHANGED <<carts, lines, adds>>
  BY <1>2, SameRows
<1>3. CASE ~Refused(r) /\ WriteCart(r)
  <2> PICK c : c = CartFor(r)
    OBVIOUS
  <2> PICK u \in Users, asked \in AddRequests : u = r.user /\ asked = r.asked
    BY <1>1 DEF Merging
  <2>1. Grows(r, c)
    BY <1>3, WriteCartGrows DEF Serial
  <2>2. AsksFor(r)
    BY <1>1 DEF Serial, ReadsHold
  <2>3. /\ DOMAIN lines' = DOMAIN lines \cup new
        /\ \A l \in DOMAIN lines' \ new : lines'[l] = lines[l]
        /\ \A l \in new : lines'[l].cart = c /\ lines'[l].quantity = r.plan[DishOf(l)].quantity
    BY <1>3 DEF WriteCart
  <2>4. \A d \in ToWrite(r) : DishOf(LineFor(r, d)) = d /\ d \in Dishes /\ r.plan[d] # NotYet
    BY DEF LineFor, DishOf, ToWrite
  <2>5. /\ \A l \in DOMAIN lines : /\ lines[l].cart \in DOMAIN carts
                                   /\ l[1] \in 1..adds
                                   /\ carts'[lines'[l].cart] = carts[lines[l].cart]
        /\ \A l \in DOMAIN lines \ new : lines'[l] = lines[l]
        /\ \A l \in new : carts'[lines'[l].cart] = u
    BY <2>1, <2>3 DEF Grows, Serial, IInv, TablesConsistent, IdsUsed
  <2>6. \A l \in new : DishOf(l) \in ToWrite(r)
    BY <2>4
  <2>7. ASSUME NEW v \in Users, NEW d \in Dishes, v # u \/ d \notin ToWrite(r)
        PROVE  InBasket(v, d)' = InBasket(v, d)
    <3> HIDE DEF new
    <3>1. \A l \in DOMAIN lines' : carts'[lines'[l].cart] = v /\ DishOf(l) = d => l \notin new
      BY <2>5, <2>6, <2>7
    <3>2. \A l \in DOMAIN lines : carts[lines[l].cart] = v /\ DishOf(l) = d => l \notin new
      BY <2>5, <2>6, <2>7
    <3>3. HeldLines(v, d)' = HeldLines(v, d)
      BY <2>3, <2>5, <3>1, <3>2 DEF HeldLines
    <3>4. \A l \in HeldLines(v, d) : lines'[l].quantity = lines[l].quantity
      BY <2>5, <3>2 DEF HeldLines
    <3> QED
      BY <3>3, <3>4, SameUnits
  <2>8. ASSUME NEW d \in ToWrite(r)
        PROVE  InBasket(u, d)' = InBasket(u, d) + asked[d]
    <3> DEFINE k == LineFor(r, d)
    <3>1. k \in new /\ DishOf(k) = d /\ d \in Dishes /\ r.plan[d] # NotYet
      BY <2>4
    <3>2. k \in HeldLines(u, d)' /\ lines'[k].quantity = r.plan[d].quantity
      BY <2>3, <2>5, <3>1 DEF HeldLines
    <3>3. HeldLines(u, d)' = {k} /\ InBasket(u, d)' = r.plan[d].quantity
      BY <3>2, HeldUnitsAfter DEF Serial
    <3>4. \A l \in HeldLines(u, d) : l \in HeldLines(u, d)'
      BY <2>3, <2>5 DEF HeldLines
    <3>5. CASE r.plan[d].row = 0
      <4>1. k[1] = adds + 1 /\ adds \in Nat
        BY <3>5 DEF LineFor, Serial, IInv, TypeOK, TablesTyped
      <4>2. k \notin DOMAIN lines
        BY <2>5, <4>1
      <4>3. HeldLines(u, d) = {}
        BY <3>3, <3>4, <4>2 DEF HeldLines
      <4>4. InBasket(u, d) = 0
        BY <4>3, HeldUnits DEF Serial
      <4>5. r.plan[d].quantity = asked[d] /\ asked[d] \in Nat
        BY <2>2, <3>1, <3>5, <1>1 DEF AsksFor, AddRequests
      <4> QED
        BY <3>3, <4>4, <4>5
    <3>6. CASE r.plan[d].row # 0
      <4>1. k = <<r.plan[d].row, d>> /\ k \in DOMAIN lines
        BY <1>3, <3>6 DEF LineFor, Refused
      <4>2. k \in HeldLines(u, d)
        BY <2>5, <3>1, <4>1 DEF HeldLines
      <4>3. InBasket(u, d) = lines[k].quantity
        BY <4>2, HeldUnits DEF Serial
      <4>4. r.plan[d].quantity = lines[k].quantity + asked[d]
        BY <1>1, <2>2, <3>1, <3>6, <4>1 DEF AsksFor
      <4> QED
        BY <3>3, <4>3, <4>4
    <3> QED
      BY <3>5, <3>6
  <2> PICK units : units = [d \in Dishes |-> Baskets[u][d] + asked[d]]
    OBVIOUS
  <2>9. ASSUME NEW d \in Dishes
        PROVE  InBasket(u, d)' = units[d]
    <3>1. units[d] = InBasket(u, d) + asked[d]
      BY DEF Baskets
    <3>2. CASE d \in ToWrite(r)
      BY <2>8, <3>1, <3>2
    <3>3. CASE d \notin ToWrite(r)
      <4>1. asked[d] = 0
        BY <1>1, <3>3
      <4>2. InBasket(u, d) \in Nat
        BY HeldUnits DEF Serial
      <4> QED
        BY <2>7, <3>1, <3>3, <4>1, <4>2
    <3> QED
      BY <3>2, <3>3
  <2>10. BasketView!Put(u, units)
    <3>1. units = [d \in Dishes |-> units[d]]
      OBVIOUS
    <3> QED
      BY <2>7, <2>9, <3>1, PutUnits
  <2>11. asked \in [Dishes -> 0..MaxMerged] /\ asked # BasketView!Nothing
    <3>1. Amounts \cup {0} \subseteq Nat
      OBVIOUS
    <3>2. \A d \in Dishes : asked[d] \in Nat
      BY <3>1 DEF AddRequests
    <3>3. \A d \in Dishes : asked[d] <= MaxMerged
      BY <2>2 DEF AsksFor
    <3> QED
      BY <3>2, <3>3 DEF AddRequests, BasketView!Nothing
  <2>12. BasketView!Add(u)
    BY <2>10, <2>11 DEF BasketView!Add
  <2> QED
    BY <2>12 DEF BasketView!Next
<1> QED
  BY <1>2, <1>3 DEF CommitAdd

\* What a checkout adds to the items a customer has ordered.
NewItems(r, u, d) ==
  {x \in NewOrders(r) \X r.items :
     x[1].user = u /\ x[2] \in x[1].items /\ DishOf(x[2].line) = d}

LEMMA OrderedItemsGrow ==
  ASSUME NEW r, orders' = orders \cup NewOrders(r), NEW u, NEW d
  PROVE  OrderedItems(u, d)' = OrderedItems(u, d) \cup NewItems(r, u, d)
<1>1. \A x \in NewOrders(r) : x.items \subseteq r.items
  BY DEF NewOrders, ItemsFor
<1>2. \A x \in orders' : x \in orders \/ x \in NewOrders(r)
  OBVIOUS
<1> DEFINE Is(x, i) == x.user = u /\ i \in x.items /\ DishOf(i.line) = d
           old == UNION {y.items : y \in orders}
<1>3. OrderedItems(u, d) = {x \in orders \X old : Is(x[1], x[2])}
  BY DEF OrderedItems
<1>4. OrderedItems(u, d)' = {x \in orders' \X UNION {y.items : y \in orders'} : Is(x[1], x[2])}
  BY DEF OrderedItems
<1>5. NewItems(r, u, d) = {x \in NewOrders(r) \X r.items : Is(x[1], x[2])}
  BY DEF NewItems
<1>6. \A x, i : x \in orders /\ i \in x.items => i \in old
  OBVIOUS
<1>7. \A x, i : x \in orders' /\ i \in x.items => i \in UNION {y.items : y \in orders'}
  OBVIOUS
<1>8. \A x, i : <<x, i>> \in OrderedItems(u, d) <=> x \in orders /\ Is(x, i)
  BY <1>3, <1>6
<1>9. \A x, i : <<x, i>> \in OrderedItems(u, d)' <=> x \in orders' /\ Is(x, i)
  BY <1>4, <1>7
<1>10. \A x, i : <<x, i>> \in NewItems(r, u, d) <=> x \in NewOrders(r) /\ Is(x, i)
  BY <1>1, <1>5
<1>11. \A p \in OrderedItems(u, d)' \cup OrderedItems(u, d) \cup NewItems(r, u, d) :
         p = <<p[1], p[2]>>
  BY <1>3, <1>4, <1>5
<1> HIDE DEF Is
<1> QED
  BY <1>2, <1>8, <1>9, <1>10, <1>11

\* A checkout orders, for its customer, the line of each dish in the basket.
LEMMA NewItemsAreHeld ==
  ASSUME Serial, NEW r \in CheckoutRequest, HoldsCart(r), NEW d \in Dishes
  PROVE  /\ \A v \in Users \ {r.user} : NewItems(r, v, d) = {}
         /\ HeldLines(r.user, d) = {} => NewItems(r, r.user, d) = {}
         /\ \A l \in HeldLines(r.user, d) :
              \E y : /\ NewItems(r, r.user, d) = {y}
                     /\ y \notin OrderedItems(r.user, d)
                     /\ y[2].quantity = lines[l].quantity
<1> DEFINE u == r.user
           c == r.cart
           item(l) == [line |-> l, quantity |-> lines[l].quantity]
           order(k) == [checkout |-> checkouts + 1, user |-> u, cook |-> k, basket |-> c,
                        items |-> ItemsFor(r.items, k)]
<1>1. \A x \in NewOrders(r) : \E k : x = order(k)
  BY DEF NewOrders
<1>2. \A x \in NewOrders(r) : x.user = u
  BY <1>1
<1>3. \A i \in r.items : i = item(i.line) /\ i.line \in LinesOf(c)
  BY DEF HoldsCart, ItemsOf
<1>4. ASSUME NEW i \in r.items, DishOf(i.line) = d
      PROVE  i.line \in HeldLines(u, d)
  BY <1>3, <1>4 DEF HoldsCart, HeldLines, LinesOf
<1>5. \A v \in Users \ {u} : NewItems(r, v, d) = {}
  BY <1>2 DEF NewItems
<1>6. HeldLines(u, d) = {} => NewItems(r, u, d) = {}
  BY <1>4 DEF NewItems
<1>7. ASSUME NEW l \in HeldLines(u, d)
      PROVE  \E y : /\ NewItems(r, u, d) = {y}
                    /\ y \notin OrderedItems(u, d)
                    /\ y[2].quantity = lines[l].quantity
  <2> PICK i : i = item(l)
    OBVIOUS
  <2> PICK x : x = order(CookOf[d])
    OBVIOUS
  <2>1. u \in Users
    BY DEF CheckoutRequest
  <2>2. /\ l \in DOMAIN lines /\ DishOf(l) = d /\ l \in LinesOf(c)
    <3>1. l \in DOMAIN lines /\ carts[lines[l].cart] = u /\ DishOf(l) = d
      BY DEF HeldLines
    <3>2. lines[l].cart \in DOMAIN carts /\ c \in DOMAIN carts /\ carts[c] = u
      BY <3>1 DEF HoldsCart, Serial, IInv, TablesConsistent
    <3> QED
      BY <3>1, <3>2 DEF Serial, IInv, TablesConsistent, LinesOf
  <2>3. i \in r.items /\ i.line = l /\ i.quantity = lines[l].quantity
    BY <2>2 DEF HoldsCart, ItemsOf
  <2>4. \A j \in r.items : DishOf(j.line) = d => j = i
    <3> SUFFICES ASSUME NEW j \in r.items, DishOf(j.line) = d
                 PROVE  j = i
      OBVIOUS
    <3>1. j.line = l
      BY <1>4, <2>1, HeldIsOne DEF Serial
    <3> QED
      BY <1>3, <3>1
  <2>5. x \in NewOrders(r) /\ x.user = u /\ i \in x.items
    <3>1. CookOf[d] \in {CookOf[DishOf(j.line)] : j \in r.items}
      BY <2>2, <2>3
    <3>2. x \in NewOrders(r)
      BY <3>1 DEF NewOrders
    <3>3. i \in ItemsFor(r.items, CookOf[d])
      BY <2>2, <2>3 DEF ItemsFor
    <3>4. x.items = ItemsFor(r.items, CookOf[d]) /\ x.user = u
      OBVIOUS
    <3> QED
      BY <3>2, <3>3, <3>4
  <2>6. ASSUME NEW y \in NewOrders(r), i \in y.items
        PROVE  y = x
    <3>1. PICK k : y = order(k)
      BY <1>1
    <3>2. i \in ItemsFor(r.items, k)
      BY <2>6, <3>1
    <3>3. k = CookOf[d]
      BY <2>2, <2>3, <3>2 DEF ItemsFor
    <3> QED
      BY <3>1, <3>3
  <2>7. NewItems(r, u, d) = {<<x, i>>}
    <3>1. <<x, i>> \in NewItems(r, u, d)
      BY <2>2, <2>3, <2>5 DEF NewItems
    <3>2. ASSUME NEW p \in NewItems(r, u, d)
          PROVE  p = <<x, i>>
      <4>1. /\ p = <<p[1], p[2]>> /\ p[1] \in NewOrders(r) /\ p[2] \in r.items
            /\ p[2] \in p[1].items /\ DishOf(p[2].line) = d
        BY DEF NewItems
      <4> QED
        BY <2>4, <2>6, <4>1
    <3> QED
      BY <3>1, <3>2
  <2>8. <<x, i>> \notin OrderedItems(u, d)
    <3>1. x \in orders => l \notin LinesIn(x)
      BY <2>2 DEF Serial, IInv, LineOrderedOnce
    <3>2. l \in LinesIn(x)
      BY <2>3, <2>5 DEF LinesIn
    <3> QED
      BY <3>1, <3>2 DEF OrderedItems
  <2> QED
    BY <2>3, <2>7, <2>8
<1> QED
  BY <1>5, <1>6, <1>7

\* Only finitely many items have been ordered, since each checkout orders one of a dish.
FiniteOrders == \A u \in Users, d \in Dishes : IsFiniteSet(OrderedItems(u, d))

\* What the order of a checkout adds to the units a customer has ordered.
LEMMA CheckoutOrdersBasket ==
  ASSUME Serial, FiniteOrders, NEW r \in CheckoutRequest, HoldsCart(r),
         orders' = orders \cup NewOrders(r)
  PROVE  /\ FiniteOrders'
         /\ \A v \in Users, d \in Dishes :
              Ordered(v, d)' = IF v = r.user THEN Ordered(v, d) + InBasket(v, d)
                               ELSE Ordered(v, d)
<1> SUFFICES ASSUME NEW v \in Users, NEW d \in Dishes
             PROVE  /\ IsFiniteSet(OrderedItems(v, d)')
                    /\ Ordered(v, d)' = IF v = r.user THEN Ordered(v, d) + InBasket(v, d)
                                        ELSE Ordered(v, d)
  BY DEF FiniteOrders
<1>1. OrderedItems(v, d)' = OrderedItems(v, d) \cup NewItems(r, v, d)
  BY OrderedItemsGrow
<1>2. IsFiniteSet(OrderedItems(v, d))
  BY DEF FiniteOrders
<1>3. ASSUME NEW x \in OrderedItems(v, d)
      PROVE  x[2].quantity \in Nat
  BY DEF OrderedItems, Serial, IInv, TypeOK, Order, Item
<1>4. Ordered(v, d) \in Nat
  <2>1. OrderedQuantities(OrderedItems(v, d)) \in [OrderedItems(v, d) -> Nat]
    BY <1>3 DEF OrderedQuantities
  <2> QED
    BY <1>2, <2>1, UnitsOrderedIsTotal, TotalIsNat DEF Ordered
<1>5. CASE NewItems(r, v, d) = {}
  <2>1. v = r.user => InBasket(v, d) = 0
    <3>1. v = r.user => HeldLines(v, d) = {}
      BY <1>5, NewItemsAreHeld
    <3> QED
      BY <3>1, HeldUnits DEF Serial
  <2>2. Ordered(v, d)' = Ordered(v, d)
    BY <1>1, <1>5 DEF Ordered
  <2> QED
    BY <1>1, <1>2, <1>4, <1>5, <2>1, <2>2
<1>6. CASE NewItems(r, v, d) # {}
  <2>1. v = r.user
    BY <1>6, NewItemsAreHeld
  <2>2. PICK l : l \in HeldLines(v, d)
    BY <1>6, <2>1, NewItemsAreHeld
  <2>3. PICK y : /\ NewItems(r, v, d) = {y} /\ y \notin OrderedItems(v, d)
                 /\ y[2].quantity = lines[l].quantity
    BY <2>1, <2>2, NewItemsAreHeld
  <2>4. y[2].quantity = InBasket(v, d) /\ y[2].quantity \in Nat
    BY <2>2, <2>3, HeldUnits DEF Serial
  <2>5. OrderedItems(v, d)' = OrderedItems(v, d) \cup {y}
    BY <1>1, <2>3
  <2>6. IsFiniteSet(OrderedItems(v, d)')
    BY <1>2, <2>5, FS_AddElement
  <2>7. UnitsOrdered(OrderedItems(v, d) \cup {y})
          = UnitsOrdered(OrderedItems(v, d)) + y[2].quantity
    <3>1. \A x \in OrderedItems(v, d) \cup {y} : x[2].quantity \in Nat
      BY <1>3, <2>4
    <3> QED
      BY <1>2, <2>3, <3>1, OneMoreOrdered
  <2>8. Ordered(v, d)' = Ordered(v, d) + InBasket(v, d)
    BY <2>4, <2>5, <2>7 DEF Ordered
  <2> QED
    BY <2>1, <2>6, <2>8
<1> QED
  BY <1>5, <1>6

LEMMA CreateFromCartIsOrder ==
  ASSUME Serial, FiniteOrders, NEW s \in Sessions, CreateFromCart(s)
  PROVE  /\ FiniteOrders'
         /\ BasketView!Next \/ UNCHANGED BasketView!vars
<1> PICK r : r = requests[s]
  OBVIOUS
<1>1. r \in CheckoutRequest /\ HoldsCart(r)
  BY RequestShapes DEF Serial, IInv, ReadsHold, CreateFromCart
<1> PICK c, u : c = r.cart /\ u = r.user
  OBVIOUS
<1>2. c \in DOMAIN carts /\ carts[c] = u /\ u \in Users
  BY <1>1 DEF HoldsCart, CheckoutRequest
<1>3. /\ orders' = orders \cup NewOrders(r)
      /\ lines' = Without(lines, LinesOf(c)) /\ carts' = Without(carts, {c})
  BY <1>2 DEF CreateFromCart, CartStillThere
<1>4. /\ FiniteOrders'
      /\ \A v \in Users, d \in Dishes :
           Ordered(v, d)' = IF v = u THEN Ordered(v, d) + InBasket(v, d) ELSE Ordered(v, d)
  BY <1>1, <1>3, CheckoutOrdersBasket
<1>5. /\ \A d \in Dishes : InBasket(u, d)' = 0
      /\ \A v \in Users \ {u}, d \in Dishes : InBasket(v, d)' = InBasket(v, d)
  BY <1>2, <1>3, CartEmptied
<1>6. \E d \in Dishes : Baskets[u][d] # 0
  <2>1. PICK i \in r.items : TRUE
    BY <1>1 DEF HoldsCart
  <2> PICK l : l = i.line
    OBVIOUS
  <2>2. l \in DOMAIN lines /\ lines[l].cart = c
    BY <1>1, <2>1 DEF HoldsCart, ItemsOf, LinesOf
  <2>3. DishOf(l) \in Dishes
    BY <2>2 DEF Serial, IInv, TypeOK, TablesTyped, LineIds, DishOf
  <2>4. l \in HeldLines(u, DishOf(l))
    BY <1>2, <2>2 DEF HeldLines
  <2>5. InBasket(u, DishOf(l)) # 0
    BY <1>2, <2>4, HeldUnits DEF Serial
  <2> QED
    BY <1>2, <2>3, <2>5 DEF Baskets
<1>7. Baskets' = [Baskets EXCEPT ![u] = BasketView!Nothing]
  <2> PICK b : b = BasketView!Nothing
    OBVIOUS
  <2>1. b = [d \in Dishes |-> b[d]] /\ \A d \in Dishes : InBasket(u, d)' = b[d]
    BY <1>5 DEF BasketView!Nothing
  <2> QED
    BY <1>2, <1>5, <2>1, BasketsAfter
<1>8. AllOrdered' = [AllOrdered EXCEPT ![u] = [d \in Dishes |-> @[d] + Baskets[u][d]]]
  <2> PICK o : o = [d \in Dishes |-> AllOrdered[u][d] + Baskets[u][d]]
    OBVIOUS
  <2>1. o = [d \in Dishes |-> o[d]] /\ \A d \in Dishes : Ordered(u, d)' = o[d]
    BY <1>2, <1>4 DEF AllOrdered, Baskets
  <2>2. \A v \in Users \ {u}, d \in Dishes : Ordered(v, d)' = Ordered(v, d)
    BY <1>4
  <2>3. AllOrdered' = [AllOrdered EXCEPT ![u] = o]
    BY <1>2, <2>1, <2>2, OrderedAfter
  <2> QED
    BY <2>3
<1>9. BasketView!Order(u)
  BY <1>6, <1>7, <1>8 DEF BasketView!Order, BasketView!Nothing
<1> QED
  BY <1>2, <1>4, <1>9 DEF BasketView!Next

\* With one session, what customers see of their baskets and orders is a behaviour of
\* Basket: no unit is lost, duplicated, or ordered without having been asked for.
THEOREM BasketsAreKept ==
  ASSUME OneSession
  PROVE  Spec => ImplementsBasket
<1>1. Init => BasketView!Init /\ FiniteOrders
  <2> SUFFICES ASSUME Init
               PROVE  BasketView!Init /\ FiniteOrders
    OBVIOUS
  <2>1. \A u, d : HeldLines(u, d) = {} /\ OrderedItems(u, d) = {}
    BY DEF Init, BasketInit, HeldLines, OrderedItems
  <2>2. \A u, d : InBasket(u, d) = 0 /\ Ordered(u, d) = 0
    BY <2>1, UnitsOfNothing, UnitsOrderedNothing DEF InBasket, Ordered
  <2>3. BasketView!Init
    BY <2>2 DEF BasketView!Init, BasketView!Nothing, Baskets, AllOrdered
  <2> QED
    BY <2>1, <2>3, FS_EmptySet DEF FiniteOrders
<1>2. IInv /\ LinesInv /\ ReadsHold /\ FiniteOrders /\ [Next]_vars /\ IInv' /\ LinesInv'
        => FiniteOrders' /\ [BasketView!Next]_(BasketView!vars)
  <2> SUFFICES ASSUME Serial, FiniteOrders, [Next]_vars, IInv', LinesInv'
               PROVE  FiniteOrders' /\ (BasketView!Next \/ UNCHANGED BasketView!vars)
    BY DEF Serial
  <2>1. orders' = orders => FiniteOrders'
    BY DEF FiniteOrders, OrderedItems
  <2>2. CASE BasketNext /\ UNCHANGED <<activeCooks, checkouts, orders>>
    <3>1. ASSUME NEW s \in Sessions,
                 \/ \E u \in Users, asked \in AddRequests : AddItems(s, u, asked)
                 \/ \E u \in Users, l \in DOMAIN lines, quantity \in 1..MaxMerged :
                       UpdateItemQuantity(s, u, l, quantity)
                 \/ \E u \in Users, l \in DOMAIN lines : RemoveItem(s, u, l)
                 \/ \E u \in Users : ClearCart(s, u)
                 \/ UpsertCart(s) \/ (\E d \in Dishes : MergeDish(s, d))
                 \/ CountRemaining(s) \/ Fail(s)
          PROVE  UNCHANGED <<carts, lines>>
      BY <3>1 DEF AddItems, UpdateItemQuantity, RemoveItem, FindsLine, ClearCart,
                  UpsertCart, MergeDish, CountRemaining, Fail
    <3>2. ASSUME NEW d \in Dishes, UpdateDish(d)
          PROVE  UNCHANGED <<carts, lines>>
      BY <3>2 DEF UpdateDish
    <3>3. BasketView!Next \/ UNCHANGED BasketView!vars
      BY <2>2, <3>1, <3>2, SameRows, CommitAddIsAdd, WriteQuantityIsChange,
         DeleteLineIsChange, DeleteCartStutters, DeleteLinesIsClear
      DEF BasketNext
    <3> QED
      BY <2>1, <2>2, <3>3
  <2>3. CASE CheckoutNext
    <3>1. ASSUME NEW s \in Sessions,
                 \/ \E u \in Users : ResolveCheckoutGroups(s, u)
                 \/ \E c \in Cooks : CheckCook(s, c)
          PROVE  UNCHANGED <<carts, lines, orders>>
      BY <3>1 DEF ResolveCheckoutGroups, CheckCook
    <3>2. ASSUME NEW c \in Cooks, CookTurns(c)
          PROVE  UNCHANGED <<carts, lines, orders>>
      BY <3>2 DEF CookTurns
    <3> QED
      BY <2>1, <2>3, <3>1, <3>2, SameRows, CreateFromCartIsOrder DEF CheckoutNext
  <2>4. CASE UNCHANGED vars
    BY <2>1, <2>4, SameRows DEF vars
  <2> QED
    BY <2>2, <2>3, <2>4 DEF Next
<1> QED
  BY <1>1, <1>2, InductiveInvariant, LinesInvariant, ReadsInvariant, PTL
     DEF Spec, ImplementsBasket, BasketView!Spec
=============================================================================
