-------------------------------- MODULE Checkout --------------------------------
(***************************************************************************)
(* OrderService.createFromCart beside BasketService: a checkout reads the  *)
(* cart and its dishes, then each cook, and only then opens a transaction  *)
(* that writes one order per cook from what it has read and deletes the    *)
(* cart.  Basket requests and other checkouts interleave with it.  Amounts *)
(* of money are left out here.                                             *)
(***************************************************************************)
EXTENDS BasketService, FiniteSetsExt

CONSTANTS
  Cooks,      \* cook profiles
  CookOf      \* CookOf[d]: the cook of dish d

ASSUME CheckoutAssumption == CookOf \in [Dishes -> Cooks]

VARIABLES
  activeCooks,  \* the cooks isCookActiveNow holds of
  checkouts,    \* how many checkouts have created orders (tells their orders apart)
  orders        \* the orders created, one record each

vars == <<available, carts, lines, adds, requests, cut, activeCooks, checkouts, orders>>

\* A line as the checkout read it.
Item == [line: LineIds, quantity: Nat \ {0}]

Init ==
  /\ BasketInit
  /\ activeCooks = Cooks
  /\ checkouts = 0
  /\ orders = {}

CheckoutRequest ==
  [phase: {"resolved"}, user: Users, cart: CartIds, items: SUBSET Item,
   unchecked: SUBSET Cooks]

Order == [checkout: Nat \ {0}, user: Users, cook: Cooks, basket: CartIds,
          items: SUBSET Item]

TypeOK ==
  /\ TablesTyped
  /\ requests \in [Sessions -> BasketRequest \cup CheckoutRequest]
  /\ activeCooks \subseteq Cooks
  /\ checkouts \in Nat
  /\ orders \subseteq Order

-----------------------------------------------------------------------------
(* resolveCheckoutGroups *)

\* The lines of cart c, as a checkout reads them.
ItemsOf(c) == {[line |-> l, quantity |-> lines[l].quantity] : l \in LinesOf(c)}

\* The cart, its lines and their dishes are read; the cart is not empty, and all
\* its dishes are available.
ResolveCheckoutGroups(s, u) ==
  /\ requests[s] = Idle
  /\ \E c \in CartsOf(u) :
      /\ LinesOf(c) # {}
      /\ \A l \in LinesOf(c) : DishOf(l) \in available
      /\ To(s, [phase |-> "resolved", user |-> u, cart |-> c,
                items |-> ItemsOf(c),
                unchecked |-> {CookOf[DishOf(l)] : l \in LinesOf(c)}])
  /\ UNCHANGED <<available, carts, lines, adds, activeCooks, checkouts, orders>>

\* One cook of the cart at a time is looked up; an inactive one ends the checkout.
CheckCook(s, c) ==
  LET r == requests[s]
  IN  /\ r.phase = "resolved"
      /\ c \in r.unchecked
      /\ To(s, IF c \in activeCooks THEN [r EXCEPT !.unchecked = @ \ {c}] ELSE Idle)
      /\ UNCHANGED <<available, carts, lines, adds, activeCooks, checkouts, orders>>

-----------------------------------------------------------------------------
(* createFromCart *)

\* The group of one cook, in groupCartItemsByCook.
ItemsFor(items, c) == {i \in items : CookOf[DishOf(i.line)] = c}

\* One order for each cook of the cart, all in one transaction.
NewOrders(r) ==
  { [checkout |-> checkouts + 1, user |-> r.user, cook |-> c, basket |-> r.cart,
     items |-> ItemsFor(r.items, c)]
    : c \in {CookOf[DishOf(i.line)] : i \in r.items} }

\* Bug variant: the cart is removed with deleteMany, which does not mind if it
\* is gone already.
CartStillThere_DeleteMany(c) == TRUE

\* cart.delete, the last statement of the transaction, fails and rolls all of it
\* back if another request has deleted the cart.
CartStillThere(c) == c \in DOMAIN carts

\* The transaction, once every cook has been found active.
CreateFromCart(s) ==
  LET r == requests[s]
  IN  /\ r.phase = "resolved" /\ r.unchecked = {}
      /\ \/ /\ CartStillThere(r.cart)
            /\ checkouts' = checkouts + 1
            /\ orders' = orders \cup NewOrders(r)
            /\ lines' = Without(lines, LinesOf(r.cart))
            /\ carts' = Without(carts, {r.cart})
         \/ /\ ~CartStillThere(r.cart)
            /\ UNCHANGED <<checkouts, orders, lines, carts>>
      /\ To(s, Idle)
      /\ UNCHANGED <<available, adds, activeCooks>>

\* A cook's hours begin or end, or operators approve or suspend the profile.
CookTurns(c) ==
  /\ activeCooks' = IF c \in activeCooks THEN activeCooks \ {c} ELSE activeCooks \cup {c}
  /\ UNCHANGED <<available, carts, lines, adds, requests, cut, checkouts, orders>>

CheckoutNext ==
  \/ \E s \in Sessions :
        \/ \E u \in Users : ResolveCheckoutGroups(s, u)
        \/ \E c \in Cooks : CheckCook(s, c)
        \/ CreateFromCart(s)
  \/ \E c \in Cooks : CookTurns(c)

Next ==
  \/ BasketNext /\ UNCHANGED <<activeCooks, checkouts, orders>>
  \/ CheckoutNext

Spec == Init /\ [][Next]_vars

-----------------------------------------------------------------------------
(* Properties *)

LinesIn(x) == {i.line : i \in x.items}

\* However checkouts and basket requests interleave, a line of a basket is
\* ordered at most once, and not while it is still in a basket: a checkout sent
\* twice creates its orders once.
LineOrderedOnce ==
  /\ \A x, y \in orders : x # y => LinesIn(x) \cap LinesIn(y) = {}
  /\ \A x \in orders : LinesIn(x) \cap DOMAIN lines = {}

\* The inductive invariant behind LineOrderedOnce: what a checkout has read are
\* lines of one cart; once they are ordered, by whatever checkout, the cart has
\* gone for good.
ItemsUsed ==
  \A x \in orders : \A i \in x.items : i.line[1] \in 1..adds

CheckoutsAgree ==
  \A s \in Sessions :
    LET r == requests[s]
    IN  r.phase = "resolved" =>
          /\ r.cart \in 1..adds
          /\ \A l \in LinesIn(r) :
                /\ l[1] \in 1..adds
                /\ l \in DOMAIN lines => lines[l].cart = r.cart
          /\ \A x \in orders :
                LinesIn(x) \cap LinesIn(r) # {} => r.cart \notin DOMAIN carts
          /\ \A t \in Sessions :
                requests[t].phase = "resolved" /\ LinesIn(requests[t]) \cap LinesIn(r) # {}
                  => requests[t].cart = r.cart

IInv ==
  /\ TypeOK
  /\ IdsUsed
  /\ TablesConsistent
  /\ CartsAgree
  /\ PlansAgree
  /\ ItemsUsed
  /\ LineOrderedOnce
  /\ CheckoutsAgree

\* The inductive invariant behind ImplementsBasket: with one session, what a request
\* has read is still so when it writes.  A plan adds what was asked for to what the
\* line found for the dish holds, and a checkout holds what is in the cart.
AsksFor(r) ==
  \A d \in Dishes :
    /\ r.asked[d] <= MaxMerged
    /\ r.phase = "merging" /\ r.plan[d] # NotYet =>
         LET p == r.plan[d]
         IN  /\ r.asked[d] # 0
             /\ p.row = 0 => p.quantity = r.asked[d]
             /\ p.row # 0 => p.quantity = lines[<<p.row, d>>].quantity + r.asked[d]

HoldsCart(r) ==
  /\ r.cart \in DOMAIN carts
  /\ carts[r.cart] = r.user
  /\ r.items = ItemsOf(r.cart)
  /\ r.items # {}

ReadsHold ==
  OneSession =>
    \A s \in Sessions :
      /\ requests[s].phase \in {"adding", "merging"} => AsksFor(requests[s])
      /\ requests[s].phase = "resolved" => HoldsCart(requests[s])

\* The units of the lines ls, and of the items of orders in xs.
UnitsOf(table, ls) == LET quantity(l) == table[l].quantity IN MapThenSumSet(quantity, ls)

UnitsOrdered(xs) == LET quantity(x) == x[2].quantity IN MapThenSumSet(quantity, xs)

\* The units of dish d in the cart of u, and those u has ordered.
HeldLines(u, d) == {l \in DOMAIN lines : carts[lines[l].cart] = u /\ DishOf(l) = d}

InBasket(u, d) == UnitsOf(lines, HeldLines(u, d))

OrderedItems(u, d) ==
  {x \in orders \X UNION {y.items : y \in orders} :
     x[1].user = u /\ x[2] \in x[1].items /\ DishOf(x[2].line) = d}

Ordered(u, d) == UnitsOrdered(OrderedItems(u, d))

Baskets == [u \in Users |-> [d \in Dishes |-> InBasket(u, d)]]

AllOrdered == [u \in Users |-> [d \in Dishes |-> Ordered(u, d)]]

BasketView == INSTANCE Basket WITH basket <- Baskets, ordered <- AllOrdered

\* With one session, the baskets and orders that customers see are those of
\* Basket: no unit is lost, duplicated, or ordered without having been asked for.
ImplementsBasket == BasketView!Spec
=============================================================================
