--------------------------------- MODULE Receipts ---------------------------------
(***************************************************************************)
(* Receipts: what a checkout writes besides the carts of module Checkout   *)
(* (the amounts of the orders, the prices of their items, the saved        *)
(* address) and what is told of these amounts later.                       *)
(*                                                                         *)
(* One customer.  A checkout reads the cart with the prices of its dishes; *)
(* cooks change prices meanwhile; its transaction writes the orders,       *)
(* turns the default address over and deletes the cart.  Read committed    *)
(* lets two transactions turn the default address over without seeing each *)
(* other.                                                                  *)
(***************************************************************************)
EXTENDS Pricing, FiniteSets, FiniteSetsExt

CONSTANTS
  Cooks,       \* the cooks
  Dishes,      \* the dishes
  CookOf,      \* CookOf[d]: the cook of dish d
  Prices,      \* prices cooks give their dishes
  Quantities,  \* quantities customers order
  Amounts,     \* amounts operators may write into an order
  MaxInt,      \* the largest value of an integer column
  Sessions,    \* checkouts the server may be handling at the same time
  MaxCarts     \* bound: carts created in a behaviour

ASSUME ReceiptsAssumption ==
  /\ IsFiniteSet(Cooks) /\ IsFiniteSet(Dishes)   \* rows of a database
  /\ CookOf \in [Dishes -> Cooks]
  /\ Prices \subseteq Nat /\ Quantities \subseteq Nat /\ Amounts \subseteq Nat
  /\ MaxInt \in Nat /\ MaxCarts \in Nat

Carts == 1..MaxCarts

\* A cart is ordered once (LineOrderedOnce of Checkout), one order for a cook: an
\* order is named by the two.
OrderIds == Carts \X Cooks

Item == [quantity: Quantities, price: Prices]
Items == UNION {[D -> Item] : D \in SUBSET Dishes}
Order == [items: Items, totalAmount: 0..MaxInt, deliveryFee: 0..MaxInt,
          discountAmount: 0..MaxInt, paid: BOOLEAN,
          patched: BOOLEAN]   \* history: an operator has written an amount

\* An address is named by the cart of the checkout that saved it.
Address == [cart: Carts, isDefault: BOOLEAN]

Idle == [phase |-> "idle"]

Request ==
  {Idle} \cup [phase: {"ordering", "saving", "committing"}, cart: Carts, items: Items,
               saveAddress: BOOLEAN, defaults: SUBSET Carts]

VARIABLES
  price,      \* price[d]: Dish.price
  cart,       \* the number of the customer's cart, or 0
  lines,      \* its lines, a function from its dishes to quantities
  carts,      \* how many carts have been created
  orders,     \* the orders, a function from the ids that exist
  addresses,  \* the customer's saved addresses
  requests    \* requests[s]: where the checkout of session s is

vars == <<price, cart, lines, carts, orders, addresses, requests>>

Init ==
  /\ price \in [Dishes -> Prices]
  /\ cart = 0
  /\ lines = [d \in {} |-> 0]
  /\ carts = 0
  /\ orders = [o \in {} |-> Idle]
  /\ addresses = {}
  /\ requests = [s \in Sessions |-> Idle]

TypeOK ==
  /\ price \in [Dishes -> Prices]
  /\ cart \in 0..carts /\ carts \in 0..MaxCarts
  /\ DOMAIN lines \subseteq Dishes /\ lines \in [DOMAIN lines -> Quantities]
  /\ DOMAIN orders \subseteq OrderIds /\ orders \in [DOMAIN orders -> Order]
  /\ addresses \subseteq Address
  /\ requests \in [Sessions -> Request]

To(s, r) == requests' = [requests EXCEPT ![s] = r]

-----------------------------------------------------------------------------
(* The surroundings: prices and the cart *)

SetPrice(d, p) ==
  /\ price' = [price EXCEPT ![d] = p]
  /\ UNCHANGED <<cart, lines, carts, orders, addresses, requests>>

\* A line is written; the first one creates the cart.
PutLine(d, q) ==
  /\ \/ cart # 0 /\ UNCHANGED <<cart, carts>>
     \/ cart = 0 /\ carts < MaxCarts /\ cart' = carts + 1 /\ carts' = carts + 1
  /\ lines' = [x \in DOMAIN lines \cup {d} |-> IF x = d THEN q ELSE lines[x]]
  /\ UNCHANGED <<price, orders, addresses, requests>>

-----------------------------------------------------------------------------
(* Amounts *)

ItemsTotal(items) ==
  MapThenSumSet(LAMBDA d : items[d].quantity * items[d].price, DOMAIN items)

\* computePricingForItems
ComputePricing(items) == PricingFor(ItemsTotal(items))

\* groupCartItemsByCook
ItemsFor(items, c) == [d \in {x \in DOMAIN items : CookOf[x] = c} |-> items[d]]
CooksIn(items) == {CookOf[d] : d \in DOMAIN items}

\* Bug variant: amounts are not bounded.
Fits_Unbounded(n) == TRUE

\* The database refuses a value that does not fit the column.
Fits(n) == n <= MaxInt

-----------------------------------------------------------------------------
(* The checkout *)

\* resolveCheckoutGroups: the lines with the prices of their dishes, as read.
ResolveCheckoutGroups(s, saveAddress) ==
  /\ requests[s] = Idle
  /\ cart # 0
  /\ To(s, [phase |-> "ordering", cart |-> cart,
            items |-> [d \in DOMAIN lines |-> [quantity |-> lines[d], price |-> price[d]]],
            saveAddress |-> saveAddress, defaults |-> {}])
  /\ UNCHANGED <<price, cart, lines, carts, orders, addresses>>

\* Bug variant: the item keeps the price of the dish at the time of the insert.
ItemRow_PriceNow(item, d) == [item EXCEPT !.price = price[d]]

\* createMany of the order's items: quantity and price as they were read.
ItemRow(item, d) == item

\* The order rows and their items, of one cook each.
NewOrders(r) ==
  [o \in {r.cart} \X CooksIn(r.items) |->
     LET pricing == ComputePricing(ItemsFor(r.items, o[2]))
         items == ItemsFor(r.items, o[2])
     IN  [items |-> [d \in DOMAIN items |-> ItemRow(items[d], d)],
          totalAmount |-> pricing.totalAmount, deliveryFee |-> pricing.deliveryFee,
          discountAmount |-> pricing.discountAmount,
          paid |-> FALSE, patched |-> FALSE]]

RowsFit(r) == \A o \in DOMAIN NewOrders(r) : Fits(NewOrders(r)[o].totalAmount)

\* The transaction opens; order.create is refused if an amount does not fit.
CreateOrders(s) ==
  LET r == requests[s]
  IN  /\ r.phase = "ordering"
      /\ IF RowsFit(r)
         THEN To(s, [r EXCEPT !.phase = "saving"])
         ELSE To(s, Idle)
      /\ UNCHANGED <<price, cart, lines, carts, orders, addresses>>

\* persistCheckoutAddress, updateMany: it finds the default addresses that have
\* been committed.
ClearDefaults(s) ==
  LET r == requests[s]
  IN  /\ r.phase = "saving"
      /\ To(s, [r EXCEPT !.phase = "committing",
                         !.defaults = IF r.saveAddress
                                      THEN {a.cart : a \in {x \in addresses : x.isDefault}}
                                      ELSE {}])
      /\ UNCHANGED <<price, cart, lines, carts, orders, addresses>>

\* Bug variant: the cart is deleted if it is there (deleteMany).
CartStillThere_DeleteMany(r) == TRUE

\* cart.delete: an error, and no order, if the cart is gone.
CartStillThere(r) == cart = r.cart

\* The other addresses after updateMany, and the new one.
SavedAddresses(r) ==
  {[a EXCEPT !.isDefault = @ /\ a.cart \notin r.defaults] : a \in addresses}
    \cup (IF r.saveAddress THEN {[cart |-> r.cart, isDefault |-> TRUE]} ELSE {})

\* The end of the transaction.
CommitCheckout(s) ==
  LET r == requests[s]
  IN  /\ r.phase = "committing"
      /\ \/ /\ CartStillThere(r)
            /\ orders' = [o \in DOMAIN orders \cup DOMAIN NewOrders(r) |->
                            IF o \in DOMAIN NewOrders(r) THEN NewOrders(r)[o] ELSE orders[o]]
            /\ addresses' = SavedAddresses(r)
            /\ cart' = IF cart = r.cart THEN 0 ELSE cart
            /\ lines' = IF cart = r.cart THEN [d \in {} |-> 0] ELSE lines
         \/ ~CartStillThere(r) /\ UNCHANGED <<orders, addresses, cart, lines>>
      /\ To(s, Idle)
      /\ UNCHANGED <<price, carts>>

-----------------------------------------------------------------------------
(* Orders afterwards *)

\* setOrderPaymentStatusByAdmin: COMPLETED, or something else again.
PaymentTurns(o) ==
  /\ orders' = [orders EXCEPT ![o].paid = ~@]
  /\ UNCHANGED <<price, cart, lines, carts, addresses, requests>>

\* patchOrderByAdmin, of an amount.
PatchOrderByAdmin(o, field, amount) ==
  /\ Fits(amount)
  /\ orders' = [orders EXCEPT ![o][field] = amount, ![o].patched = TRUE]
  /\ UNCHANGED <<price, cart, lines, carts, addresses, requests>>

Next ==
  \/ \E d \in Dishes : \/ \E p \in Prices : SetPrice(d, p)
                       \/ \E q \in Quantities : PutLine(d, q)
  \/ \E s \in Sessions : \/ \E saveAddress \in BOOLEAN : ResolveCheckoutGroups(s, saveAddress)
                         \/ CreateOrders(s) \/ ClearDefaults(s) \/ CommitCheckout(s)
  \/ \E o \in DOMAIN orders :
       \/ PaymentTurns(o)
       \/ \E field \in {"totalAmount", "deliveryFee", "discountAmount"}, n \in Amounts :
            PatchOrderByAdmin(o, field, n)

Spec == Init /\ [][Next]_vars

-----------------------------------------------------------------------------
(* The dashboards *)

Paid(ids) == {o \in ids : orders[o].paid}
Sum(ids, field) == MapThenSumSet(LAMBDA o : orders[o][field], ids)

\* getCookStats and getPlatformStats: revenue, commission and payout of the paid
\* orders among ids.
Dashboard(ids) ==
  LET paid == Paid(ids)
  IN  ComputeCommissionFromAggregateOrders(Sum(paid, "totalAmount"), Sum(paid, "deliveryFee"))

OrdersOf(c) == {o \in DOMAIN orders : o[2] = c}

\* The commission that the orders' own views show, summed.
CommissionShown(ids) ==
  MapThenSumSet(LAMBDA o : CommissionFields(orders[o]).commission, Paid(ids))

-----------------------------------------------------------------------------
(* Properties *)

\* The total of an order is the sum over its items at the prices they keep, and the
\* delivery fee, although prices change while the checkout is under way; as long as
\* no operator has written an amount.
OrderAddsUp ==
  \A o \in DOMAIN orders :
    ~orders[o].patched =>
      orders[o].totalAmount = ItemsTotal(orders[o].items) + orders[o].deliveryFee

\* "Food subtotal used as the commission base (excludes delivery fee)": the views
\* of an order, which have only the totals of its row, show the fee the checkout
\* computed from its items.
ViewsShowTheFee ==
  \A o \in DOMAIN orders :
    ~orders[o].patched =>
      CommissionFields(orders[o]).commission = ComputePricing(orders[o].items).platformFee

\* The dashboards round once, the orders each: for the orders of a cook that nobody
\* has patched, the dashboard's commission is at least what the orders show, and
\* exceeds it by less than the number of orders.
DashboardWithinRounding ==
  \A c \in Cooks :
    LET ids == {o \in OrdersOf(c) : ~orders[o].patched}
        extra == Dashboard(ids).commission - CommissionShown(ids)
    IN  extra >= 0 /\ (extra < Cardinality(Paid(ids)) \/ extra = 0)

\* A customer has at most one default address, although turning it over does not
\* see other transactions: of two checkouts of one cart, one is rolled back.
OneDefaultAddress == Cardinality({a \in addresses : a.isDefault}) <= 1

-----------------------------------------------------------------------------
(* Inductive invariants *)

\* The order rows of a transaction that is past order.create fit their columns.
RequestsFit ==
  \A s \in Sessions :
    requests[s].phase \in {"saving", "committing"} => RowsFit(requests[s])

TypeInv == TypeOK /\ RequestsFit

\* The amounts of an order that no operator has written are those the checkout
\* computed of the items it keeps.
AmountsInv ==
  \A o \in DOMAIN orders :
    ~orders[o].patched =>
      /\ orders[o].totalAmount = ItemsTotal(orders[o].items) + DeliveryFee
      /\ orders[o].deliveryFee = DeliveryFee

\* A checkout is of a cart that has been created.
RequestsOfCarts ==
  \A s \in Sessions : requests[s] # Idle => requests[s].cart \in 1..carts

\* A transaction that saves an address, and whose cart is still there, has found
\* every default address: none has been saved since, or the cart would be gone.
DefaultsSeen ==
  \A s \in Sessions :
    /\ requests[s].phase = "committing"
    /\ requests[s].saveAddress
    /\ cart = requests[s].cart
    => \A a \in addresses : a.isDefault => a.cart \in requests[s].defaults

OneDefault == \A a, b \in addresses : a.isDefault /\ b.isDefault => a = b

AddressInv == RequestsOfCarts /\ DefaultsSeen /\ OneDefault
=============================================================================
