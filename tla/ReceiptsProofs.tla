------------------------------ MODULE ReceiptsProofs ------------------------------
(***************************************************************************)
(* Theorems about Pricing and Receipts, for all amounts, every commission  *)
(* rate and delivery fee, any number of cooks, dishes, sessions and carts. *)
(***************************************************************************)
EXTENDS Receipts, Sums, TLAPS

(***************************************************************************)
(* Rounding                                                                *)
(***************************************************************************)

\* Commission is the share of the amount, rounded down to whole KZT.
LEMMA CommissionIsFloor ==
  ASSUME NEW n \in Nat
  PROVE  /\ Commission(n) \in Nat
         /\ 100 * Commission(n) <= n * CommissionPercent
         /\ n * CommissionPercent < 100 * Commission(n) + 100
<1> DEFINE share == n * CommissionPercent
<1>1. CommissionPercent \in Nat /\ share \in Nat
  BY PricingAssumption
<1>2. \A x \in Nat : /\ x \div 100 \in Nat
                     /\ 100 * (x \div 100) <= x
                     /\ x < 100 * (x \div 100) + 100
  OBVIOUS
<1> QED
  BY <1>1, <1>2 DEF Commission

\* The commission never exceeds the amount it is taken from.
LEMMA CommissionWithinAmount ==
  ASSUME NEW n \in Nat
  PROVE  Commission(n) <= n
<1>1. CommissionPercent \in 0..100
  BY PricingAssumption
<1>2. n * CommissionPercent <= n * 100
  BY <1>1
<1>3. Commission(n) \in Nat /\ 100 * Commission(n) <= n * CommissionPercent
  BY CommissionIsFloor
<1>4. n * CommissionPercent \in Nat
  BY <1>1
<1> QED
  BY <1>2, <1>3, <1>4

\* "Uses integer floor rounding so cook payout + commission always equals the food
\* subtotal": of computeOrderCommission, for every amount, negative ones counting
\* as 0; and neither part is negative.
THEOREM PayoutAndCommissionAddUp ==
  ASSUME NEW total \in Int
  PROVE  LET parts == ComputeOrderCommission(total)
         IN  /\ parts.commission + parts.cookPayout = NonNegative(total)
             /\ parts.commission \in Nat
             /\ parts.cookPayout \in Nat
<1> DEFINE n == NonNegative(total)
<1>1. n \in Nat
  BY DEF NonNegative
<1>2. Commission(n) \in Nat /\ Commission(n) <= n
  BY <1>1, CommissionIsFloor, CommissionWithinAmount
<1> QED
  BY <1>1, <1>2 DEF ComputeOrderCommission

\* The views of an order, which know the totals of its row only, show the platform
\* fee that the checkout computed from the items.
THEOREM ViewsRecoverTheFee ==
  ASSUME NEW itemsTotal \in Nat
  PROVE  CommissionFields(PricingFor(itemsTotal)).commission = PricingFor(itemsTotal).platformFee
<1> DEFINE order == PricingFor(itemsTotal)
<1>1. DeliveryFee \in Nat
  BY PricingAssumption
<1>2. order.totalAmount = itemsTotal + DeliveryFee /\ order.deliveryFee = DeliveryFee
  BY DEF PricingFor
<1>3. OrderFoodSubtotal(order) = itemsTotal
  BY <1>1, <1>2 DEF OrderFoodSubtotal, NonNegative
<1>4. order.platformFee = ComputeOrderCommission(itemsTotal).commission
  BY DEF PricingFor
<1> QED
  BY <1>3, <1>4 DEF CommissionFields

\* Rounding once, over a sum, takes at least what rounding each part takes, and at
\* most 1 more for two parts.
THEOREM RoundingOnceTakesMore ==
  ASSUME NEW m \in Nat, NEW n \in Nat
  PROVE  /\ Commission(m) + Commission(n) <= Commission(m + n)
         /\ Commission(m + n) <= Commission(m) + Commission(n) + 1
<1> DEFINE p == CommissionPercent
           a == Commission(m)
           b == Commission(n)
           c == Commission(m + n)
           x == m * p
           y == n * p
<1>1. p \in Nat /\ x \in Nat /\ y \in Nat
  BY PricingAssumption
<1>2. a \in Nat /\ 100 * a <= x /\ x < 100 * a + 100
  BY CommissionIsFloor
<1>3. b \in Nat /\ 100 * b <= y /\ y < 100 * b + 100
  BY CommissionIsFloor
<1>4. m + n \in Nat
  OBVIOUS
<1>5. c \in Nat /\ 100 * c <= (m + n) * p /\ (m + n) * p < 100 * c + 100
  BY <1>4, CommissionIsFloor
<1>6. (m + n) * p = x + y
  BY <1>1
<1> HIDE DEF a, b, c, x, y
<1>7. a + b <= c /\ c <= a + b + 1
  BY <1>1, <1>2, <1>3, <1>5, <1>6
<1> QED
  BY <1>7 DEF a, b, c

(***************************************************************************)
(* The sums of the model                                                   *)
(***************************************************************************)

\* What each item adds to the sum over the items.
LinePrices(items) == [d \in DOMAIN items |-> items[d].quantity * items[d].price]

\* The sum over the items is a sum in the sense above.
LEMMA ItemsTotalIsSum ==
  ASSUME NEW items, IsFiniteSet(DOMAIN items)
  PROVE  \E g : /\ SumsOver(g, LinePrices(items), SUBSET DOMAIN items)
                /\ ItemsTotal(items) = g[DOMAIN items]
<1> DEFINE F(h) == [s \in SUBSET DOMAIN items |->
                      IF s = {} THEN 0
                      ELSE LET x == CHOOSE x \in s : TRUE
                           IN  items[x].quantity * items[x].price + h[s \ {x}]]
           iter == CHOOSE h : h = F(h)
<1>1. ASSUME NEW h PROVE SumsOver(h, LinePrices(items), SUBSET DOMAIN items) <=> h = F(h)
  BY SomeIsMember DEF SumsOver, LinePrices, Some
<1>2. PICK g : SumsOver(g, LinePrices(items), SUBSET DOMAIN items)
  BY SumsExist
<1>3. iter = F(iter)
  <2> HIDE DEF F
  <2> QED
    BY <1>1, <1>2
<1>4. ItemsTotal(items) = iter[DOMAIN items]
  BY DEF ItemsTotal, MapThenSumSet, MapThenFoldSet
<1> QED
  BY <1>1, <1>3, <1>4

\* So is a sum over orders.
LEMMA SumIsSum ==
  ASSUME NEW ids, IsFiniteSet(ids), NEW field
  PROVE  \E g : /\ SumsOver(g, [o \in ids |-> orders[o][field]], SUBSET ids)
                /\ Sum(ids, field) = g[ids]
<1> DEFINE w == [o \in ids |-> orders[o][field]]
           F(h) == [s \in SUBSET ids |->
                      IF s = {} THEN 0
                      ELSE LET x == CHOOSE x \in s : TRUE
                           IN  orders[x][field] + h[s \ {x}]]
           iter == CHOOSE h : h = F(h)
<1>1. ASSUME NEW h PROVE SumsOver(h, w, SUBSET ids) <=> h = F(h)
  BY SomeIsMember DEF SumsOver, Some
<1>2. PICK g : SumsOver(g, w, SUBSET ids)
  <2> HIDE DEF w
  <2> QED
    BY SumsExist
<1>3. iter = F(iter)
  <2> HIDE DEF F
  <2> QED
    BY <1>1, <1>2
<1>4. Sum(ids, field) = iter[ids]
  BY DEF Sum, MapThenSumSet, MapThenFoldSet
<1> QED
  BY <1>1, <1>3, <1>4

\* And the commission that the paid orders show.
LEMMA CommissionShownIsSum ==
  ASSUME NEW ids, IsFiniteSet(Paid(ids))
  PROVE  \E g : /\ SumsOver(g, [o \in Paid(ids) |-> CommissionFields(orders[o]).commission],
                            SUBSET Paid(ids))
                /\ CommissionShown(ids) = g[Paid(ids)]
<1> DEFINE paid == Paid(ids)
           w == [o \in paid |-> CommissionFields(orders[o]).commission]
           F(h) == [s \in SUBSET paid |->
                      IF s = {} THEN 0
                      ELSE LET x == CHOOSE x \in s : TRUE
                           IN  CommissionFields(orders[x]).commission + h[s \ {x}]]
           iter == CHOOSE h : h = F(h)
<1>1. ASSUME NEW h PROVE SumsOver(h, w, SUBSET paid) <=> h = F(h)
  <2> HIDE DEF paid
  <2> QED
    BY SomeIsMember DEF SumsOver, Some
<1>2. PICK g : SumsOver(g, w, SUBSET paid)
  <2> HIDE DEF w
  <2> QED
    BY SumsExist
<1>3. iter = F(iter)
  <2> HIDE DEF F
  <2> QED
    BY <1>1, <1>2
<1>4. CommissionShown(ids) = iter[paid]
  BY DEF CommissionShown, MapThenSumSet, MapThenFoldSet
<1> QED
  BY <1>1, <1>3, <1>4

\* The items of an order are finitely many, and what they cost is a natural number.
LEMMA ItemsTotalIsNat ==
  ASSUME NEW items \in Items
  PROVE  ItemsTotal(items) \in Nat
<1>1. PICK D \in SUBSET Dishes : items \in [D -> Item]
  BY DEF Items
<1>2. IsFiniteSet(D) /\ DOMAIN items = D
  BY <1>1, ReceiptsAssumption, FS_Subset
<1>3. LinePrices(items) \in [D -> Nat]
  <2>1. ASSUME NEW d \in D PROVE items[d].quantity * items[d].price \in Nat
    <3>1. items[d].quantity \in Nat /\ items[d].price \in Nat
      BY <1>1, ReceiptsAssumption DEF Item
    <3> QED
      BY <3>1
  <2> QED
    BY <1>2, <2>1 DEF LinePrices
<1>4. PICK g : /\ SumsOver(g, LinePrices(items), SUBSET DOMAIN items)
               /\ ItemsTotal(items) = g[DOMAIN items]
  BY <1>2, ItemsTotalIsSum
<1>5. \A s \in SUBSET D : g[s] \in Nat
  BY <1>2, <1>3, <1>4, SumsAreNat
<1> QED
  BY <1>2, <1>4, <1>5

\* The items of one cook are items.
LEMMA ItemsForAreItems ==
  ASSUME NEW items \in Items, NEW c
  PROVE  ItemsFor(items, c) \in Items
<1>1. PICK D \in SUBSET Dishes : items \in [D -> Item]
  BY DEF Items
<1> DEFINE E == {x \in D : CookOf[x] = c}
<1>2. E \in SUBSET Dishes /\ ItemsFor(items, c) \in [E -> Item]
  BY <1>1 DEF ItemsFor
<1> QED
  BY <1>2 DEF Items

(***************************************************************************)
(* The order rows of a checkout                                            *)
(***************************************************************************)

\* What a checkout computes for the order of one cook.
LEMMA NewOrderAmounts ==
  ASSUME NEW r, r.items \in Items, NEW o \in DOMAIN NewOrders(r)
  PROVE  LET order == NewOrders(r)[o]
         IN  /\ order = [items |-> ItemsFor(r.items, o[2]),
                         totalAmount |-> ItemsTotal(order.items) + DeliveryFee,
                         deliveryFee |-> DeliveryFee, discountAmount |-> 0,
                         paid |-> FALSE, patched |-> FALSE]
             /\ order.items \in Items
<1> DEFINE items == ItemsFor(r.items, o[2])
           row == [items |-> items, totalAmount |-> ItemsTotal(items) + DeliveryFee,
                   deliveryFee |-> DeliveryFee, discountAmount |-> 0,
                   paid |-> FALSE, patched |-> FALSE]
<1>1. [d \in DOMAIN items |-> ItemRow(items[d], d)] = items
  BY DEF ItemRow, ItemsFor
<1>2. NewOrders(r)[o] = row
  <2> HIDE DEF items
  <2> QED
    BY <1>1 DEF NewOrders, ComputePricing, PricingFor, items
<1>3. row.items \in Items
  BY ItemsForAreItems
<1> QED
  BY <1>2, <1>3

\* The ids of these orders.
LEMMA NewOrderIds ==
  ASSUME NEW r, r.cart \in Carts, r.items \in Items
  PROVE  DOMAIN NewOrders(r) \subseteq OrderIds
BY ReceiptsAssumption DEF NewOrders, OrderIds, CooksIn, Items

\* Rows that fit are rows.
LEMMA NewOrdersAreOrders ==
  ASSUME NEW r, r.items \in Items, RowsFit(r), NEW o \in DOMAIN NewOrders(r)
  PROVE  NewOrders(r)[o] \in Order
<1> DEFINE order == NewOrders(r)[o]
<1>1. /\ order = [items |-> ItemsFor(r.items, o[2]),
                  totalAmount |-> ItemsTotal(order.items) + DeliveryFee,
                  deliveryFee |-> DeliveryFee, discountAmount |-> 0,
                  paid |-> FALSE, patched |-> FALSE]
      /\ order.items \in Items
  BY NewOrderAmounts
<1>2. ItemsTotal(order.items) \in Nat /\ DeliveryFee \in Nat /\ MaxInt \in Nat
  BY <1>1, ItemsTotalIsNat, PricingAssumption, ReceiptsAssumption
<1>3. order.totalAmount <= MaxInt
  BY DEF RowsFit, Fits
<1>4. order.totalAmount = ItemsTotal(order.items) + DeliveryFee
  BY <1>1
<1>5. order.totalAmount \in 0..MaxInt /\ DeliveryFee \in 0..MaxInt /\ 0 \in 0..MaxInt
  BY <1>2, <1>3, <1>4
<1>6. order = [items |-> order.items, totalAmount |-> order.totalAmount,
               deliveryFee |-> DeliveryFee, discountAmount |-> 0,
               paid |-> FALSE, patched |-> FALSE]
  <2> HIDE DEF order
  <2> QED
    BY <1>1
<1>7. order.items \in Items /\ FALSE \in BOOLEAN
  BY <1>1
<1> HIDE DEF order
<1>8. [items |-> order.items, totalAmount |-> order.totalAmount,
       deliveryFee |-> DeliveryFee, discountAmount |-> 0,
       paid |-> FALSE, patched |-> FALSE] \in Order
  BY <1>5, <1>7 DEF Order
<1> QED
  BY <1>6, <1>8 DEF order

\* They depend on the cart and the items of a checkout only.
LEMMA SameRows ==
  ASSUME NEW r, NEW q, q.cart = r.cart, q.items = r.items
  PROVE  RowsFit(q) <=> RowsFit(r)
BY DEF RowsFit, NewOrders

(***************************************************************************)
(* Types                                                                   *)
(***************************************************************************)

\* A checkout that is not idle has these fields.
LEMMA ActiveRequest ==
  ASSUME NEW r \in Request, r # Idle
  PROVE  /\ r.phase \in {"ordering", "saving", "committing"}
         /\ r.cart \in Carts /\ r.items \in Items
         /\ r.saveAddress \in BOOLEAN /\ r.defaults \in SUBSET Carts
         /\ r = [phase |-> r.phase, cart |-> r.cart, items |-> r.items,
                 saveAddress |-> r.saveAddress, defaults |-> r.defaults]
BY DEF Request

\* Where no checkout is changed and no row is written, the rows fit as before.
LEMMA RequestMoves ==
  ASSUME TypeInv, NEW s \in Sessions, NEW r \in Request, To(s, r),
         r.phase \in {"saving", "committing"} => RowsFit(r)
  PROVE  /\ requests' \in [Sessions -> Request]
         /\ RequestsFit'
<1>1. requests' \in [Sessions -> Request]
  BY DEF TypeInv, TypeOK, To
<1>2. ASSUME NEW t \in Sessions, requests'[t].phase \in {"saving", "committing"}
      PROVE  RowsFit(requests'[t])
  <2>1. CASE t = s
    BY <1>2, <2>1 DEF TypeInv, TypeOK, To
  <2>2. CASE t # s
    BY <1>2, <2>2 DEF TypeInv, TypeOK, To, RequestsFit
  <2> QED
    BY <2>1, <2>2
<1> QED
  BY <1>1, <1>2 DEF RequestsFit, RowsFit, NewOrders, ComputePricing, Fits

LEMMA InitHasType == Init => TypeInv
BY ReceiptsAssumption DEF Init, TypeInv, TypeOK, RequestsFit, Request, Idle

LEMMA SetPriceKeepsType ==
  ASSUME TypeInv, NEW d \in Dishes, NEW p \in Prices, SetPrice(d, p)
  PROVE  TypeInv'
<1>1. price' \in [Dishes -> Prices]
  BY DEF TypeInv, TypeOK, SetPrice
<1>2. RequestsFit'
  BY DEF TypeInv, SetPrice, RequestsFit, RowsFit, NewOrders, ComputePricing, Fits
<1> QED
  BY <1>1, <1>2 DEF TypeInv, TypeOK, SetPrice

LEMMA PutLineKeepsType ==
  ASSUME TypeInv, NEW d \in Dishes, NEW q \in Quantities, PutLine(d, q)
  PROVE  TypeInv'
<1>1. cart' \in 0..carts' /\ carts' \in 0..MaxCarts
  BY ReceiptsAssumption DEF TypeInv, TypeOK, PutLine
<1>2. DOMAIN lines' \subseteq Dishes /\ lines' \in [DOMAIN lines' -> Quantities]
  BY DEF TypeInv, TypeOK, PutLine
<1>3. RequestsFit'
  BY DEF TypeInv, PutLine, RequestsFit, RowsFit, NewOrders, ComputePricing, Fits
<1> QED
  BY <1>1, <1>2, <1>3 DEF TypeInv, TypeOK, PutLine

LEMMA ResolveKeepsType ==
  ASSUME TypeInv, NEW s \in Sessions, NEW saveAddress \in BOOLEAN,
         ResolveCheckoutGroups(s, saveAddress)
  PROVE  TypeInv'
<1> DEFINE items == [d \in DOMAIN lines |-> [quantity |-> lines[d], price |-> price[d]]]
           r == [phase |-> "ordering", cart |-> cart, items |-> items,
                 saveAddress |-> saveAddress, defaults |-> {}]
<1>1. items \in [DOMAIN lines -> Item] /\ DOMAIN lines \in SUBSET Dishes
  BY DEF TypeInv, TypeOK, Item
<1>2. items \in Items
  BY <1>1 DEF Items
<1>3. cart \in Carts
  BY ReceiptsAssumption DEF TypeInv, TypeOK, Carts, ResolveCheckoutGroups
<1>4. r \in Request /\ r.phase = "ordering"
  <2> HIDE DEF items
  <2> QED
    BY <1>2, <1>3 DEF Request
<1>5. To(s, r)
  BY DEF ResolveCheckoutGroups
<1>6. requests' \in [Sessions -> Request] /\ RequestsFit'
  <2> HIDE DEF r
  <2> QED
    BY <1>4, <1>5, RequestMoves
<1> QED
  BY <1>6 DEF TypeInv, TypeOK, ResolveCheckoutGroups

LEMMA CreateOrdersKeepsType ==
  ASSUME TypeInv, NEW s \in Sessions, CreateOrders(s)
  PROVE  TypeInv'
<1> DEFINE r == requests[s]
           q == [r EXCEPT !.phase = "saving"]
<1>1. r \in Request /\ r # Idle
  BY DEF TypeInv, TypeOK, CreateOrders, Idle
<1>2. q = [phase |-> "saving", cart |-> r.cart, items |-> r.items,
           saveAddress |-> r.saveAddress, defaults |-> r.defaults]
  <2> HIDE DEF r
  <2> QED
    BY <1>1, ActiveRequest
<1>3. q \in Request /\ q.cart = r.cart /\ q.items = r.items
  <2> HIDE DEF r, q
  <2> QED
    BY <1>1, <1>2, ActiveRequest DEF Request
<1>4. CASE RowsFit(r)
  <2>1. To(s, q) /\ RowsFit(q)
    <3>1. To(s, q)
      BY <1>4 DEF CreateOrders
    <3> HIDE DEF r, q
    <3> QED
      BY <1>3, <1>4, <3>1, SameRows
  <2>2. requests' \in [Sessions -> Request] /\ RequestsFit'
    <3> HIDE DEF r, q
    <3> QED
      BY <1>3, <2>1, RequestMoves
  <2> QED
    BY <2>2 DEF TypeInv, TypeOK, CreateOrders
<1>5. CASE ~RowsFit(r)
  <2>1. To(s, Idle) /\ Idle \in Request /\ Idle.phase = "idle"
    BY <1>5 DEF CreateOrders, Request, Idle
  <2>2. requests' \in [Sessions -> Request] /\ RequestsFit'
    BY <2>1, RequestMoves
  <2> QED
    BY <2>2 DEF TypeInv, TypeOK, CreateOrders
<1> QED
  BY <1>4, <1>5

LEMMA ClearDefaultsKeepsType ==
  ASSUME TypeInv, NEW s \in Sessions, ClearDefaults(s)
  PROVE  TypeInv'
<1> DEFINE r == requests[s]
           found == IF r.saveAddress THEN {a.cart : a \in {x \in addresses : x.isDefault}}
                    ELSE {}
           q == [r EXCEPT !.phase = "committing", !.defaults = found]
<1>1. r \in Request /\ r # Idle
  BY DEF TypeInv, TypeOK, ClearDefaults, Idle
<1>2. found \in SUBSET Carts
  BY DEF TypeInv, TypeOK, Address
<1>3. q = [phase |-> "committing", cart |-> r.cart, items |-> r.items,
           saveAddress |-> r.saveAddress, defaults |-> found]
  <2>1. r = [phase |-> r.phase, cart |-> r.cart, items |-> r.items,
             saveAddress |-> r.saveAddress, defaults |-> r.defaults]
    <3> HIDE DEF r
    <3> QED
      BY <1>1, ActiveRequest
  <2>2. PICK x : x = [r EXCEPT !.phase = "committing"]
    OBVIOUS
  <2>3. x = [phase |-> "committing", cart |-> r.cart, items |-> r.items,
             saveAddress |-> r.saveAddress, defaults |-> r.defaults]
    <3> HIDE DEF r
    <3> QED
      BY <2>1, <2>2
  <2>4. q = [x EXCEPT !.defaults = found]
    <3> HIDE DEF r, found
    <3> QED
      BY <2>2
  <2> HIDE DEF r, found, q
  <2> QED
    BY <2>3, <2>4
<1>4. q \in Request /\ q.cart = r.cart /\ q.items = r.items
  <2> HIDE DEF r, found, q
  <2> QED
    BY <1>1, <1>2, <1>3, ActiveRequest DEF Request
<1>5. RowsFit(r)
  BY DEF TypeInv, RequestsFit, ClearDefaults
<1>6. To(s, q)
  BY DEF ClearDefaults
<1>7. requests' \in [Sessions -> Request] /\ RequestsFit'
  <2> HIDE DEF r, found, q
  <2> QED
    BY <1>4, <1>5, <1>6, SameRows, RequestMoves
<1> QED
  BY <1>7 DEF TypeInv, TypeOK, ClearDefaults

LEMMA CommitKeepsType ==
  ASSUME TypeInv, NEW s \in Sessions, CommitCheckout(s)
  PROVE  TypeInv'
<1> DEFINE r == requests[s]
<1>1. r \in Request /\ r # Idle /\ RowsFit(r)
  BY DEF TypeInv, TypeOK, RequestsFit, CommitCheckout, Idle
<1>2. r.cart \in Carts /\ r.items \in Items
  <2> HIDE DEF r
  <2> QED
    BY <1>1, ActiveRequest
<1>3. Idle \in Request /\ Idle.phase = "idle" /\ To(s, Idle)
  BY DEF CommitCheckout, Request, Idle
<1>4. requests' \in [Sessions -> Request] /\ RequestsFit'
  BY <1>3, RequestMoves
<1>5. CASE CartStillThere(r)
  <2>1. DOMAIN orders' = DOMAIN orders \cup DOMAIN NewOrders(r)
    BY <1>5 DEF CommitCheckout
  <2>2. DOMAIN orders' \subseteq OrderIds
    <3> HIDE DEF r
    <3> QED
      BY <1>2, <2>1, NewOrderIds DEF TypeInv, TypeOK
  <2>3. ASSUME NEW o \in DOMAIN orders' PROVE orders'[o] \in Order
    <3>1. CASE o \in DOMAIN NewOrders(r)
      <4>1. orders'[o] = NewOrders(r)[o]
        BY <1>5, <3>1 DEF CommitCheckout
      <4> HIDE DEF r
      <4> QED
        BY <1>1, <1>2, <3>1, <4>1, NewOrdersAreOrders
    <3>2. CASE o \notin DOMAIN NewOrders(r)
      <4>1. orders'[o] = orders[o] /\ o \in DOMAIN orders
        BY <1>5, <3>2 DEF CommitCheckout
      <4> QED
        BY <4>1 DEF TypeInv, TypeOK
    <3> QED
      BY <3>1, <3>2
  <2>4. orders' = [o \in DOMAIN orders' |-> orders'[o]]
    BY <1>5 DEF CommitCheckout
  <2>5. orders' \in [DOMAIN orders' -> Order]
    BY <2>3, <2>4
  <2>6. addresses' \subseteq Address
    <3>1. addresses' = SavedAddresses(r)
      BY <1>5 DEF CommitCheckout
    <3>2. ASSUME NEW a \in addresses, NEW b \in BOOLEAN
          PROVE  [a EXCEPT !.isDefault = b] \in Address
      BY DEF TypeInv, TypeOK, Address
    <3>3. ASSUME NEW a \in addresses
          PROVE  (a.isDefault /\ a.cart \notin r.defaults) \in BOOLEAN
      OBVIOUS
    <3>4. [cart |-> r.cart, isDefault |-> TRUE] \in Address
      BY <1>2 DEF Address
    <3> HIDE DEF r
    <3> QED
      BY <3>1, <3>2, <3>3, <3>4 DEF SavedAddresses
  <2>7. cart' \in 0..carts' /\ carts' \in 0..MaxCarts
    BY <1>5, ReceiptsAssumption DEF CommitCheckout, TypeInv, TypeOK
  <2>8. DOMAIN lines' \subseteq Dishes /\ lines' \in [DOMAIN lines' -> Quantities]
    BY <1>5 DEF CommitCheckout, TypeInv, TypeOK
  <2> QED
    BY <1>4, <2>2, <2>5, <2>6, <2>7, <2>8 DEF TypeInv, TypeOK, CommitCheckout
<1>6. CASE ~CartStillThere(r)
  BY <1>4, <1>6 DEF TypeInv, TypeOK, CommitCheckout
<1> QED
  BY <1>5, <1>6

\* What happens to an order afterwards writes one of its fields.
LEMMA OrderWriteKeepsType ==
  ASSUME TypeInv, NEW o \in DOMAIN orders, NEW x \in Order, orders' = [orders EXCEPT ![o] = x],
         UNCHANGED <<price, cart, lines, carts, addresses, requests>>
  PROVE  TypeInv'
<1>1. DOMAIN orders' = DOMAIN orders /\ orders' \in [DOMAIN orders -> Order]
  BY DEF TypeInv, TypeOK
<1>2. RequestsFit'
  BY DEF TypeInv, RequestsFit, RowsFit, NewOrders, ComputePricing, Fits
<1> QED
  BY <1>1, <1>2 DEF TypeInv, TypeOK

LEMMA PaymentTurnsKeepsType ==
  ASSUME TypeInv, NEW o \in DOMAIN orders, PaymentTurns(o)
  PROVE  TypeInv'
<1> DEFINE x == [orders[o] EXCEPT !.paid = ~@]
<1>1. orders[o] \in Order
  BY DEF TypeInv, TypeOK
<1>2. x \in Order
  BY <1>1 DEF Order
<1>3. orders' = [orders EXCEPT ![o] = x]
  BY DEF PaymentTurns
<1>4. UNCHANGED <<price, cart, lines, carts, addresses, requests>>
  BY DEF PaymentTurns
<1> HIDE DEF x
<1> QED
  BY <1>2, <1>3, <1>4, OrderWriteKeepsType

LEMMA PatchKeepsType ==
  ASSUME TypeInv, NEW o \in DOMAIN orders, NEW n \in Amounts,
         NEW field \in {"totalAmount", "deliveryFee", "discountAmount"},
         PatchOrderByAdmin(o, field, n)
  PROVE  TypeInv'
<1> DEFINE x == [orders[o] EXCEPT ![field] = n, !.patched = TRUE]
<1>1. orders[o] \in Order
  BY DEF TypeInv, TypeOK
<1>2. n \in 0..MaxInt
  <2>1. n \in Nat /\ MaxInt \in Nat
    BY ReceiptsAssumption
  <2>2. n <= MaxInt
    BY DEF PatchOrderByAdmin, Fits
  <2> QED
    BY <2>1, <2>2
<1>3. x \in Order
  <2>1. CASE field = "totalAmount"
    BY <1>1, <1>2, <2>1 DEF Order
  <2>2. CASE field = "deliveryFee"
    BY <1>1, <1>2, <2>2 DEF Order
  <2>3. CASE field = "discountAmount"
    BY <1>1, <1>2, <2>3 DEF Order
  <2> QED
    BY <2>1, <2>2, <2>3
<1>4. orders' = [orders EXCEPT ![o] = x]
  BY DEF PatchOrderByAdmin
<1>5. UNCHANGED <<price, cart, lines, carts, addresses, requests>>
  BY DEF PatchOrderByAdmin
<1> HIDE DEF x
<1> QED
  BY <1>3, <1>4, <1>5, OrderWriteKeepsType

LEMMA StepKeepsType == TypeInv /\ [Next]_vars => TypeInv'
<1> SUFFICES ASSUME TypeInv, [Next]_vars PROVE TypeInv'
  OBVIOUS
<1>1. ASSUME NEW d \in Dishes, NEW p \in Prices, SetPrice(d, p) PROVE TypeInv'
  BY <1>1, SetPriceKeepsType
<1>2. ASSUME NEW d \in Dishes, NEW q \in Quantities, PutLine(d, q) PROVE TypeInv'
  BY <1>2, PutLineKeepsType
<1>3. ASSUME NEW s \in Sessions, NEW b \in BOOLEAN, ResolveCheckoutGroups(s, b) PROVE TypeInv'
  BY <1>3, ResolveKeepsType
<1>4. ASSUME NEW s \in Sessions, CreateOrders(s) PROVE TypeInv'
  BY <1>4, CreateOrdersKeepsType
<1>5. ASSUME NEW s \in Sessions, ClearDefaults(s) PROVE TypeInv'
  BY <1>5, ClearDefaultsKeepsType
<1>6. ASSUME NEW s \in Sessions, CommitCheckout(s) PROVE TypeInv'
  BY <1>6, CommitKeepsType
<1>7. ASSUME NEW o \in DOMAIN orders, PaymentTurns(o) PROVE TypeInv'
  BY <1>7, PaymentTurnsKeepsType
<1>8. ASSUME NEW o \in DOMAIN orders, NEW n \in Amounts,
             NEW field \in {"totalAmount", "deliveryFee", "discountAmount"},
             PatchOrderByAdmin(o, field, n)
      PROVE  TypeInv'
  BY <1>8, PatchKeepsType
<1>9. CASE UNCHANGED vars
  BY <1>9 DEF vars, TypeInv, TypeOK, RequestsFit, RowsFit, NewOrders, ComputePricing, Fits
<1> QED
  BY <1>1, <1>2, <1>3, <1>4, <1>5, <1>6, <1>7, <1>8, <1>9 DEF Next

\* Every order row fits its columns, and every sum over items is a natural number.
THEOREM TypesCorrectness == Spec => []TypeInv
<1>1. Init => TypeInv
  BY InitHasType
<1>2. TypeInv /\ [Next]_vars => TypeInv'
  BY StepKeepsType
<1> QED
  BY <1>1, <1>2, PTL DEF Spec

\* The theorem for the type invariant alone.
THEOREM TypeCorrectness == Spec => []TypeOK
<1>1. TypeInv => TypeOK
  BY DEF TypeInv
<1> QED
  BY <1>1, TypesCorrectness, PTL

(***************************************************************************)
(* Amounts                                                                 *)
(***************************************************************************)

\* Whatever does not touch the orders keeps their amounts.
LEMMA SameOrdersKeepAmounts ==
  ASSUME AmountsInv, UNCHANGED orders
  PROVE  AmountsInv'
BY DEF AmountsInv

\* A checkout writes the amounts it computed, and no others.
LEMMA CommitKeepsAmounts ==
  ASSUME TypeInv, AmountsInv, NEW s \in Sessions, CommitCheckout(s)
  PROVE  AmountsInv'
<1> DEFINE r == requests[s]
<1>1. CASE CartStillThere(r)
  <2>1. r.items \in Items
    <3>1. r \in Request /\ r # Idle
      BY DEF TypeInv, TypeOK, CommitCheckout, Idle
    <3> HIDE DEF r
    <3> QED
      BY <3>1, ActiveRequest
  <2>2. ASSUME NEW o \in DOMAIN orders', ~orders'[o].patched
        PROVE  /\ orders'[o].totalAmount = ItemsTotal(orders'[o].items) + DeliveryFee
               /\ orders'[o].deliveryFee = DeliveryFee
    <3>1. CASE o \in DOMAIN NewOrders(r)
      <4>1. orders'[o] = NewOrders(r)[o]
        BY <1>1, <3>1 DEF CommitCheckout
      <4> HIDE DEF r
      <4>2. NewOrders(r)[o] =
              [items |-> ItemsFor(r.items, o[2]),
               totalAmount |-> ItemsTotal(NewOrders(r)[o].items) + DeliveryFee,
               deliveryFee |-> DeliveryFee, discountAmount |-> 0,
               paid |-> FALSE, patched |-> FALSE]
        BY <2>1, <3>1, NewOrderAmounts
      <4>3. /\ NewOrders(r)[o].totalAmount = ItemsTotal(NewOrders(r)[o].items) + DeliveryFee
            /\ NewOrders(r)[o].deliveryFee = DeliveryFee
        BY <4>2
      <4> QED
        BY <4>1, <4>3
    <3>2. CASE o \notin DOMAIN NewOrders(r)
      <4>1. orders'[o] = orders[o] /\ o \in DOMAIN orders
        BY <1>1, <3>2 DEF CommitCheckout
      <4> QED
        BY <2>2, <4>1 DEF AmountsInv
    <3> QED
      BY <3>1, <3>2
  <2> QED
    BY <2>2 DEF AmountsInv
<1>2. CASE ~CartStillThere(r)
  BY <1>2, SameOrdersKeepAmounts DEF CommitCheckout
<1> QED
  BY <1>1, <1>2

LEMMA PaymentTurnsKeepsAmounts ==
  ASSUME TypeInv, AmountsInv, NEW o \in DOMAIN orders, PaymentTurns(o)
  PROVE  AmountsInv'
<1>1. orders[o] \in Order /\ orders \in [DOMAIN orders -> Order]
  BY DEF TypeInv, TypeOK
<1>2. DOMAIN orders' = DOMAIN orders
  BY DEF PaymentTurns
<1>3. ASSUME NEW x \in DOMAIN orders
      PROVE  /\ orders'[x].items = orders[x].items
             /\ orders'[x].totalAmount = orders[x].totalAmount
             /\ orders'[x].deliveryFee = orders[x].deliveryFee
             /\ orders'[x].patched = orders[x].patched
  BY <1>1 DEF PaymentTurns, Order
<1> QED
  BY <1>2, <1>3 DEF AmountsInv

LEMMA PatchKeepsAmounts ==
  ASSUME TypeInv, AmountsInv, NEW o \in DOMAIN orders, NEW n \in Amounts,
         NEW field \in {"totalAmount", "deliveryFee", "discountAmount"},
         PatchOrderByAdmin(o, field, n)
  PROVE  AmountsInv'
<1>1. orders[o] \in Order /\ orders \in [DOMAIN orders -> Order]
  BY DEF TypeInv, TypeOK
<1>2. DOMAIN orders' = DOMAIN orders
  BY DEF PatchOrderByAdmin
<1>3. orders'[o].patched
  BY <1>1 DEF PatchOrderByAdmin, Order
<1>4. ASSUME NEW x \in DOMAIN orders, x # o PROVE orders'[x] = orders[x]
  BY <1>1, <1>4 DEF PatchOrderByAdmin
<1> QED
  BY <1>2, <1>3, <1>4 DEF AmountsInv

LEMMA StepKeepsAmounts == TypeInv /\ AmountsInv /\ [Next]_vars => AmountsInv'
<1> SUFFICES ASSUME TypeInv, AmountsInv, [Next]_vars PROVE AmountsInv'
  OBVIOUS
<1>1. ASSUME NEW d \in Dishes, NEW p \in Prices, SetPrice(d, p) PROVE UNCHANGED orders
  BY <1>1 DEF SetPrice
<1>2. ASSUME NEW d \in Dishes, NEW q \in Quantities, PutLine(d, q) PROVE UNCHANGED orders
  BY <1>2 DEF PutLine
<1>3. ASSUME NEW s \in Sessions, NEW b \in BOOLEAN, ResolveCheckoutGroups(s, b)
      PROVE  UNCHANGED orders
  BY <1>3 DEF ResolveCheckoutGroups
<1>4. ASSUME NEW s \in Sessions, CreateOrders(s) PROVE UNCHANGED orders
  BY <1>4 DEF CreateOrders
<1>5. ASSUME NEW s \in Sessions, ClearDefaults(s) PROVE UNCHANGED orders
  BY <1>5 DEF ClearDefaults
<1>6. ASSUME NEW s \in Sessions, CommitCheckout(s) PROVE AmountsInv'
  BY <1>6, CommitKeepsAmounts
<1>7. ASSUME NEW o \in DOMAIN orders, PaymentTurns(o) PROVE AmountsInv'
  BY <1>7, PaymentTurnsKeepsAmounts
<1>8. ASSUME NEW o \in DOMAIN orders, NEW n \in Amounts,
             NEW field \in {"totalAmount", "deliveryFee", "discountAmount"},
             PatchOrderByAdmin(o, field, n)
      PROVE  AmountsInv'
  BY <1>8, PatchKeepsAmounts
<1>9. CASE UNCHANGED vars
  BY <1>9, SameOrdersKeepAmounts DEF vars
<1> QED
  BY <1>1, <1>2, <1>3, <1>4, <1>5, <1>6, <1>7, <1>8, <1>9, SameOrdersKeepAmounts DEF Next

\* The amounts of an order that no operator has written are those the checkout
\* computed of the items it keeps, whatever prices become meanwhile.
THEOREM AmountsInvariant == Spec => []AmountsInv
<1>1. Init => AmountsInv
  BY DEF Init, AmountsInv
<1>2. TypeInv /\ AmountsInv /\ [Next]_vars => AmountsInv'
  BY StepKeepsAmounts
<1> QED
  BY <1>1, <1>2, TypesCorrectness, PTL DEF Spec

\* An order that nobody has patched adds up, at the prices its items keep.
THEOREM OrdersAddUp == Spec => []OrderAddsUp
<1>1. AmountsInv => OrderAddsUp
  BY DEF AmountsInv, OrderAddsUp
<1> QED
  BY <1>1, AmountsInvariant, PTL

\* The views of such an order, which have only the totals of its row, show the
\* platform fee the checkout computed from its items.
THEOREM FeesAreRecovered == Spec => []ViewsShowTheFee
<1>1. TypeInv /\ AmountsInv => ViewsShowTheFee
  <2> SUFFICES ASSUME TypeInv, AmountsInv, NEW o \in DOMAIN orders, ~orders[o].patched
               PROVE  CommissionFields(orders[o]).commission =
                        ComputePricing(orders[o].items).platformFee
    BY DEF ViewsShowTheFee
  <2> DEFINE total == ItemsTotal(orders[o].items)
  <2>1. orders[o].items \in Items
    BY DEF TypeInv, TypeOK, Order
  <2>2. total \in Nat
    BY <2>1, ItemsTotalIsNat
  <2>3. orders[o].totalAmount = total + DeliveryFee /\ orders[o].deliveryFee = DeliveryFee
    BY DEF AmountsInv
  <2> HIDE DEF total
  <2>4. CommissionFields(orders[o]) = CommissionFields(PricingFor(total))
    BY <2>3 DEF CommissionFields, OrderFoodSubtotal, PricingFor
  <2>5. CommissionFields(PricingFor(total)).commission = PricingFor(total).platformFee
    BY <2>2, ViewsRecoverTheFee
  <2> QED
    BY <2>4, <2>5 DEF ComputePricing, total
<1> QED
  BY <1>1, TypesCorrectness, AmountsInvariant, PTL

(***************************************************************************)
(* Default addresses                                                       *)
(***************************************************************************)

LEMMA PutLineKeepsAddresses ==
  ASSUME TypeInv, AddressInv, NEW d \in Dishes, NEW q \in Quantities, PutLine(d, q)
  PROVE  AddressInv'
<1>1. carts \in Nat /\ carts' \in Nat /\ carts <= carts' /\ UNCHANGED <<addresses, requests>>
  BY ReceiptsAssumption DEF TypeInv, TypeOK, PutLine
<1>2. \/ cart' = cart
      \/ cart' = carts + 1
  BY DEF PutLine
<1>3. RequestsOfCarts'
  BY <1>1 DEF AddressInv, RequestsOfCarts
<1>4. DefaultsSeen'
  <2> SUFFICES ASSUME NEW s \in Sessions, requests[s].phase = "committing",
                      requests[s].saveAddress, cart' = requests[s].cart,
                      NEW a \in addresses, a.isDefault
               PROVE  a.cart \in requests[s].defaults
    BY <1>1 DEF DefaultsSeen
  <2>1. requests[s] # Idle
    BY DEF Idle
  <2>2. requests[s].cart <= carts
    BY <1>1, <2>1 DEF AddressInv, RequestsOfCarts
  <2>3. cart = requests[s].cart
    BY <1>1, <1>2, <2>2
  <2> QED
    BY <2>3 DEF AddressInv, DefaultsSeen
<1> QED
  BY <1>1, <1>3, <1>4 DEF AddressInv, OneDefault

LEMMA ResolveKeepsAddresses ==
  ASSUME TypeInv, AddressInv, NEW s \in Sessions, NEW saveAddress \in BOOLEAN,
         ResolveCheckoutGroups(s, saveAddress)
  PROVE  AddressInv'
<1>1. /\ UNCHANGED <<cart, carts, addresses>>
      /\ \A t \in Sessions : t # s => requests'[t] = requests[t]
      /\ requests'[s].phase = "ordering" /\ requests'[s].cart = cart
  BY DEF ResolveCheckoutGroups, To, TypeInv, TypeOK
<1>2. cart \in 1..carts
  BY ReceiptsAssumption DEF TypeInv, TypeOK, ResolveCheckoutGroups
<1> QED
  BY <1>1, <1>2 DEF AddressInv, RequestsOfCarts, DefaultsSeen, OneDefault

LEMMA CreateOrdersKeepsAddresses ==
  ASSUME TypeInv, AddressInv, NEW s \in Sessions, CreateOrders(s)
  PROVE  AddressInv'
<1>1. /\ UNCHANGED <<cart, carts, addresses>>
      /\ \A t \in Sessions : t # s => requests'[t] = requests[t]
  BY DEF CreateOrders, To, TypeInv, TypeOK
<1>2. requests[s] # Idle
  BY DEF CreateOrders, Idle
<1>3. \/ requests'[s] = [requests[s] EXCEPT !.phase = "saving"]
      \/ requests'[s] = Idle
  BY DEF CreateOrders, To, TypeInv, TypeOK
<1>4. requests[s].phase = "ordering" /\ requests[s] \in Request
  BY DEF CreateOrders, TypeInv, TypeOK
<1>5. \/ requests'[s].phase = "saving" /\ requests'[s].cart = requests[s].cart
      \/ requests'[s] = Idle
  BY <1>2, <1>3, <1>4 DEF Request
<1>6. requests'[s].phase # "committing"
  BY <1>5 DEF Idle
<1> QED
  BY <1>1, <1>2, <1>5, <1>6 DEF AddressInv, RequestsOfCarts, DefaultsSeen, OneDefault

LEMMA ClearDefaultsKeepsAddresses ==
  ASSUME TypeInv, AddressInv, NEW s \in Sessions, ClearDefaults(s)
  PROVE  AddressInv'
<1> DEFINE r == requests[s]
           found == IF r.saveAddress THEN {a.cart : a \in {x \in addresses : x.isDefault}}
                    ELSE {}
<1>1. /\ UNCHANGED <<cart, carts, addresses>>
      /\ \A t \in Sessions : t # s => requests'[t] = requests[t]
      /\ requests'[s] = [r EXCEPT !.phase = "committing", !.defaults = found]
  BY DEF ClearDefaults, To, TypeInv, TypeOK
<1>2. r # Idle /\ r \in Request
  BY DEF ClearDefaults, Idle, TypeInv, TypeOK
<1>3. /\ requests'[s].cart = r.cart
      /\ requests'[s].saveAddress = r.saveAddress
      /\ requests'[s].defaults = found
  <2> HIDE DEF r, found
  <2> QED
    BY <1>1, <1>2 DEF Request
<1>4. r.saveAddress => \A a \in addresses : a.isDefault => a.cart \in found
  OBVIOUS
<1> HIDE DEF found
<1> QED
  BY <1>1, <1>2, <1>3, <1>4 DEF AddressInv, RequestsOfCarts, DefaultsSeen, OneDefault

\* Of two transactions on one cart the one that ends first takes the cart, and the
\* other is rolled back; and what it saved it had seen no other default of.
LEMMA CommitKeepsAddresses ==
  ASSUME TypeInv, AddressInv, NEW s \in Sessions, CommitCheckout(s)
  PROVE  AddressInv'
<1> DEFINE r == requests[s]
<1>1. /\ UNCHANGED carts
      /\ \A t \in Sessions : t # s => requests'[t] = requests[t]
      /\ requests'[s] = Idle
  BY DEF CommitCheckout, To, TypeInv, TypeOK
<1>2. RequestsOfCarts'
  BY <1>1 DEF AddressInv, RequestsOfCarts
<1>3. CASE CartStillThere(r)
  <2>1. cart = r.cart /\ cart' = 0 /\ addresses' = SavedAddresses(r)
    BY <1>3 DEF CommitCheckout, CartStillThere
  <2>2. ASSUME NEW t \in Sessions, requests'[t].phase = "committing"
        PROVE  cart' # requests'[t].cart
    <3>1. requests'[t] # Idle
      BY <2>2 DEF Idle
    <3>2. requests'[t].cart \in 1..carts' /\ carts' \in Nat
      BY <1>1, <1>2, <3>1, ReceiptsAssumption DEF RequestsOfCarts, TypeInv, TypeOK
    <3> QED
      BY <2>1, <3>2
  <2>3. ASSUME NEW a \in addresses, NEW b \in BOOLEAN
        PROVE  /\ [a EXCEPT !.isDefault = b].isDefault = b
               /\ [a EXCEPT !.isDefault = b].cart = a.cart
    BY DEF TypeInv, TypeOK, Address
  <2> DEFINE Old(a) == [a EXCEPT !.isDefault = @ /\ a.cart \notin r.defaults]
             new == [cart |-> r.cart, isDefault |-> TRUE]
  <2>4. ASSUME NEW a \in addresses, Old(a).isDefault
        PROVE  a.isDefault /\ a.cart \notin r.defaults
    BY <2>3, <2>4
  <2>5. ASSUME NEW a \in addresses'
        PROVE  \/ \E b \in addresses : a = Old(b)
               \/ r.saveAddress /\ a = new
    BY <2>1 DEF SavedAddresses
  <2>6. OneDefault'
    <3>1. CASE r.saveAddress
      <4>1. ASSUME NEW a \in addresses PROVE ~Old(a).isDefault
        <5>1. r.phase = "committing"
          BY DEF CommitCheckout
        <5>2. a.isDefault => a.cart \in r.defaults
          BY <2>1, <3>1, <5>1 DEF AddressInv, DefaultsSeen
        <5> HIDE DEF Old
        <5> QED
          BY <2>4, <5>2
      <4>2. ASSUME NEW a \in addresses', a.isDefault PROVE a = new
        <5> HIDE DEF Old, new, r
        <5> QED
          BY <2>5, <4>1, <4>2
      <4> QED
        BY <4>2 DEF OneDefault
    <3>2. CASE ~r.saveAddress
      <4>1. ASSUME NEW a \in addresses', a.isDefault, NEW b \in addresses', b.isDefault
            PROVE  a = b
        <5>1. PICK x \in addresses : a = Old(x)
          BY <2>5, <3>2
        <5>2. PICK y \in addresses : b = Old(y)
          BY <2>5, <3>2
        <5>3. x.isDefault /\ y.isDefault
          <6> HIDE DEF Old
          <6> QED
            BY <2>4, <4>1, <5>1, <5>2
        <5>4. x = y
          BY <5>3 DEF AddressInv, OneDefault
        <5> QED
          BY <5>1, <5>2, <5>4
      <4> QED
        BY <4>1 DEF OneDefault
    <3> QED
      BY <3>1, <3>2
  <2> QED
    BY <1>2, <2>2, <2>6 DEF AddressInv, DefaultsSeen
<1>4. CASE ~CartStillThere(r)
  <2>1. UNCHANGED <<cart, addresses>>
    BY <1>4 DEF CommitCheckout
  <2>2. DefaultsSeen'
    BY <1>1, <2>1 DEF AddressInv, DefaultsSeen, Idle
  <2> QED
    BY <1>2, <2>1, <2>2 DEF AddressInv, OneDefault
<1> QED
  BY <1>3, <1>4

LEMMA SameCartsKeepAddresses ==
  ASSUME AddressInv, UNCHANGED <<cart, carts, addresses, requests>>
  PROVE  AddressInv'
BY DEF AddressInv, RequestsOfCarts, DefaultsSeen, OneDefault

LEMMA StepKeepsAddresses == TypeInv /\ AddressInv /\ [Next]_vars => AddressInv'
<1> SUFFICES ASSUME TypeInv, AddressInv, [Next]_vars PROVE AddressInv'
  OBVIOUS
<1>1. ASSUME NEW d \in Dishes, NEW p \in Prices, SetPrice(d, p) PROVE AddressInv'
  BY <1>1, SameCartsKeepAddresses DEF SetPrice
<1>2. ASSUME NEW d \in Dishes, NEW q \in Quantities, PutLine(d, q) PROVE AddressInv'
  BY <1>2, PutLineKeepsAddresses
<1>3. ASSUME NEW s \in Sessions, NEW b \in BOOLEAN, ResolveCheckoutGroups(s, b)
      PROVE  AddressInv'
  BY <1>3, ResolveKeepsAddresses
<1>4. ASSUME NEW s \in Sessions, CreateOrders(s) PROVE AddressInv'
  BY <1>4, CreateOrdersKeepsAddresses
<1>5. ASSUME NEW s \in Sessions, ClearDefaults(s) PROVE AddressInv'
  BY <1>5, ClearDefaultsKeepsAddresses
<1>6. ASSUME NEW s \in Sessions, CommitCheckout(s) PROVE AddressInv'
  BY <1>6, CommitKeepsAddresses
<1>7. ASSUME NEW o \in DOMAIN orders, PaymentTurns(o) PROVE AddressInv'
  BY <1>7, SameCartsKeepAddresses DEF PaymentTurns
<1>8. ASSUME NEW o \in DOMAIN orders, NEW n \in Amounts,
             NEW field \in {"totalAmount", "deliveryFee", "discountAmount"},
             PatchOrderByAdmin(o, field, n)
      PROVE  AddressInv'
  BY <1>8, SameCartsKeepAddresses DEF PatchOrderByAdmin
<1>9. CASE UNCHANGED vars
  BY <1>9, SameCartsKeepAddresses DEF vars
<1> QED
  BY <1>1, <1>2, <1>3, <1>4, <1>5, <1>6, <1>7, <1>8, <1>9 DEF Next

\* A checkout that is still able to take its cart has seen every default address.
THEOREM AddressInvariant == Spec => []AddressInv
<1>1. Init => AddressInv
  BY DEF Init, AddressInv, RequestsOfCarts, DefaultsSeen, OneDefault, Idle
<1>2. TypeInv /\ AddressInv /\ [Next]_vars => AddressInv'
  BY StepKeepsAddresses
<1> QED
  BY <1>1, <1>2, TypesCorrectness, PTL DEF Spec

\* A customer has at most one default address, however many checkouts run.
THEOREM OneAddressIsDefault == Spec => []OneDefaultAddress
<1>1. AddressInv => OneDefaultAddress
  <2> DEFINE default == {a \in addresses : a.isDefault}
  <2> SUFFICES ASSUME OneDefault PROVE Cardinality(default) <= 1
    BY DEF AddressInv, OneDefaultAddress
  <2>1. CASE default = {}
    BY <2>1, FS_EmptySet
  <2>2. CASE default # {}
    <3>1. PICK a : default = {a}
      BY <2>2 DEF OneDefault
    <3> HIDE DEF default
    <3> QED
      BY <3>1, FS_Singleton
  <2> QED
    BY <2>1, <2>2
<1> QED
  BY <1>1, AddressInvariant, PTL

(***************************************************************************)
(* Dashboards                                                              *)
(***************************************************************************)

\* k are the commissions of the amounts t less the fees f.
CommissionsOf(k, t, f, S) == \A x \in S : f[x] <= t[x] /\ k[x] = Commission(t[x] - f[x])

\* Rounding the sum of the amounts t less the fees f takes at least the sum of the
\* rounded commissions k, and more by less than the number of orders.
LEMMA RoundingOfSums ==
  ASSUME NEW S, IsFiniteSet(S), NEW t \in [S -> Nat], NEW f \in [S -> Nat], NEW k,
         CommissionsOf(k, t, f, S),
         NEW gt, SumsOver(gt, t, SUBSET S),
         NEW gf, SumsOver(gf, f, SUBSET S),
         NEW gk, SumsOver(gk, k, SUBSET S)
  PROVE  /\ gt[S] \in Nat /\ gf[S] \in Nat /\ gk[S] \in Nat /\ gt[S] - gf[S] \in Nat
         /\ gk[S] <= Commission(gt[S] - gf[S])
         /\ S = {} => Commission(gt[S] - gf[S]) = gk[S]
         /\ S # {} => Commission(gt[S] - gf[S]) < gk[S] + Cardinality(S)
<1> DEFINE Natural(s) == gt[s] \in Nat /\ gf[s] \in Nat /\ gk[s] \in Nat /\ gt[s] - gf[s] \in Nat
           Least(s) == gk[s] <= Commission(gt[s] - gf[s])
           OfNothing(s) == s = {} => gt[s] - gf[s] = 0 /\ gk[s] = 0
           Most(s) == s # {} => Commission(gt[s] - gf[s]) < gk[s] + Cardinality(s)
           T == {s \in SUBSET S : Natural(s) /\ Least(s) /\ OfNothing(s) /\ Most(s)}
<1>1. Adds(gt, t, S) /\ Adds(gf, f, S) /\ Adds(gk, k, S)
  BY SumsStep
<1> USE DEF CommissionsOf
<1>2. {} \in T
  <2>1. gt[{}] = 0 /\ gf[{}] = 0 /\ gk[{}] = 0
    <3>1. {} \in SUBSET S
      OBVIOUS
    <3> QED
      BY <1>1, <3>1 DEF Adds
  <2>2. Commission(0) \in Nat
    BY CommissionIsFloor
  <2> QED
    BY <2>1, <2>2
<1>3. ASSUME NEW s \in SUBSET S, s # {}, s \ {Some(s)} \in T PROVE s \in T
  <2> DEFINE x == Some(s)
             u == s \ {x}
             m == gt[u] - gf[u]
             n == t[x] - f[x]
  <2>1. x \in S /\ u \in SUBSET S
    BY <1>3, SomeIsMember
  <2>2. n \in Nat /\ k[x] = Commission(n) /\ t[x] \in Nat /\ f[x] \in Nat
    <3> HIDE DEF x
    <3> QED
      BY <2>1
  <2>3. Natural(u) /\ Least(u) /\ OfNothing(u) /\ Most(u)
    BY <1>3
  <2>4. gt[s] = t[x] + gt[u] /\ gf[s] = f[x] + gf[u] /\ gk[s] = k[x] + gk[u]
    BY <1>1, <1>3 DEF Adds
  <2>5. Cardinality(s) = Cardinality(u) + 1 /\ Cardinality(u) \in Nat
    <3>1. Cardinality(s) \in Nat /\ Cardinality(s) # 0 /\ Cardinality(u) = Cardinality(s) - 1
      BY <1>3, WithoutSome
    <3> HIDE DEF u
    <3> QED
      BY <3>1
  <2>6. m \in Nat
    BY <2>3
  <2> HIDE DEF n, u, x
  <2>7. gt[s] - gf[s] = m + n
    BY <2>2, <2>3, <2>4 DEF n
  <2> HIDE DEF m
  <2>8. /\ Commission(m) + Commission(n) <= Commission(m + n)
        /\ Commission(m + n) <= Commission(m) + Commission(n) + 1
    BY <2>2, <2>6, RoundingOnceTakesMore
  <2>9. Commission(m) \in Nat /\ Commission(n) \in Nat /\ Commission(m + n) \in Nat
    <3>1. m + n \in Nat
      BY <2>2, <2>6
    <3> QED
      BY <2>2, <2>6, <3>1, CommissionIsFloor
  <2>10. gk[u] \in Nat /\ gk[u] <= Commission(m)
    BY <2>3 DEF m
  <2>11. Natural(s)
    BY <2>2, <2>3, <2>4, <2>6, <2>7, <2>9
  <2>12. Least(s)
    BY <2>2, <2>4, <2>7, <2>8, <2>9, <2>10
  <2>13. Most(s)
    <3>1. CASE u = {}
      <4>1. m = 0 /\ gk[u] = 0
        BY <2>3, <3>1 DEF m
      <4>2. m + n = n
        BY <2>2, <4>1
      <4> QED
        BY <2>2, <2>4, <2>5, <2>7, <2>9, <4>1, <4>2
    <3>2. CASE u # {}
      <4>1. Commission(m) < gk[u] + Cardinality(u)
        BY <2>3, <3>2 DEF m
      <4> QED
        BY <2>2, <2>4, <2>5, <2>7, <2>8, <2>9, <2>10, <4>1
    <3> QED
      BY <3>1, <3>2
  <2> QED
    BY <1>3, <2>11, <2>12, <2>13
<1>4. SUBSET S \subseteq T
  <2> HIDE DEF T
  <2> QED
    BY <1>2, <1>3, SubsetsByInduction
<1>5. Natural(S) /\ Least(S) /\ OfNothing(S) /\ Most(S)
  BY <1>4
<1>6. S = {} => Commission(gt[S] - gf[S]) = gk[S]
  <2>1. Commission(0) \in Nat /\ 100 * Commission(0) <= 0 * CommissionPercent
    BY CommissionIsFloor
  <2>2. Commission(0) = 0
    BY <2>1, PricingAssumption
  <2> QED
    BY <1>5, <2>2
<1> QED
  BY <1>5, <1>6

\* The orders are finitely many.
LEMMA OrdersAreFinite ==
  ASSUME TypeInv, NEW ids \in SUBSET DOMAIN orders
  PROVE  IsFiniteSet(ids)
<1>1. IsFiniteSet(Carts) /\ IsFiniteSet(Cooks)
  BY ReceiptsAssumption, FS_Interval DEF Carts
<1>2. IsFiniteSet(OrderIds)
  BY <1>1, FS_Product DEF OrderIds
<1>3. ids \in SUBSET OrderIds
  BY DEF TypeInv, TypeOK
<1> QED
  BY <1>2, <1>3, FS_Subset

\* The dashboard of a cook, who is paid once for all orders, takes no less
\* commission than these orders show, and exceeds it by less than 1 KZT for each.
THEOREM DashboardsRoundOnce == Spec => []DashboardWithinRounding
<1>1. TypeInv /\ AmountsInv => DashboardWithinRounding
  <2> SUFFICES ASSUME TypeInv, AmountsInv, NEW c \in Cooks
               PROVE  LET ids == {o \in OrdersOf(c) : ~orders[o].patched}
                          extra == Dashboard(ids).commission - CommissionShown(ids)
                      IN  extra >= 0 /\ (extra < Cardinality(Paid(ids)) \/ extra = 0)
    BY DEF DashboardWithinRounding
  <2> DEFINE ids == {o \in OrdersOf(c) : ~orders[o].patched}
             paid == Paid(ids)
             t == [o \in paid |-> orders[o]["totalAmount"]]
             f == [o \in paid |-> orders[o]["deliveryFee"]]
             k == [o \in paid |-> CommissionFields(orders[o]).commission]
  <2>1. paid \in SUBSET DOMAIN orders /\ \A o \in paid : ~orders[o].patched
    BY DEF Paid, OrdersOf
  <2>2. IsFiniteSet(paid)
    <3> HIDE DEF paid
    <3> QED
      BY <2>1, OrdersAreFinite
  <2> HIDE DEF ids
  <2>3. ASSUME NEW o \in paid
        PROVE  /\ orders[o].totalAmount \in Nat /\ orders[o].deliveryFee \in Nat
               /\ orders[o].deliveryFee <= orders[o].totalAmount
    <3>1. orders[o] \in Order /\ orders[o].items \in Items
      BY <2>1 DEF TypeInv, TypeOK, Order
    <3>2. orders[o].totalAmount \in Nat /\ orders[o].deliveryFee \in Nat
      BY <3>1, ReceiptsAssumption DEF Order
    <3>3. ItemsTotal(orders[o].items) \in Nat
      BY <3>1, ItemsTotalIsNat
    <3>4. /\ orders[o].totalAmount = ItemsTotal(orders[o].items) + DeliveryFee
          /\ orders[o].deliveryFee = DeliveryFee
      BY <2>1 DEF AmountsInv
    <3> QED
      BY <3>2, <3>3, <3>4
  <2>4. t \in [paid -> Nat] /\ f \in [paid -> Nat]
    BY <2>3
  <2>5. ASSUME NEW o \in paid
        PROVE  f[o] <= t[o] /\ k[o] = Commission(t[o] - f[o])
    BY <2>3 DEF CommissionFields, ComputeOrderCommission, OrderFoodSubtotal, NonNegative
  <2>6. PICK gt : SumsOver(gt, t, SUBSET paid) /\ Sum(paid, "totalAmount") = gt[paid]
    BY <2>2, SumIsSum
  <2>7. PICK gf : SumsOver(gf, f, SUBSET paid) /\ Sum(paid, "deliveryFee") = gf[paid]
    BY <2>2, SumIsSum
  <2>8. PICK gk : SumsOver(gk, k, SUBSET paid) /\ CommissionShown(ids) = gk[paid]
    BY <2>2, CommissionShownIsSum
  <2>9. /\ gt[paid] \in Nat /\ gf[paid] \in Nat /\ gk[paid] \in Nat
        /\ gt[paid] - gf[paid] \in Nat
        /\ gk[paid] <= Commission(gt[paid] - gf[paid])
        /\ paid = {} => Commission(gt[paid] - gf[paid]) = gk[paid]
        /\ paid # {} => Commission(gt[paid] - gf[paid]) < gk[paid] + Cardinality(paid)
    <3> HIDE DEF paid, t, f, k
    <3>1. CommissionsOf(k, t, f, paid)
      BY <2>5 DEF CommissionsOf
    <3>2. SumsOver(gt, t, SUBSET paid)
      BY <2>6
    <3>3. SumsOver(gf, f, SUBSET paid)
      BY <2>7
    <3>4. SumsOver(gk, k, SUBSET paid)
      BY <2>8
    <3> QED
      BY <2>2, <2>4, <3>1, <3>2, <3>3, <3>4, RoundingOfSums
  <2>10. Dashboard(ids).commission = Commission(gt[paid] - gf[paid])
    <3> DEFINE a == gt[paid]
               b == gf[paid]
    <3>1. Dashboard(ids) = ComputeCommissionFromAggregateOrders(a, b)
      BY <2>6, <2>7 DEF Dashboard
    <3>2. a \in Nat /\ b \in Nat /\ a - b \in Nat
      BY <2>9
    <3> HIDE DEF a, b
    <3>3. NonNegative(a - NonNegative(b)) = a - b /\ NonNegative(a - b) = a - b
      BY <3>2 DEF NonNegative
    <3>4. ComputeCommissionFromAggregateOrders(a, b).commission = Commission(a - b)
      BY <3>3 DEF ComputeCommissionFromAggregateOrders, ComputeOrderCommission
    <3> QED
      BY <3>1, <3>4 DEF a, b
  <2>11. Commission(gt[paid] - gf[paid]) \in Nat /\ Cardinality(paid) \in Nat
    BY <2>2, <2>9, CommissionIsFloor, FS_CardinalityType
  <2> HIDE DEF paid
  <2>12. /\ Dashboard(ids).commission - CommissionShown(ids) >= 0
         /\ \/ Dashboard(ids).commission - CommissionShown(ids) < Cardinality(paid)
            \/ Dashboard(ids).commission - CommissionShown(ids) = 0
    BY <2>8, <2>9, <2>10, <2>11
  <2> QED
    BY <2>12 DEF ids, paid
<1> QED
  BY <1>1, TypesCorrectness, AmountsInvariant, PTL
=============================================================================
