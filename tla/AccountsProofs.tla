------------------------------ MODULE AccountsProofs ------------------------------
(***************************************************************************)
(* Theorems about what MCAccounts brings together: the deletion of an      *)
(* account (AccountDeletion), the User rows with their tokens (Accounts)   *)
(* and, with the theorems of ModerationProofs, the three of them.  They    *)
(* hold for any accounts, dishes, orders, phones, passwords and requests.  *)
(***************************************************************************)
EXTENDS MCAccounts, ModerationProofs, Integers, TLAPS

-----------------------------------------------------------------------------
(* AccountDeletion: types *)

LEMMA DeletionRequestShapes ==
  ASSUME Deletion!TypeOK, NEW s \in Sessions
  PROVE  LET r == deletions[s]
         IN  /\ r.phase = "ordering" => /\ r.user \in Users \ Cooks /\ r.cook \in Cooks
                                        /\ r.dishes \subseteq OnOffer
             /\ r.phase = "updating" => r.dish \in OnOffer /\ r.to \in {"offered", "hidden"}
             /\ r.phase = "deleting" => r.account \in Deletion!Accounts
<1>1. deletions[s] \in Deletion!Request
  BY DEF Deletion!TypeOK
<1> QED
  BY <1>1 DEF Deletion!Request, Deletion!Idle

\* Where the sessions are after a step of one of them; a request that may have been
\* disturbed is one that overlapped.
LEMMA DeletionMoves ==
  ASSUME Deletion!TypeOK, NEW s \in Sessions, NEW q, Deletion!To(s, q)
  PROVE  /\ deletions'[s] = q
         /\ \A t \in Sessions \ {s} : deletions'[t] = deletions[t]
         /\ q \in Deletion!Request => deletions' \in [Sessions -> Deletion!Request]
         /\ beside' \in BOOLEAN
         /\ ~beside' => ~beside /\ \A t \in Sessions \ {s} : deletions[t] = Deletion!Idle
  BY DEF Deletion!TypeOK, Deletion!To, Deletion!Beside

LEMMA DeletionOneStep ==
  ASSUME Deletion!TypeOK, Deletion!OneStep
  PROVE  /\ UNCHANGED deletions /\ beside' \in BOOLEAN
         /\ ~beside' => ~beside /\ \A t \in Sessions : deletions[t] = Deletion!Idle
  BY DEF Deletion!TypeOK, Deletion!OneStep, Deletion!Beside

LEMMA RestsIdle ==
  /\ Deletion!Idle \in Deletion!Request
  /\ Deletion!Idle.phase = "idle"
  BY DEF Deletion!Request, Deletion!Idle

-----------------------------------------------------------------------------
(* AccountDeletion: what each step keeps *)

\* What a request has checked, as long as requests have not overlapped.
Checked(r) ==
  /\ r.phase = "updating" => SellerOf[r.dish] \notin deleted
  /\ r.phase = "deleting" => Deletion!ActiveOrders(r.account) = {}

\* A step of session s that changes what others have checked is one that overlaps, so
\* it is enough that its own next request is as it should be.
LEMMA CheckedStep ==
  ASSUME Deletion!TypeOK, NEW s \in Sessions, NEW q, Deletion!To(s, q),
         ~beside' /\ q.phase = "updating" => SellerOf[q.dish] \notin deleted',
         ~beside' /\ q.phase = "deleting" => Deletion!ActiveOrders(q.account)' = {}
  PROVE  Deletion!StillWorking' /\ Deletion!StillWithoutOrders'
<1>1. ~beside' => \A t \in Sessions \ {s} : deletions'[t].phase = "idle"
  BY DeletionMoves, RestsIdle
<1>2. deletions'[s] = q
  BY DeletionMoves
<1>3. Deletion!StillWorking'
  BY <1>1, <1>2 DEF Deletion!StillWorking
<1>4. Deletion!StillWithoutOrders'
  BY <1>1, <1>2 DEF Deletion!StillWithoutOrders
<1> QED
  BY <1>3, <1>4

LEMMA CheckedOneStep ==
  ASSUME Deletion!TypeOK, Deletion!OneStep
  PROVE  Deletion!StillWorking' /\ Deletion!StillWithoutOrders'
<1>1. ~beside' => \A t \in Sessions : deletions'[t].phase = "idle"
  BY DeletionOneStep, RestsIdle
<1> QED
  BY <1>1 DEF Deletion!StillWorking, Deletion!StillWithoutOrders

LEMMA CreateDishKeepsInv ==
  ASSUME Deletion!DeletionInv, NEW d \in OnOffer, Deletion!CreateDish(d)
  PROVE  Deletion!DeletionInv'
<1>1. /\ SellerOf[d] \in live /\ offers[d] = "absent"
      /\ offers' = [offers EXCEPT ![d] = "offered"]
      /\ Deletion!OneStep /\ UNCHANGED <<live, deleted, carts, orders>>
  BY DEF Deletion!CreateDish, Deletion!MayWork, Deletion!accounts
<1>2. Deletion!TypeOK
  BY DEF Deletion!DeletionInv
<1>3. Deletion!TypeOK'
  BY <1>1, <1>2, DeletionOneStep DEF Deletion!TypeOK, Deletion!DishState
<1>4. /\ offers'[d] = "offered"
      /\ \A e \in OnOffer \ {d} : offers'[e] = offers[e]
  BY <1>1, <1>2 DEF Deletion!TypeOK
<1>5. Deletion!InCarts(Users \ Cooks) \cup Deletion!Sold \subseteq OnOffer
  BY <1>2 DEF Deletion!TypeOK, Deletion!InCarts, Deletion!Sold, Deletion!Order
<1>6. Deletion!ReferencesHold'
  BY <1>1, <1>4, <1>5 DEF Deletion!DeletionInv, Deletion!ReferencesHold, Deletion!HasRow,
                          Deletion!InCarts, Deletion!Sold
<1>7. Deletion!NothingLeftOnOffer'
  <2> SUFFICES ASSUME ~beside', NEW a \in deleted
               PROVE  /\ \A e \in OnOffer : SellerOf[e] = a /\ offers'[e] \in {"offered", "hidden"}
                                              => offers'[e] = "hidden"
                      /\ a \in Users \ Cooks => carts[a] = {}
    BY <1>1 DEF Deletion!NothingLeftOnOffer, Deletion!DishesOf, Deletion!HasRow
  <2>1. ~beside /\ a \notin live
    BY <1>1, <1>2, DeletionOneStep DEF Deletion!TypeOK
  <2> QED
    BY <1>1, <1>4, <2>1 DEF Deletion!DeletionInv, Deletion!NothingLeftOnOffer,
                            Deletion!DishesOf, Deletion!HasRow
<1> QED
  BY <1>1, <1>2, <1>3, <1>6, <1>7, CheckedOneStep DEF Deletion!DeletionInv

\* A step that leaves the rows alone.
LEMMA RowsLeftAlone ==
  ASSUME Deletion!DeletionInv, UNCHANGED <<live, deleted, offers, carts, orders>>,
         ~beside' => ~beside
  PROVE  /\ Deletion!ReferencesHold' /\ Deletion!NothingLeftOnOffer'
         /\ \A a : Deletion!ActiveOrders(a)' = Deletion!ActiveOrders(a)
<1>1. Deletion!ReferencesHold'
  BY DEF Deletion!DeletionInv, Deletion!ReferencesHold, Deletion!HasRow, Deletion!InCarts,
         Deletion!Sold
<1>2. Deletion!NothingLeftOnOffer'
  BY DEF Deletion!DeletionInv, Deletion!NothingLeftOnOffer, Deletion!DishesOf, Deletion!HasRow
<1>3. \A a : Deletion!ActiveOrders(a)' = Deletion!ActiveOrders(a)
  BY DEF Deletion!ActiveOrders, Deletion!OrdersOf
<1> QED
  BY <1>1, <1>2, <1>3

LEMMA BeginningKeepsInv ==
  ASSUME Deletion!DeletionInv, NEW s \in Sessions, NEW q \in Deletion!Request,
         Deletion!To(s, q), UNCHANGED <<live, deleted, offers, carts, orders>>,
         q.phase = "updating" => SellerOf[q.dish] \notin deleted,
         q.phase = "deleting" => Deletion!ActiveOrders(q.account) = {}
  PROVE  Deletion!DeletionInv'
<1>1. Deletion!TypeOK
  BY DEF Deletion!DeletionInv
<1>2. Deletion!TypeOK'
  BY <1>1, DeletionMoves DEF Deletion!TypeOK
<1>3. ~beside' => ~beside
  BY <1>1, DeletionMoves
<1>4. /\ Deletion!ReferencesHold' /\ Deletion!NothingLeftOnOffer'
      /\ \A a : Deletion!ActiveOrders(a)' = Deletion!ActiveOrders(a)
  BY <1>3, RowsLeftAlone
<1>5. Deletion!StillWorking' /\ Deletion!StillWithoutOrders'
  BY <1>1, <1>4, CheckedStep
<1> QED
  BY <1>2, <1>4, <1>5 DEF Deletion!DeletionInv

LEMMA UpdateDishKeepsInv ==
  ASSUME Deletion!DeletionInv, NEW s \in Sessions, NEW d \in OnOffer,
         NEW to \in {"offered", "hidden"}, Deletion!UpdateDish(s, d, to)
  PROVE  Deletion!DeletionInv'
<1> DEFINE q == [phase |-> "updating", dish |-> d, to |-> to]
<1>1. /\ Deletion!To(s, q) /\ SellerOf[d] \in live
      /\ UNCHANGED <<live, deleted, offers, carts, orders>>
  BY DEF Deletion!UpdateDish, Deletion!MayWork, Deletion!accounts
<1>2. q \in Deletion!Request /\ q.phase = "updating" /\ q.dish = d
  BY DEF Deletion!Request
<1>3. SellerOf[d] \notin deleted
  BY <1>1 DEF Deletion!DeletionInv, Deletion!TypeOK
<1> HIDE DEF q
<1> QED
  BY <1>1, <1>2, <1>3, BeginningKeepsInv

LEMMA CheckoutKeepsInv ==
  ASSUME Deletion!DeletionInv, NEW s \in Sessions, NEW u \in Users \ Cooks, NEW c \in Cooks,
         Deletion!Checkout(s, u, c)
  PROVE  Deletion!DeletionInv'
<1> DEFINE q == [phase |-> "ordering", user |-> u, cook |-> c, dishes |-> carts[u]]
<1>1. Deletion!To(s, q) /\ UNCHANGED <<live, deleted, offers, carts, orders>>
  BY DEF Deletion!Checkout, Deletion!accounts
<1>2. carts[u] \subseteq OnOffer
  BY DEF Deletion!DeletionInv, Deletion!TypeOK
<1>3. q \in Deletion!Request /\ q.phase = "ordering"
  BY <1>2 DEF Deletion!Request
<1> HIDE DEF q
<1> QED
  BY <1>1, <1>3, BeginningKeepsInv

LEMMA DeleteAccountKeepsInv ==
  ASSUME Deletion!DeletionInv, NEW s \in Sessions, NEW a \in Deletion!Accounts,
         Deletion!DeleteAccount(s, a)
  PROVE  Deletion!DeletionInv'
<1> DEFINE q == [phase |-> "deleting", account |-> a]
<1>1. /\ Deletion!To(s, q) /\ Deletion!ActiveOrders(a) = {}
      /\ UNCHANGED <<live, deleted, offers, carts, orders>>
  BY DEF Deletion!DeleteAccount, Deletion!accounts
<1>2. q \in Deletion!Request /\ q.phase = "deleting" /\ q.account = a
  BY DEF Deletion!Request
<1> HIDE DEF q
<1> QED
  BY <1>1, <1>2, BeginningKeepsInv

LEMMA WriteDishKeepsInv ==
  ASSUME Deletion!DeletionInv, NEW s \in Sessions, Deletion!WriteDish(s)
  PROVE  Deletion!DeletionInv'
<1> DEFINE r == deletions[s]
<1>1. /\ r.phase = "updating" /\ Deletion!To(s, Deletion!Idle)
      /\ offers' = IF Deletion!HasRow(r.dish) THEN [offers EXCEPT ![r.dish] = r.to] ELSE offers
      /\ UNCHANGED <<live, deleted, carts, orders>>
  BY DEF Deletion!WriteDish, Deletion!accounts
<1>2. Deletion!TypeOK
  BY DEF Deletion!DeletionInv
<1>3. r.dish \in OnOffer /\ r.to \in {"offered", "hidden"}
  BY <1>1, <1>2, DeletionRequestShapes
<1>4. /\ offers' \in [OnOffer -> Deletion!DishState]
      /\ \A d \in OnOffer : offers'[d] \in {"offered", "hidden"} <=> Deletion!HasRow(d)
      /\ \A d \in OnOffer \ {r.dish} : offers'[d] = offers[d]
  BY <1>1, <1>2, <1>3 DEF Deletion!TypeOK, Deletion!HasRow, Deletion!DishState
<1>5. Deletion!TypeOK'
  BY <1>1, <1>2, <1>4, DeletionMoves, RestsIdle DEF Deletion!TypeOK
<1>6. Deletion!ReferencesHold'
  <2>1. Deletion!InCarts(Users \ Cooks) \cup Deletion!Sold \subseteq OnOffer
    BY <1>2 DEF Deletion!TypeOK, Deletion!InCarts, Deletion!Sold, Deletion!Order
  <2> QED
    BY <1>1, <1>4, <2>1 DEF Deletion!DeletionInv, Deletion!ReferencesHold, Deletion!HasRow,
                            Deletion!InCarts, Deletion!Sold
<1>7. Deletion!NothingLeftOnOffer'
  <2> SUFFICES ASSUME ~beside', NEW a \in deleted
               PROVE  /\ \A e \in OnOffer : SellerOf[e] = a /\ offers'[e] \in {"offered", "hidden"}
                                              => offers'[e] = "hidden"
                      /\ a \in Users \ Cooks => carts[a] = {}
    BY <1>1 DEF Deletion!NothingLeftOnOffer, Deletion!DishesOf, Deletion!HasRow
  <2>1. ~beside /\ SellerOf[r.dish] \notin deleted
    BY <1>1, <1>2, DeletionMoves DEF Deletion!DeletionInv, Deletion!StillWorking
  <2> QED
    BY <1>4, <2>1 DEF Deletion!DeletionInv, Deletion!NothingLeftOnOffer,
                            Deletion!DishesOf, Deletion!HasRow
<1> QED
  BY <1>1, <1>2, <1>5, <1>6, <1>7, CheckedStep, RestsIdle DEF Deletion!DeletionInv

LEMMA DeleteDishKeepsInv ==
  ASSUME Deletion!DeletionInv, NEW d \in OnOffer, Deletion!DeleteDish(d)
  PROVE  Deletion!DeletionInv'
<1>1. /\ d \notin Deletion!InCarts(Users \ Cooks) \cup Deletion!Sold
      /\ offers' = [offers EXCEPT ![d] = "gone"]
      /\ Deletion!OneStep /\ UNCHANGED <<live, deleted, carts, orders>>
  BY DEF Deletion!DeleteDish, Deletion!MayDeleteRow, Deletion!accounts
<1>2. Deletion!TypeOK
  BY DEF Deletion!DeletionInv
<1>3. Deletion!TypeOK'
  BY <1>1, <1>2, DeletionOneStep DEF Deletion!TypeOK, Deletion!DishState
<1>4. /\ offers'[d] = "gone"
      /\ \A e \in OnOffer \ {d} : offers'[e] = offers[e]
  BY <1>1, <1>2 DEF Deletion!TypeOK
<1>5. Deletion!InCarts(Users \ Cooks) \cup Deletion!Sold \subseteq OnOffer
  BY <1>2 DEF Deletion!TypeOK, Deletion!InCarts, Deletion!Sold, Deletion!Order
<1>6. Deletion!ReferencesHold'
  BY <1>1, <1>4, <1>5 DEF Deletion!DeletionInv, Deletion!ReferencesHold, Deletion!HasRow,
                          Deletion!InCarts, Deletion!Sold
<1>7. Deletion!NothingLeftOnOffer'
  <2>1. ~beside' => ~beside
    BY <1>1, <1>2, DeletionOneStep
  <2> QED
    BY <1>1, <1>4, <2>1 DEF Deletion!DeletionInv, Deletion!NothingLeftOnOffer,
                            Deletion!DishesOf, Deletion!HasRow
<1> QED
  BY <1>1, <1>2, <1>3, <1>6, <1>7, CheckedOneStep DEF Deletion!DeletionInv

\* Adding a dish to a cart, and emptying it.
LEMMA CartsKeepInv ==
  ASSUME Deletion!DeletionInv, NEW u \in Users \ Cooks,
         Deletion!ClearCart(u) \/ \E d \in OnOffer : Deletion!AddToCart(u, d)
  PROVE  Deletion!DeletionInv'
<1>1. /\ u \in live
      /\ Deletion!OneStep /\ UNCHANGED <<live, deleted, offers, orders>>
  BY DEF Deletion!ClearCart, Deletion!AddToCart, Deletion!accounts
<1>2. PICK new \in SUBSET OnOffer :
        /\ carts' = [carts EXCEPT ![u] = new]
        /\ \A d \in new : d \in carts[u] \/ Deletion!HasRow(d)
  <2>1. CASE Deletion!ClearCart(u)
    <3>1. carts' = [carts EXCEPT ![u] = {}] /\ {} \in SUBSET OnOffer
      BY <2>1 DEF Deletion!ClearCart
    <3> QED
      BY <3>1
  <2>2. ASSUME NEW d \in OnOffer, Deletion!AddToCart(u, d)
        PROVE  \E new \in SUBSET OnOffer :
                 /\ carts' = [carts EXCEPT ![u] = new]
                 /\ \A e \in new : e \in carts[u] \/ Deletion!HasRow(e)
    <3>1. carts' = [carts EXCEPT ![u] = carts[u] \cup {d}] /\ Deletion!HasRow(d)
      BY <2>2 DEF Deletion!AddToCart, Deletion!HasRow
    <3>2. carts[u] \cup {d} \in SUBSET OnOffer
      BY <2>2 DEF Deletion!DeletionInv, Deletion!TypeOK
    <3> QED
      BY <3>1, <3>2
  <2> QED
    BY <2>1, <2>2
<1>3. Deletion!TypeOK
  BY DEF Deletion!DeletionInv
<1>4. Deletion!TypeOK'
  BY <1>1, <1>2, <1>3, DeletionOneStep DEF Deletion!TypeOK
<1>5. carts'[u] = new /\ \A v \in (Users \ Cooks) \ {u} : carts'[v] = carts[v]
  BY <1>2, <1>3 DEF Deletion!TypeOK
<1>6. Deletion!ReferencesHold'
  BY <1>1, <1>2, <1>5 DEF Deletion!DeletionInv, Deletion!ReferencesHold, Deletion!HasRow,
                          Deletion!InCarts, Deletion!Sold
<1>7. Deletion!NothingLeftOnOffer'
  <2>1. ~beside' => ~beside
    BY <1>1, <1>3, DeletionOneStep
  <2>2. u \notin deleted
    BY <1>1, <1>3 DEF Deletion!TypeOK
  <2> QED
    BY <1>1, <1>5, <2>1, <2>2 DEF Deletion!DeletionInv, Deletion!NothingLeftOnOffer,
                                  Deletion!DishesOf, Deletion!HasRow
<1> QED
  BY <1>1, <1>3, <1>4, <1>6, <1>7, CheckedOneStep DEF Deletion!DeletionInv

\* createFromCart's transaction
LEMMA CreateFromCartKeepsInv ==
  ASSUME Deletion!DeletionInv, NEW s \in Sessions, Deletion!CreateFromCart(s)
  PROVE  Deletion!DeletionInv'
<1> DEFINE r == deletions[s]
<1>1. /\ r.phase = "ordering" /\ Deletion!To(s, Deletion!Idle)
      /\ UNCHANGED <<live, deleted, offers>>
  BY DEF Deletion!CreateFromCart, Deletion!accounts
<1>2. Deletion!TypeOK
  BY DEF Deletion!DeletionInv
<1>3. r.user \in Users \ Cooks /\ r.cook \in Cooks /\ r.dishes \subseteq OnOffer
  BY <1>1, <1>2, DeletionRequestShapes
<1>4. Deletion!StillWorking' /\ Deletion!StillWithoutOrders'
  BY <1>1, <1>2, CheckedStep, RestsIdle
<1>5. ~beside' => ~beside
  BY <1>1, <1>2, DeletionMoves
<1>6. CASE UNCHANGED <<orders, carts>>
  <2>1. Deletion!TypeOK'
    BY <1>1, <1>2, <1>6, DeletionMoves, RestsIdle DEF Deletion!TypeOK
  <2> QED
    BY <1>1, <1>4, <1>5, <1>6, <2>1, RowsLeftAlone DEF Deletion!DeletionInv
<1>7. ASSUME NEW o \in Orders \ DOMAIN orders, \A d \in r.dishes : Deletion!HasRow(d),
             orders' = [x \in DOMAIN orders \cup {o} |->
                          IF x = o
                          THEN [user |-> r.user, cook |-> r.cook, dishes |-> r.dishes,
                                status |-> "ACTIVE"]
                          ELSE orders[x]],
             carts' = [carts EXCEPT ![r.user] = {}]
      PROVE  Deletion!DeletionInv'
  <2>1. /\ DOMAIN orders' = DOMAIN orders \cup {o}
        /\ orders'[o] = [user |-> r.user, cook |-> r.cook, dishes |-> r.dishes,
                         status |-> "ACTIVE"]
        /\ \A x \in DOMAIN orders : orders'[x] = orders[x]
    BY <1>7
  <2>2. orders' \in [DOMAIN orders' -> Deletion!Order]
    <3>1. orders'[o] \in Deletion!Order
      BY <1>3, <2>1 DEF Deletion!Order, Deletion!OrderStatus
    <3>2. \A x \in DOMAIN orders : orders[x] \in Deletion!Order
      BY <1>2 DEF Deletion!TypeOK
    <3> QED
      BY <1>7, <2>1, <3>1, <3>2
  <2>3. /\ carts' \in [Users \ Cooks -> SUBSET OnOffer]
        /\ \A v \in Users \ Cooks : carts'[v] = IF v = r.user THEN {} ELSE carts[v]
    <3>1. {} \in SUBSET OnOffer
      OBVIOUS
    <3> QED
      BY <1>2, <1>7, <3>1 DEF Deletion!TypeOK
  <2>4. Deletion!TypeOK'
    <3>1. DOMAIN orders' \subseteq Orders
      BY <1>2, <1>7, <2>1 DEF Deletion!TypeOK
    <3> QED
      BY <1>1, <1>2, <2>2, <2>3, <3>1, DeletionMoves, RestsIdle DEF Deletion!TypeOK
  <2>5. Deletion!ReferencesHold'
    <3>1. \A d \in Deletion!InCarts(Users \ Cooks)' : d \in Deletion!InCarts(Users \ Cooks)
      BY <2>3 DEF Deletion!InCarts
    <3>2. \A d \in Deletion!Sold' : d \in Deletion!Sold \cup r.dishes
      BY <2>1 DEF Deletion!Sold
    <3> QED
      BY <1>1, <1>7, <3>1, <3>2 DEF Deletion!DeletionInv, Deletion!ReferencesHold,
                                    Deletion!HasRow
  <2>6. Deletion!NothingLeftOnOffer'
    BY <1>1, <1>5, <2>3 DEF Deletion!DeletionInv, Deletion!NothingLeftOnOffer,
                            Deletion!DishesOf, Deletion!HasRow
  <2> QED
    BY <1>4, <2>4, <2>5, <2>6 DEF Deletion!DeletionInv
<1> QED
  BY <1>6, <1>7 DEF Deletion!CreateFromCart

\* Cook, customer and operators move an order on.
LEMMA OrderMovesKeepsInv ==
  ASSUME Deletion!DeletionInv, NEW o \in DOMAIN orders, Deletion!OrderMoves(o)
  PROVE  Deletion!DeletionInv'
<1>1. PICK status \in Deletion!OrderStatus :
        /\ orders' = [orders EXCEPT ![o].status = status]
        /\ Deletion!OneStep /\ UNCHANGED <<live, deleted, offers, carts>>
  BY DEF Deletion!OrderMoves, Deletion!accounts
<1>2. Deletion!TypeOK
  BY DEF Deletion!DeletionInv
<1>3. /\ DOMAIN orders' = DOMAIN orders
      /\ orders' \in [DOMAIN orders -> Deletion!Order]
      /\ \A x \in DOMAIN orders : orders'[x].dishes = orders[x].dishes
  BY <1>1, <1>2 DEF Deletion!TypeOK, Deletion!Order
<1>4. Deletion!TypeOK'
  BY <1>1, <1>2, <1>3, DeletionOneStep DEF Deletion!TypeOK
<1>5. Deletion!ReferencesHold'
  BY <1>1, <1>3 DEF Deletion!DeletionInv, Deletion!ReferencesHold, Deletion!HasRow,
                    Deletion!InCarts, Deletion!Sold
<1>6. Deletion!NothingLeftOnOffer'
  <2>1. ~beside' => ~beside
    BY <1>1, <1>2, DeletionOneStep
  <2> QED
    BY <1>1, <2>1 DEF Deletion!DeletionInv, Deletion!NothingLeftOnOffer,
                      Deletion!DishesOf, Deletion!HasRow
<1> QED
  BY <1>1, <1>2, <1>4, <1>5, <1>6, CheckedOneStep DEF Deletion!DeletionInv

\* The transaction of deleteAccount
LEMMA EraseAccountKeepsInv ==
  ASSUME Deletion!DeletionInv, NEW s \in Sessions, Deletion!EraseAccount(s)
  PROVE  Deletion!DeletionInv'
<1> DEFINE a == deletions[s].account
<1>1. /\ deletions[s].phase = "deleting" /\ Deletion!To(s, Deletion!Idle) /\ UNCHANGED orders
  BY DEF Deletion!EraseAccount
<1>2. Deletion!TypeOK
  BY DEF Deletion!DeletionInv
<1>3. a \in Deletion!Accounts
  BY <1>1, <1>2, DeletionRequestShapes
<1>4. Deletion!StillWorking' /\ Deletion!StillWithoutOrders'
  BY <1>1, <1>2, CheckedStep, RestsIdle
<1>5. ~beside' => ~beside
  BY <1>1, <1>2, DeletionMoves
<1>6. CASE UNCHANGED <<live, deleted, offers, carts>>
  <2>1. Deletion!TypeOK'
    BY <1>1, <1>2, <1>6, DeletionMoves, RestsIdle DEF Deletion!TypeOK
  <2> QED
    BY <1>1, <1>4, <1>5, <1>6, <2>1, RowsLeftAlone DEF Deletion!DeletionInv
<1>7. CASE /\ \A d \in Deletion!DishesOf(a) \ Deletion!Sold :
                d \notin Deletion!InCarts((Users \ Cooks) \ {a}) \cup Deletion!Sold
           /\ carts' = [u \in Users \ Cooks |-> IF u = a THEN {} ELSE carts[u]]
           /\ offers' = [d \in OnOffer |->
                           IF d \notin Deletion!DishesOf(a) THEN offers[d]
                           ELSE IF d \in Deletion!Sold THEN "hidden" ELSE "gone"]
           /\ live' = live \ {a} /\ deleted' = deleted \cup {a}
  <2>1. \A d \in OnOffer : /\ d \notin Deletion!DishesOf(a) => offers'[d] = offers[d]
                           /\ d \in Deletion!DishesOf(a) \cap Deletion!Sold =>
                                offers'[d] = "hidden"
                           /\ d \in Deletion!DishesOf(a) \ Deletion!Sold => offers'[d] = "gone"
    BY <1>7
  <2>2. /\ \A u \in Users \ Cooks : carts'[u] = IF u = a THEN {} ELSE carts[u]
        /\ carts' \in [Users \ Cooks -> SUBSET OnOffer]
    <3>1. \A u \in Users \ Cooks : carts[u] \in SUBSET OnOffer
      BY <1>2 DEF Deletion!TypeOK
    <3>2. {} \in SUBSET OnOffer
      OBVIOUS
    <3> QED
      BY <1>7, <3>1, <3>2
  <2>3. offers' \in [OnOffer -> Deletion!DishState]
    BY <1>2, <1>7 DEF Deletion!TypeOK, Deletion!DishState
  <2>4. Deletion!TypeOK'
    BY <1>1, <1>2, <1>3, <1>7, <2>2, <2>3, DeletionMoves, RestsIdle DEF Deletion!TypeOK
  <2>5. Deletion!ReferencesHold'
    <3> SUFFICES ASSUME NEW d, d \in Deletion!InCarts(Users \ Cooks)' \/ d \in Deletion!Sold'
                 PROVE  offers'[d] \in {"offered", "hidden"}
      BY DEF Deletion!ReferencesHold, Deletion!HasRow
    <3>1. Deletion!Sold' = Deletion!Sold
      BY <1>1 DEF Deletion!Sold
    <3>2. d \in Deletion!InCarts((Users \ Cooks) \ {a}) \cup Deletion!Sold
      BY <2>2, <3>1 DEF Deletion!InCarts
    <3>3. Deletion!InCarts((Users \ Cooks) \ {a}) \subseteq Deletion!InCarts(Users \ Cooks)
      BY DEF Deletion!InCarts
    <3>4. Deletion!HasRow(d)
      BY <3>2, <3>3 DEF Deletion!DeletionInv, Deletion!ReferencesHold
    <3>5. d \in OnOffer
      BY <1>2, <3>2 DEF Deletion!TypeOK, Deletion!InCarts, Deletion!Sold, Deletion!Order
    <3>6. d \in Deletion!DishesOf(a) => d \in Deletion!Sold
      BY <1>7, <3>2
    <3> QED
      BY <2>1, <3>4, <3>5, <3>6 DEF Deletion!HasRow
  <2>6. Deletion!NothingLeftOnOffer'
    <3> SUFFICES ASSUME ~beside', NEW b \in deleted \cup {a}
                 PROVE  /\ \A d \in OnOffer :
                             SellerOf[d] = b /\ offers'[d] \in {"offered", "hidden"}
                               => offers'[d] = "hidden"
                        /\ b \in Users \ Cooks => carts'[b] = {}
      BY <1>7 DEF Deletion!NothingLeftOnOffer, Deletion!DishesOf, Deletion!HasRow
    <3>1. CASE b = a
      BY <2>1, <2>2, <3>1 DEF Deletion!DishesOf, Deletion!HasRow
    <3>2. CASE b # a
      <4>1. b \in deleted /\ ~beside
        BY <1>5, <3>2
      <4>2. \A d \in OnOffer : SellerOf[d] = b => offers'[d] = offers[d]
        BY <2>1, <3>2 DEF Deletion!DishesOf
      <4> QED
        BY <2>2, <3>2, <4>1, <4>2
        DEF Deletion!DeletionInv, Deletion!NothingLeftOnOffer, Deletion!DishesOf,
            Deletion!HasRow
    <3> QED
      BY <3>1, <3>2
  <2> QED
    BY <1>4, <2>4, <2>5, <2>6 DEF Deletion!DeletionInv
<1> QED
  BY <1>6, <1>7 DEF Deletion!EraseAccount, Deletion!MayDeleteRow, Deletion!EraseDishes,
                    Deletion!Disabled

\* An operator deactivates or activates an account.
LEMMA UpdateForCrmKeepsInv ==
  ASSUME Deletion!DeletionInv, NEW a \in Deletion!Accounts, Deletion!UpdateForCrm(a)
  PROVE  Deletion!DeletionInv'
<1>1. /\ live' = IF a \in live THEN live \ {a} ELSE live \cup {a}
      /\ deleted' = IF a \in live THEN deleted ELSE deleted \ {a}
      /\ Deletion!OneStep /\ UNCHANGED <<offers, carts, orders>>
  BY DEF Deletion!UpdateForCrm
<1>2. Deletion!TypeOK
  BY DEF Deletion!DeletionInv
<1>3. deleted' \subseteq deleted /\ live' \subseteq Deletion!Accounts
      /\ deleted' \subseteq Deletion!Accounts \ live'
  BY <1>1, <1>2 DEF Deletion!TypeOK
<1>4. Deletion!TypeOK'
  BY <1>1, <1>2, <1>3, DeletionOneStep DEF Deletion!TypeOK
<1>5. Deletion!ReferencesHold'
  BY <1>1 DEF Deletion!DeletionInv, Deletion!ReferencesHold, Deletion!HasRow,
              Deletion!InCarts, Deletion!Sold
<1>6. Deletion!NothingLeftOnOffer'
  <2>1. ~beside' => ~beside
    BY <1>1, <1>2, DeletionOneStep
  <2> QED
    BY <1>1, <1>3, <2>1 DEF Deletion!DeletionInv, Deletion!NothingLeftOnOffer,
                            Deletion!DishesOf, Deletion!HasRow
<1> QED
  BY <1>1, <1>2, <1>4, <1>5, <1>6, CheckedOneStep DEF Deletion!DeletionInv

LEMMA DeletionInvInit ==
  ASSUME Deletion!Init
  PROVE  Deletion!DeletionInv
<1>1. \A s \in Sessions : deletions[s] = Deletion!Idle /\ deletions[s].phase = "idle"
  BY RestsIdle DEF Deletion!Init
<1>2. Deletion!TypeOK
  <2>1. deletions \in [Sessions -> Deletion!Request]
    BY RestsIdle DEF Deletion!Init
  <2>2. DOMAIN orders = {} /\ orders \in [DOMAIN orders -> Deletion!Order]
    BY DEF Deletion!Init
  <2>3. carts \in [Users \ Cooks -> SUBSET OnOffer]
    BY DEF Deletion!Init
  <2> QED
    BY <2>1, <2>2, <2>3 DEF Deletion!Init, Deletion!TypeOK, Deletion!DishState
<1>3. Deletion!ReferencesHold
  BY DEF Deletion!Init, Deletion!ReferencesHold, Deletion!InCarts, Deletion!Sold
<1>4. Deletion!NothingLeftOnOffer
  BY DEF Deletion!Init, Deletion!NothingLeftOnOffer
<1> QED
  BY <1>1, <1>2, <1>3, <1>4
  DEF Deletion!DeletionInv, Deletion!StillWorking, Deletion!StillWithoutOrders

LEMMA DeletionInvStep ==
  ASSUME Deletion!DeletionInv, [Deletion!Next]_Deletion!vars
  PROVE  Deletion!DeletionInv'
<1>1. ASSUME NEW s \in Sessions, NEW d \in OnOffer, NEW to \in {"offered", "hidden"},
             Deletion!UpdateDish(s, d, to)
      PROVE  Deletion!DeletionInv'
  BY <1>1, UpdateDishKeepsInv
<1>2. ASSUME NEW s \in Sessions, NEW u \in Users \ Cooks, NEW c \in Cooks,
             Deletion!Checkout(s, u, c)
      PROVE  Deletion!DeletionInv'
  BY <1>2, CheckoutKeepsInv
<1>3. ASSUME NEW s \in Sessions, NEW a \in Deletion!Accounts, Deletion!DeleteAccount(s, a)
      PROVE  Deletion!DeletionInv'
  BY <1>3, DeleteAccountKeepsInv
<1>4. ASSUME NEW s \in Sessions,
             Deletion!WriteDish(s) \/ Deletion!CreateFromCart(s) \/ Deletion!EraseAccount(s)
      PROVE  Deletion!DeletionInv'
  BY <1>4, WriteDishKeepsInv, CreateFromCartKeepsInv, EraseAccountKeepsInv
<1>5. ASSUME NEW d \in OnOffer, Deletion!CreateDish(d) \/ Deletion!DeleteDish(d)
      PROVE  Deletion!DeletionInv'
  BY <1>5, CreateDishKeepsInv, DeleteDishKeepsInv
<1>6. ASSUME NEW u \in Users \ Cooks,
             Deletion!ClearCart(u) \/ \E d \in OnOffer : Deletion!AddToCart(u, d)
      PROVE  Deletion!DeletionInv'
  BY <1>6, CartsKeepInv
<1>7. ASSUME NEW o \in DOMAIN orders, Deletion!OrderMoves(o)
      PROVE  Deletion!DeletionInv'
  BY <1>7, OrderMovesKeepsInv
<1>8. ASSUME NEW a \in Deletion!Accounts, Deletion!UpdateForCrm(a)
      PROVE  Deletion!DeletionInv'
  BY <1>8, UpdateForCrmKeepsInv
<1>9. CASE UNCHANGED Deletion!vars
  <2>1. UNCHANGED <<live, deleted, offers, carts, orders, deletions, beside>>
    BY <1>9 DEF Deletion!vars
  <2>2. /\ Deletion!ReferencesHold' /\ Deletion!NothingLeftOnOffer'
        /\ \A a : Deletion!ActiveOrders(a)' = Deletion!ActiveOrders(a)
    BY <2>1, RowsLeftAlone
  <2>3. Deletion!TypeOK'
    BY <2>1 DEF Deletion!DeletionInv, Deletion!TypeOK
  <2>4. Deletion!StillWorking' /\ Deletion!StillWithoutOrders'
    BY <2>1, <2>2 DEF Deletion!DeletionInv, Deletion!StillWorking, Deletion!StillWithoutOrders
  <2> QED
    BY <2>2, <2>3, <2>4 DEF Deletion!DeletionInv
<1> QED
  BY <1>1, <1>2, <1>3, <1>4, <1>5, <1>6, <1>7, <1>8, <1>9 DEF Deletion!Next

-----------------------------------------------------------------------------
(* AccountDeletion: the theorems *)

\* deleteAccount among carts, checkouts, orders and changes to dishes, however they
\* overlap.
THEOREM DeletionInvariant == Deletion!Spec => []Deletion!DeletionInv
<1>1. Deletion!Init => Deletion!DeletionInv
  BY DeletionInvInit
<1>2. Deletion!DeletionInv /\ [Deletion!Next]_Deletion!vars => Deletion!DeletionInv'
  BY DeletionInvStep
<1> QED
  BY <1>1, <1>2, PTL DEF Deletion!Spec

\* Whatever overlaps, no deletion takes the row of a dish in an order or in a cart.
THEOREM ReferencesAreKept == Deletion!Spec => []ReferencesHold
<1>1. Deletion!DeletionInv => ReferencesHold
  BY DEF Deletion!DeletionInv, ReferencesHold
<1> QED
  BY <1>1, DeletionInvariant, PTL

\* As long as requests have not overlapped, a deleted account has no cart and offers no
\* dish.
THEOREM NothingOnOfferIsLeft == Deletion!Spec => []NothingLeftOnOffer
<1>1. Deletion!DeletionInv => NothingLeftOnOffer
  BY DEF Deletion!DeletionInv, NothingLeftOnOffer
<1> QED
  BY <1>1, DeletionInvariant, PTL

\* Only the transaction of deleteAccount makes a deleted account.
LEMMA DeletedByErase ==
  ASSUME [Deletion!Next]_Deletion!vars, NEW a, a \in deleted', a \notin deleted
  PROVE  \E s \in Sessions :
           /\ deletions[s].phase = "deleting" /\ deletions[s].account = a
           /\ Deletion!To(s, Deletion!Idle)
<1>1. PICK s \in Sessions : Deletion!EraseAccount(s)
  <2> SUFFICES ASSUME \A s \in Sessions : ~Deletion!EraseAccount(s)
               PROVE  deleted' \subseteq deleted
    OBVIOUS
  <2> QED
    BY DEF Deletion!Next, Deletion!vars, Deletion!accounts, Deletion!UpdateDish,
           Deletion!Checkout, Deletion!DeleteAccount, Deletion!WriteDish,
           Deletion!CreateFromCart, Deletion!CreateDish, Deletion!DeleteDish,
           Deletion!ClearCart, Deletion!AddToCart, Deletion!OrderMoves, Deletion!UpdateForCrm
<1> QED
  BY <1>1 DEF Deletion!EraseAccount

\* assertNoActiveOrders: as long as requests have not overlapped, no account goes while
\* an order that it bought or cooks is under way.
THEOREM NoActiveOrderAtDeletion == Deletion!Spec => BlockedByActiveOrders
<1>1. Deletion!DeletionInv /\ [Deletion!Next]_Deletion!vars =>
        [\A a \in Deletion!Accounts :
           Deletion!DeletionStep(a) /\ ~beside' => ~Deletion!UnderWay(a)]_Deletion!vars
  <2> SUFFICES ASSUME Deletion!DeletionInv, [Deletion!Next]_Deletion!vars,
                      NEW a \in Deletion!Accounts, Deletion!DeletionStep(a), ~beside'
               PROVE  ~Deletion!UnderWay(a)
    OBVIOUS
  <2>1. PICK s \in Sessions : /\ deletions[s].phase = "deleting" /\ deletions[s].account = a
                              /\ Deletion!To(s, Deletion!Idle)
    BY DeletedByErase DEF Deletion!DeletionStep
  <2>2. ~beside
    BY <2>1, DeletionMoves DEF Deletion!DeletionInv
  <2>3. Deletion!ActiveOrders(a) = {}
    BY <2>1, <2>2 DEF Deletion!DeletionInv, Deletion!StillWithoutOrders
  <2> QED
    BY <2>3 DEF Deletion!UnderWay, Deletion!ActiveOrders, Deletion!OrdersOf
<1> QED
  BY <1>1, DeletionInvariant, PTL
  DEF Deletion!Spec, BlockedByActiveOrders, Deletion!BlockedByActiveOrders

-----------------------------------------------------------------------------
(* Accounts: types *)

LEMMA LoginShapes ==
  ASSUME Tokens!TypeOK, NEW s \in Sessions
  PROVE  LET r == logins[s]
         IN  /\ r.phase = "registering" => /\ r.phone \in Phones /\ r.password \in Passwords
                                           /\ r.role \in {"USER", "COOK"}
             /\ r.phase \in {"issuing", "patching", "setting password", "setting role",
                             "creating cook"} => r.user \in Tokens!Ids
             /\ r.phase = "patching" => r.patch \in Tokens!Patch
             /\ r.phase = "setting password" => r.password \in Passwords
             /\ r.phase = "setting role" => r.role \in Tokens!Role
             /\ r.phase \in {"idle", "registering", "issuing", "patching", "setting password",
                             "setting role", "creating cook"}
<1> DEFINE r == logins[s]
<1>1. r \in Tokens!Request
  BY DEF Tokens!TypeOK
<1>2. CASE r = Tokens!Idle
  BY <1>2 DEF Tokens!Idle
<1>3. CASE r \in [phase: {"registering"}, phone: Phones, password: Passwords,
                  role: {"USER", "COOK"}]
  BY <1>3
<1>4. CASE r \in [phase: {"issuing"}, user: Tokens!Ids, refreshes: BOOLEAN]
  BY <1>4
<1>5. CASE r \in [phase: {"patching"}, user: Tokens!Ids, patch: Tokens!Patch]
  BY <1>5
<1>6. CASE r \in [phase: {"setting password"}, user: Tokens!Ids, password: Passwords]
  BY <1>6
<1>7. CASE r \in [phase: {"setting role"}, user: Tokens!Ids, role: Tokens!Role]
  BY <1>7
<1>8. CASE r \in [phase: {"creating cook"}, user: Tokens!Ids]
  BY <1>8
<1> QED
  BY <1>1, <1>2, <1>3, <1>4, <1>5, <1>6, <1>7, <1>8 DEF Tokens!Request

LEMMA LoginMoves ==
  ASSUME Tokens!TypeOK, NEW s \in Sessions, NEW q, Tokens!To(s, q)
  PROVE  /\ logins'[s] = q
         /\ \A t \in Sessions \ {s} : logins'[t] = logins[t]
         /\ q \in Tokens!Request => logins' \in [Sessions -> Tokens!Request]
         /\ interleaved' \in BOOLEAN
         /\ ~interleaved' => ~interleaved /\ \A t \in Sessions \ {s} : logins[t] = Tokens!Idle
  BY DEF Tokens!TypeOK, Tokens!To

LEMMA LoginIdle ==
  Tokens!Idle \in Tokens!Request /\ Tokens!Idle.phase = "idle"
  BY DEF Tokens!Request, Tokens!Idle

\* The number of elements is the same thing in the component and here.
LEMMA SameCardinality ==
  ASSUME NEW S
  PROVE  Tokens!Cardinality(S) = Cardinality(S)
  BY DEF Tokens!Cardinality, Cardinality

\* The next number is not one that a row has.
LEMMA NewUser ==
  ASSUME Tokens!NumberedInOrder, Cardinality(DOMAIN users) + 1 \in Tokens!Ids
  PROVE  /\ Cardinality(DOMAIN users) + 1 \notin DOMAIN users
         /\ \E n \in 0..MaxUsers :
              DOMAIN users \cup {Cardinality(DOMAIN users) + 1} = 1..n
<1>1. PICK n \in 0..MaxUsers : DOMAIN users = 1..n
  BY DEF Tokens!NumberedInOrder
<1>2. Cardinality(DOMAIN users) = n
  BY <1>1, FS_Interval, BoundsAssumption
<1>3. n + 1 \in 0..MaxUsers /\ 1..n \cup {n + 1} = 1..(n + 1) /\ n + 1 \notin 1..n
  BY <1>2, BoundsAssumption DEF Tokens!Ids
<1> QED
  BY <1>1, <1>2, <1>3

-----------------------------------------------------------------------------
(* Accounts: what each step keeps *)

\* What a request of session s should be, so that a step that makes it of it keeps
\* what the others rely on.
LEMMA LoginStep ==
  ASSUME Tokens!TokensInv, NEW s \in Sessions, NEW q, Tokens!To(s, q),
         DOMAIN users \subseteq DOMAIN users',
         q.phase \notin {"idle", "registering"} => q.user \in DOMAIN users',
         ~interleaved' /\ q.phase = "issuing" =>
           users'[q.user].active /\ q.user \notin loggedOut'
  PROVE  Tokens!RowsStay' /\ Tokens!IssuedToActive'
<1>1. /\ logins'[s] = q
      /\ \A t \in Sessions \ {s} : logins'[t] = logins[t]
      /\ ~interleaved' => \A t \in Sessions \ {s} : logins'[t].phase = "idle"
  BY LoginMoves, LoginIdle DEF Tokens!TokensInv
<1>2. Tokens!RowsStay'
  BY <1>1 DEF Tokens!TokensInv, Tokens!RowsStay
<1>3. Tokens!IssuedToActive'
  BY <1>1 DEF Tokens!IssuedToActive
<1> QED
  BY <1>2, <1>3

\* A request that only begins.
LEMMA LoginBegins ==
  ASSUME Tokens!TokensInv, NEW s \in Sessions, NEW q \in Tokens!Request, Tokens!To(s, q),
         UNCHANGED <<users, cooks, tokens>>, loggedOut' \subseteq loggedOut,
         q.phase \notin {"idle", "registering"} => q.user \in DOMAIN users,
         ~interleaved' /\ q.phase = "issuing" =>
           users[q.user].active /\ q.user \notin loggedOut'
  PROVE  Tokens!TokensInv'
<1>1. Tokens!TypeOK'
  BY LoginMoves DEF Tokens!TokensInv, Tokens!TypeOK
<1>2. Tokens!RowsStay' /\ Tokens!IssuedToActive'
  BY LoginStep
<1>3. ~interleaved' => ~interleaved
  BY LoginMoves DEF Tokens!TokensInv
<1>4. Tokens!NumberedInOrder' /\ Tokens!InactiveHasNoToken' /\ Tokens!LoggedOutHasNoToken'
  BY <1>3 DEF Tokens!TokensInv, Tokens!NumberedInOrder, Tokens!InactiveHasNoToken,
              Tokens!LoggedOutHasNoToken
<1> QED
  BY <1>1, <1>2, <1>4 DEF Tokens!TokensInv

\* A write to a row that is there: the token, if there is one then, is that of somebody
\* active who has not logged out.
LEMMA RowWritten ==
  ASSUME Tokens!TokensInv, NEW s \in Sessions, Tokens!To(s, Tokens!Idle),
         NEW u \in DOMAIN users, NEW row \in Tokens!Row,
         users' = [users EXCEPT ![u] = row],
         UNCHANGED cooks, tokens' \in 0..MaxTokens,
         loggedOut' \subseteq loggedOut \cup {u},
         ~interleaved => row.token = Tokens!NoToken \/ (row.active /\ u \notin loggedOut')
  PROVE  Tokens!TokensInv'
<1>1. /\ DOMAIN users' = DOMAIN users /\ users'[u] = row
      /\ \A v \in DOMAIN users \ {u} : users'[v] = users[v]
      /\ users' \in [DOMAIN users -> Tokens!Row]
  BY DEF Tokens!TokensInv, Tokens!TypeOK
<1>2. Tokens!TypeOK'
  BY <1>1, LoginMoves, LoginIdle DEF Tokens!TokensInv, Tokens!TypeOK
<1>3. Tokens!RowsStay' /\ Tokens!IssuedToActive'
  BY <1>1, LoginStep, LoginIdle
<1>4. ~interleaved' => ~interleaved
  BY LoginMoves DEF Tokens!TokensInv
<1>5. Tokens!NumberedInOrder'
  BY <1>1 DEF Tokens!TokensInv, Tokens!NumberedInOrder
<1>6. Tokens!InactiveHasNoToken'
  BY <1>1, <1>4 DEF Tokens!TokensInv, Tokens!InactiveHasNoToken, Tokens!NoToken
<1>7. Tokens!LoggedOutHasNoToken'
  BY <1>1, <1>4 DEF Tokens!TokensInv, Tokens!LoggedOutHasNoToken, Tokens!NoToken
<1> QED
  BY <1>2, <1>3, <1>5, <1>6, <1>7 DEF Tokens!TokensInv

\* The requests that read, check and hand on.
LEMMA BeginsKeepTokens ==
  ASSUME Tokens!TokensInv, NEW s \in Sessions, NEW u \in DOMAIN users,
         \/ \E p \in Passwords : \/ Tokens!ResetPasswordForCrm(s, u, p)
                                \/ \E q \in Passwords : Tokens!ChangePassword(s, u, p, q)
         \/ Tokens!Logout(s, u) \/ Tokens!UpdateForCrm(s, u)
         \/ Tokens!DeleteAccount(s, u) \/ Tokens!CookMissing(s, u)
  PROVE  Tokens!TokensInv'
<1>1. u \in Tokens!Ids
  BY DEF Tokens!TokensInv, Tokens!TypeOK
<1>2. PICK q \in Tokens!Request :
        Tokens!Begins(s, u, q) /\ q.phase # "issuing" /\ q.user = u
  <2>1. ASSUME NEW p \in Passwords,
               \/ Tokens!ResetPasswordForCrm(s, u, p)
               \/ \E q \in Passwords : Tokens!ChangePassword(s, u, q, p)
        PROVE  Tokens!Begins(s, u, [phase |-> "setting password", user |-> u, password |-> p])
    BY <2>1 DEF Tokens!ResetPasswordForCrm, Tokens!ChangePassword
  <2>2. ASSUME Tokens!Logout(s, u) \/ Tokens!DeleteAccount(s, u)
        PROVE  \E patch \in Tokens!Patch :
                 Tokens!Begins(s, u, [phase |-> "patching", user |-> u, patch |-> patch])
    BY <2>2 DEF Tokens!Logout, Tokens!DeleteAccount, Tokens!Patch
  <2>3. ASSUME Tokens!UpdateForCrm(s, u)
        PROVE  \/ \E patch \in Tokens!Patch :
                    Tokens!Begins(s, u, [phase |-> "patching", user |-> u, patch |-> patch])
               \/ \E role \in Tokens!Role :
                    Tokens!Begins(s, u, [phase |-> "setting role", user |-> u, role |-> role])
    BY <2>3 DEF Tokens!UpdateForCrm, Tokens!Patch
  <2>4. ASSUME Tokens!CookMissing(s, u)
        PROVE  Tokens!Begins(s, u, [phase |-> "creating cook", user |-> u])
    BY <2>4 DEF Tokens!CookMissing
  <2>5. /\ \A p \in Passwords : LET q == [phase |-> "setting password", user |-> u, password |-> p]
                                IN  q \in Tokens!Request /\ q.phase # "issuing" /\ q.user = u
        /\ \A patch \in Tokens!Patch :
             LET q == [phase |-> "patching", user |-> u, patch |-> patch]
             IN  q \in Tokens!Request /\ q.phase # "issuing" /\ q.user = u
        /\ \A role \in Tokens!Role :
             LET q == [phase |-> "setting role", user |-> u, role |-> role]
             IN  q \in Tokens!Request /\ q.phase # "issuing" /\ q.user = u
        /\ LET q == [phase |-> "creating cook", user |-> u]
           IN  q \in Tokens!Request /\ q.phase # "issuing" /\ q.user = u
    BY <1>1 DEF Tokens!Request
  <2>6. \E q : Tokens!Begins(s, u, q) /\ q \in Tokens!Request /\ q.phase # "issuing" /\ q.user = u
    BY <2>1, <2>2, <2>3, <2>4, <2>5
  <2> QED
    BY <2>6
<1> QED
  BY <1>2, LoginBegins DEF Tokens!Begins

\* register begins.
LEMMA RegisterKeepsTokens ==
  ASSUME Tokens!TokensInv, NEW s \in Sessions, NEW phone \in Phones, NEW p \in Passwords,
         NEW role \in {"USER", "COOK"}, Tokens!Register(s, phone, p, role)
  PROVE  Tokens!TokensInv'
<1> DEFINE q == [phase |-> "registering", phone |-> phone, password |-> p, role |-> role]
<1>1. Tokens!To(s, q) /\ UNCHANGED <<users, cooks, tokens, loggedOut>>
  BY DEF Tokens!Register
<1>2. q \in Tokens!Request /\ q.phase = "registering"
  BY DEF Tokens!Request
<1> HIDE DEF q
<1> QED
  BY <1>1, <1>2, LoginBegins

\* login and refresh have found the user.
LEMMA LoginKeepsTokens ==
  ASSUME Tokens!TokensInv, NEW s \in Sessions, NEW u \in DOMAIN users,
         Tokens!Refresh(s, u) \/ \E p \in Passwords : Tokens!Login(s, u, p)
  PROVE  Tokens!TokensInv'
<1>1. u \in Tokens!Ids
  BY DEF Tokens!TokensInv, Tokens!TypeOK
<1>2. PICK refreshes \in BOOLEAN :
        /\ Tokens!To(s, [phase |-> "issuing", user |-> u, refreshes |-> refreshes])
        /\ users[u].active /\ UNCHANGED <<users, cooks, tokens>>
        /\ loggedOut' = IF refreshes THEN loggedOut ELSE loggedOut \ {u}
        /\ refreshes => users[u].token # Tokens!NoToken
  <2>1. CASE Tokens!Refresh(s, u)
    BY <2>1 DEF Tokens!Refresh, Tokens!TokenMatches
  <2>2. ASSUME NEW p \in Passwords, Tokens!Login(s, u, p)
        PROVE  /\ Tokens!To(s, [phase |-> "issuing", user |-> u, refreshes |-> FALSE])
               /\ users[u].active /\ UNCHANGED <<users, cooks, tokens>>
               /\ loggedOut' = loggedOut \ {u}
    BY <2>2 DEF Tokens!Login
  <2> QED
    BY <2>1, <2>2
<1> DEFINE q == [phase |-> "issuing", user |-> u, refreshes |-> refreshes]
<1>3. q \in Tokens!Request /\ q.phase = "issuing" /\ q.user = u
  BY <1>1 DEF Tokens!Request
<1>4. ~interleaved' => u \notin loggedOut'
  <2>1. ~interleaved' => ~interleaved
    BY <1>2, LoginMoves DEF Tokens!TokensInv
  <2> QED
    BY <1>2, <2>1 DEF Tokens!TokensInv, Tokens!LoggedOutHasNoToken
<1>5. Tokens!To(s, q) /\ loggedOut' \subseteq loggedOut
  BY <1>2
<1> HIDE DEF q
<1> QED
  BY <1>2, <1>3, <1>4, <1>5, LoginBegins

\* register inserts the row, unless the number has been taken meanwhile.
LEMMA InsertUserKeepsTokens ==
  ASSUME Tokens!TokensInv, NEW s \in Sessions, Tokens!InsertUser(s)
  PROVE  Tokens!TokensInv'
<1> DEFINE r == logins[s]
           new == Cardinality(DOMAIN users) + 1
           row == [phone |-> r.phone, password |-> r.password, role |-> r.role,
                   active |-> TRUE, token |-> Tokens!NoToken]
           q == [phase |-> "issuing", user |-> new, refreshes |-> FALSE]
<1>1. r.phase = "registering" /\ UNCHANGED <<tokens, loggedOut>>
  BY DEF Tokens!InsertUser
<1>2. CASE Tokens!To(s, Tokens!Idle) /\ UNCHANGED <<users, cooks>>
  BY <1>1, <1>2, LoginBegins, LoginIdle
<1>3. CASE /\ new \in Tokens!Ids
           /\ users' = [u \in DOMAIN users \cup {new} |-> IF u = new THEN row ELSE users[u]]
           /\ cooks' = IF r.role = "COOK" THEN cooks \cup {new} ELSE cooks
           /\ Tokens!To(s, q)
  <2>1. /\ q \in Tokens!Request /\ q.phase = "issuing" /\ q.user = new
    BY <1>3 DEF Tokens!Request
  <2>2. new \notin DOMAIN users /\ \E n \in 0..MaxUsers : DOMAIN users \cup {new} = 1..n
    BY <1>3, NewUser DEF Tokens!TokensInv
  <2>3. /\ row \in Tokens!Row /\ row.active /\ row.token = Tokens!NoToken
    <3>1. /\ r.phone \in Phones /\ r.password \in Passwords /\ r.role \in Tokens!Role
      BY <1>1, LoginShapes DEF Tokens!TokensInv, Tokens!Role
    <3>2. 0 \in 0..MaxTokens
      BY BoundsAssumption
    <3> QED
      BY <3>1, <3>2 DEF Tokens!Row, Tokens!NoToken
  <2> HIDE DEF new, row, q
  <2>4. /\ DOMAIN users' = DOMAIN users \cup {new} /\ users'[new] = row
        /\ \A u \in DOMAIN users : users'[u] = users[u]
    BY <1>3, <2>2
  <2>5. users' \in [DOMAIN users' -> Tokens!Row]
    <3>1. \A u \in DOMAIN users : users[u] \in Tokens!Row
      BY DEF Tokens!TokensInv, Tokens!TypeOK
    <3> QED
      BY <1>3, <2>3, <2>4, <3>1
  <2>6. Tokens!TypeOK'
    BY <1>1, <1>3, <2>1, <2>4, <2>5, LoginMoves DEF Tokens!TokensInv, Tokens!TypeOK
  <2>7. ~interleaved' => ~interleaved
    BY <1>3, LoginMoves DEF Tokens!TokensInv
  <2>8. new \notin loggedOut'
    BY <1>1, <2>2 DEF Tokens!TokensInv, Tokens!TypeOK
  <2>9. Tokens!RowsStay' /\ Tokens!IssuedToActive'
    BY <1>3, <2>1, <2>3, <2>4, <2>8, LoginStep
  <2>10. Tokens!NumberedInOrder'
    BY <2>2, <2>4 DEF Tokens!NumberedInOrder
  <2>11. Tokens!InactiveHasNoToken'
    BY <2>3, <2>4, <2>7 DEF Tokens!TokensInv, Tokens!InactiveHasNoToken
  <2>12. Tokens!LoggedOutHasNoToken'
    BY <1>1, <2>4, <2>7 DEF Tokens!TokensInv, Tokens!TypeOK, Tokens!LoggedOutHasNoToken
  <2> QED
    BY <2>6, <2>9, <2>10, <2>11, <2>12 DEF Tokens!TokensInv
<1> QED
  BY <1>2, <1>3, SameCardinality DEF Tokens!InsertUser

\* issueTokens stores a token.
LEMMA IssueTokensKeepsTokens ==
  ASSUME Tokens!TokensInv, NEW s \in Sessions, Tokens!IssueTokens(s)
  PROVE  Tokens!TokensInv'
<1> DEFINE u == logins[s].user
           row == [users[u] EXCEPT !.token = tokens + 1]
<1>1. /\ logins[s].phase = "issuing" /\ tokens' = tokens + 1 /\ tokens < MaxTokens
      /\ users' = [users EXCEPT ![u].token = tokens + 1]
      /\ Tokens!To(s, Tokens!Idle) /\ UNCHANGED <<cooks, loggedOut>>
  BY DEF Tokens!IssueTokens
<1>2. u \in DOMAIN users /\ users[u] \in Tokens!Row
  BY <1>1 DEF Tokens!TokensInv, Tokens!TypeOK, Tokens!RowsStay
<1>3. tokens + 1 \in 0..MaxTokens
  BY <1>1, BoundsAssumption DEF Tokens!TokensInv, Tokens!TypeOK
<1>4. row \in Tokens!Row /\ row.active = users[u].active /\ users' = [users EXCEPT ![u] = row]
  BY <1>1, <1>2, <1>3 DEF Tokens!Row
<1>5. ~interleaved => users[u].active /\ u \notin loggedOut
  BY <1>1 DEF Tokens!TokensInv, Tokens!IssuedToActive
<1> HIDE DEF row
<1> QED
  BY <1>1, <1>2, <1>3, <1>4, <1>5, RowWritten

\* A write that leaves the token of an active user, or none: logging out,
\* deactivating, activating, deleting, a new password, a new role.
LEMMA PatchesKeepTokens ==
  ASSUME Tokens!TokensInv, NEW s \in Sessions,
         Tokens!WritePatch(s) \/ Tokens!WritePassword(s) \/ Tokens!WriteRole(s)
  PROVE  Tokens!TokensInv'
<1> DEFINE r == logins[s]
           u == r.user
<1>1. /\ r.phase \in {"patching", "setting password", "setting role"}
      /\ Tokens!To(s, Tokens!Idle) /\ UNCHANGED <<cooks, tokens>>
  BY DEF Tokens!WritePatch, Tokens!WritePassword, Tokens!WriteRole
<1>2. u \in DOMAIN users /\ users[u] \in Tokens!Row
  BY <1>1 DEF Tokens!TokensInv, Tokens!TypeOK, Tokens!RowsStay
<1>3. ~interleaved => users[u].token = Tokens!NoToken \/ (users[u].active /\ u \notin loggedOut)
  BY <1>2 DEF Tokens!TokensInv, Tokens!InactiveHasNoToken, Tokens!LoggedOutHasNoToken
<1>4. Tokens!NoToken \in 0..MaxTokens
  BY BoundsAssumption DEF Tokens!NoToken
<1>5. PICK row \in Tokens!Row :
        /\ users' = [users EXCEPT ![u] = row]
        /\ \/ row.token = Tokens!NoToken /\ loggedOut' \subseteq loggedOut \cup {u}
           \/ row.token = users[u].token /\ row.active = users[u].active /\ UNCHANGED loggedOut
           \/ row.token = users[u].token /\ row.active /\ UNCHANGED loggedOut
  <2>1. CASE Tokens!WritePatch(s)
    <3> DEFINE row == Tokens!Patched(users[u], r.patch)
    <3>1. /\ r.phase = "patching" /\ users' = [users EXCEPT ![u] = row]
          /\ loggedOut' \subseteq loggedOut \cup {u}
          /\ r.patch # "logout" => UNCHANGED loggedOut
      BY <2>1 DEF Tokens!WritePatch
    <3>2. r.patch \in {"logout", "activate", "deactivate", "erase"}
      BY <3>1, LoginShapes DEF Tokens!TokensInv, Tokens!Patch
    <3>3. /\ row \in Tokens!Row
          /\ IF r.patch = "activate" THEN row.token = users[u].token /\ row.active
             ELSE row.token = Tokens!NoToken
      <4>1. CASE r.patch = "logout"
        <5>1. row = [users[u] EXCEPT !.token = Tokens!NoToken]
          BY <4>1 DEF Tokens!Patched
        <5> QED
          BY <1>2, <1>4, <4>1, <5>1 DEF Tokens!Row
      <4>2. CASE r.patch = "activate"
        <5>1. row = [users[u] EXCEPT !.active = TRUE]
          BY <4>2 DEF Tokens!Patched
        <5> QED
          BY <1>2, <1>4, <4>2, <5>1 DEF Tokens!Row
      <4>3. CASE r.patch = "deactivate"
        <5>1. row = [users[u] EXCEPT !.active = FALSE, !.token = Tokens!NoToken]
          BY <4>3 DEF Tokens!Patched
        <5> QED
          BY <1>2, <1>4, <4>3, <5>1 DEF Tokens!Row
      <4>4. CASE r.patch = "erase"
        <5>1. row = [users[u] EXCEPT !.phone = Tokens!Released, !.password = Tokens!Unknown,
                                     !.active = FALSE, !.token = Tokens!NoToken]
          BY <4>4 DEF Tokens!Patched
        <5> QED
          BY <1>2, <1>4, <4>4, <5>1 DEF Tokens!Row
      <4> QED
        BY <3>2, <4>1, <4>2, <4>3, <4>4
    <3> HIDE DEF row
    <3> QED
      BY <3>1, <3>3
  <2>2. CASE Tokens!WritePassword(s)
    <3> DEFINE row == [users[u] EXCEPT !.password = r.password, !.token = Tokens!NoToken]
    <3>1. r.password \in Passwords
      BY <2>2, LoginShapes DEF Tokens!TokensInv, Tokens!WritePassword
    <3>2. row \in Tokens!Row /\ row.token = Tokens!NoToken
      BY <1>2, <1>4, <3>1 DEF Tokens!Row
    <3>3. users' = [users EXCEPT ![u] = row] /\ UNCHANGED loggedOut
      BY <1>2, <2>2 DEF Tokens!WritePassword, Tokens!Row
    <3> HIDE DEF row
    <3> QED
      BY <3>2, <3>3
  <2>3. CASE Tokens!WriteRole(s)
    <3> DEFINE row == [users[u] EXCEPT !.role = r.role]
    <3>1. r.role \in Tokens!Role
      BY <2>3, LoginShapes DEF Tokens!TokensInv, Tokens!WriteRole
    <3>2. row \in Tokens!Row /\ row.token = users[u].token /\ row.active = users[u].active
      BY <1>2, <3>1 DEF Tokens!Row
    <3>3. users' = [users EXCEPT ![u] = row] /\ UNCHANGED loggedOut
      BY <1>2, <2>3 DEF Tokens!WriteRole, Tokens!Row
    <3> HIDE DEF row
    <3> QED
      BY <3>2, <3>3
  <2> QED
    BY <2>1, <2>2, <2>3
<1>6. /\ loggedOut' \subseteq loggedOut \cup {u}
      /\ ~interleaved => row.token = Tokens!NoToken \/ (row.active /\ u \notin loggedOut')
  BY <1>3, <1>5
<1>7. tokens' \in 0..MaxTokens
  BY <1>1 DEF Tokens!TokensInv, Tokens!TypeOK
<1> QED
  BY <1>1, <1>2, <1>5, <1>6, <1>7, RowWritten

\* cook.create for somebody who was made a cook later.
LEMMA CreateCookKeepsTokens ==
  ASSUME Tokens!TokensInv, NEW s \in Sessions, Tokens!CreateCook(s)
  PROVE  Tokens!TokensInv'
<1>1. /\ logins[s].phase = "creating cook" /\ cooks' = cooks \cup {logins[s].user}
      /\ Tokens!To(s, Tokens!Idle) /\ UNCHANGED <<users, tokens, loggedOut>>
  BY DEF Tokens!CreateCook
<1>2. logins[s].user \in DOMAIN users
  BY <1>1 DEF Tokens!TokensInv, Tokens!RowsStay
<1>3. Tokens!TypeOK'
  BY <1>1, <1>2, LoginMoves, LoginIdle DEF Tokens!TokensInv, Tokens!TypeOK
<1>4. Tokens!RowsStay' /\ Tokens!IssuedToActive'
  BY <1>1, LoginStep, LoginIdle
<1>5. ~interleaved' => ~interleaved
  BY <1>1, LoginMoves DEF Tokens!TokensInv
<1>6. Tokens!NumberedInOrder' /\ Tokens!InactiveHasNoToken' /\ Tokens!LoggedOutHasNoToken'
  BY <1>1, <1>5 DEF Tokens!TokensInv, Tokens!NumberedInOrder, Tokens!InactiveHasNoToken,
                    Tokens!LoggedOutHasNoToken
<1> QED
  BY <1>3, <1>4, <1>6 DEF Tokens!TokensInv

LEMMA TokensInvInit ==
  ASSUME Tokens!Init
  PROVE  Tokens!TokensInv
<1>1. DOMAIN users = {} /\ users \in [DOMAIN users -> Tokens!Row]
  BY DEF Tokens!Init
<1>2. \A s \in Sessions : logins[s].phase = "idle"
  BY LoginIdle DEF Tokens!Init
<1>3. Tokens!TypeOK
  <2>1. logins \in [Sessions -> Tokens!Request]
    BY LoginIdle DEF Tokens!Init
  <2>2. tokens \in 0..MaxTokens
    BY BoundsAssumption DEF Tokens!Init
  <2> QED
    BY <1>1, <2>1, <2>2 DEF Tokens!Init, Tokens!TypeOK
<1>4. Tokens!NumberedInOrder
  <2>1. 0 \in 0..MaxUsers /\ 1..0 = {}
    BY BoundsAssumption
  <2> QED
    BY <1>1, <2>1 DEF Tokens!NumberedInOrder
<1> QED
  BY <1>1, <1>2, <1>3, <1>4
  DEF Tokens!Init, Tokens!TokensInv, Tokens!RowsStay, Tokens!IssuedToActive,
      Tokens!InactiveHasNoToken, Tokens!LoggedOutHasNoToken

LEMMA TokensInvStep ==
  ASSUME Tokens!TokensInv, [Tokens!Next]_Tokens!vars
  PROVE  Tokens!TokensInv'
<1>1. ASSUME NEW s \in Sessions, NEW phone \in Phones, NEW p \in Passwords,
             NEW role \in {"USER", "COOK"}, Tokens!Register(s, phone, p, role)
      PROVE  Tokens!TokensInv'
  BY <1>1, RegisterKeepsTokens
<1>2. ASSUME NEW s \in Sessions, NEW u \in DOMAIN users,
             Tokens!Refresh(s, u) \/ \E p \in Passwords : Tokens!Login(s, u, p)
      PROVE  Tokens!TokensInv'
  BY <1>2, LoginKeepsTokens
<1>3. ASSUME NEW s \in Sessions, NEW u \in DOMAIN users,
             \/ \E p \in Passwords :
                  \/ Tokens!ResetPasswordForCrm(s, u, p)
                  \/ \E q \in Passwords : Tokens!ChangePassword(s, u, p, q)
             \/ Tokens!Logout(s, u) \/ Tokens!UpdateForCrm(s, u)
             \/ Tokens!DeleteAccount(s, u) \/ Tokens!CookMissing(s, u)
      PROVE  Tokens!TokensInv'
  BY <1>3, BeginsKeepTokens
<1>4. ASSUME NEW s \in Sessions, Tokens!InsertUser(s) \/ Tokens!IssueTokens(s)
      PROVE  Tokens!TokensInv'
  BY <1>4, InsertUserKeepsTokens, IssueTokensKeepsTokens
<1>5. ASSUME NEW s \in Sessions,
             Tokens!WritePatch(s) \/ Tokens!WritePassword(s) \/ Tokens!WriteRole(s)
      PROVE  Tokens!TokensInv'
  BY <1>5, PatchesKeepTokens
<1>6. ASSUME NEW s \in Sessions, Tokens!CreateCook(s)
      PROVE  Tokens!TokensInv'
  BY <1>6, CreateCookKeepsTokens
<1>7. CASE UNCHANGED Tokens!vars
  BY <1>7 DEF Tokens!vars, Tokens!TokensInv, Tokens!TypeOK, Tokens!NumberedInOrder,
              Tokens!RowsStay, Tokens!IssuedToActive, Tokens!InactiveHasNoToken,
              Tokens!LoggedOutHasNoToken
<1> QED
  BY <1>1, <1>2, <1>3, <1>4, <1>5, <1>6, <1>7 DEF Tokens!Next

-----------------------------------------------------------------------------
(* Accounts: the theorems *)

\* register, login, refresh, logout, passwords, roles and deletion, however they overlap.
THEOREM TokensInvariant == Tokens!Spec => []Tokens!TokensInv
<1>1. Tokens!Init => Tokens!TokensInv
  BY TokensInvInit
<1>2. Tokens!TokensInv /\ [Tokens!Next]_Tokens!vars => Tokens!TokensInv'
  BY TokensInvStep
<1> QED
  BY <1>1, <1>2, PTL DEF Tokens!Spec

\* As long as requests have not overlapped, a deactivated or deleted account has no
\* refresh token.
THEOREM InactiveAreLoggedOut == Tokens!Spec => []InactiveHasNoToken
<1>1. Tokens!TokensInv => InactiveHasNoToken
  BY DEF Tokens!TokensInv, InactiveHasNoToken
<1> QED
  BY <1>1, TokensInvariant, PTL

\* As long as requests have not overlapped, who has logged out has no token to refresh
\* before logging in again.
THEOREM LogoutInvalidates == Tokens!Spec => []LoggedOutHasNoToken
<1>1. Tokens!TokensInv => LoggedOutHasNoToken
  BY DEF Tokens!TokensInv, LoggedOutHasNoToken
<1> QED
  BY <1>1, TokensInvariant, PTL

-----------------------------------------------------------------------------
(* The three components together *)

\* The data of moderation, of deletions and of the User rows are well formed, whichever
\* of the components moves.
THEOREM TypesCorrectness == SumSpec => []TypesOK
<1> DEFINE SumInv == IInv /\ Deletion!DeletionInv /\ Tokens!TokensInv
<1>1. SumInit => SumInv
  BY IInvInit, DeletionInvInit, TokensInvInit DEF SumInit
<1>2. SumInv /\ [SumNext]_<<vars, deletionVars, tokensVars>> => SumInv'
  <2> SUFFICES ASSUME SumInv, [SumNext]_<<vars, deletionVars, tokensVars>>
               PROVE  SumInv'
    OBVIOUS
  <2>1. [Next]_vars /\ [Deletion!Next]_Deletion!vars /\ [Tokens!Next]_Tokens!vars
    BY DEF SumNext, deletionVars, tokensVars, Deletion!vars, Tokens!vars
  <2> QED
    BY <2>1, IInvStep, DeletionInvStep, TokensInvStep
<1>3. SumInv => TypesOK
  BY DEF IInv, Deletion!DeletionInv, Tokens!TokensInv, TypesOK
<1> QED
  BY <1>1, <1>2, <1>3, PTL DEF SumSpec
=============================================================================
