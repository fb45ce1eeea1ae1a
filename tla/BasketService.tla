----------------------------- MODULE BasketService -----------------------------
(***************************************************************************)
(* BasketService: a customer's cart and its lines, under requests that     *)
(* overlap.                                                                *)
(*                                                                         *)
(* addItems runs in a transaction at the database's default isolation      *)
(* (read committed): each findFirst sees what others have committed by     *)
(* then, and its own writes appear at the commit.  The other operations    *)
(* are sequences of statements that each commit on their own.  A session   *)
(* remembers in requests[s] where its handler is and what it has read.     *)
(***************************************************************************)
EXTENDS Integers, FiniteSets

CONSTANTS
  Users,      \* customers
  Dishes,     \* dishes on the menus; none is deleted while it is in a cart
  Sessions,   \* requests the server may be handling at the same time
  Amounts,    \* units of a dish a request may ask for, after merging its lines
  MaxMerged,  \* the most units of a dish one request may ask for (100)
  MaxAdds     \* bound: addItems transactions committed in a behaviour

ASSUME BasketAssumption ==
  /\ Amounts \subseteq Nat \ {0}
  /\ MaxMerged \in Nat /\ MaxAdds \in Nat

\* The n-th transaction to commit gives its new cart and lines fresh ids: the
\* cart is n, and the line of dish d is <<n, d>>.  Ids are never used again.
CartIds == 1..MaxAdds
LineIds == CartIds \X Dishes

DishOf(line) == line[2]

Idle == [phase |-> "idle"]

VARIABLES
  available,  \* the dishes whose cook offers them at the moment
  carts,      \* the Cart table: from the carts there are to their users
  lines,      \* the CartItem table: from the lines there are to cart and quantity
  adds,       \* how many addItems transactions have committed (makes ids fresh)
  requests,   \* requests[s]: where the handler of session s is
  cut         \* history: some request has been cut short

basketVars == <<available, carts, lines, adds, requests, cut>>

BasketInit ==
  /\ available = Dishes
  /\ carts = [c \in {} |-> CHOOSE u \in Users : TRUE]
  /\ lines = [l \in {} |-> Idle]
  /\ adds = 0
  /\ requests = [s \in Sessions |-> Idle]
  /\ cut = FALSE

Line == [cart: CartIds, quantity: Nat \ {0}]

\* The units asked for, after merging the request's lines of a dish: of one dish
\* at least.
AddRequests == {asked \in [Dishes -> Amounts \cup {0}] : \E d \in Dishes : asked[d] # 0}

\* For each dish that has been looked up: the line found for it, by its first
\* component (0 if the dish has none in the cart), and the quantity to be written.
NotYet == [row |-> 0, quantity |-> 0]

Plans == [Dishes -> {NotYet} \cup [row: 0..MaxAdds, quantity: Nat \ {0}]]

BasketRequest ==
  {Idle}
    \cup [phase: {"adding"}, user: Users, asked: AddRequests]
    \cup [phase: {"merging"}, user: Users, cart: 0..MaxAdds, asked: AddRequests, plan: Plans]
    \cup [phase: {"updating"}, line: LineIds, quantity: 1..MaxMerged]
    \cup [phase: {"removing"}, line: LineIds, cart: CartIds]
    \cup [phase: {"removed", "clearing", "emptied"}, cart: CartIds]

TablesTyped ==
  /\ available \subseteq Dishes
  /\ DOMAIN carts \subseteq CartIds /\ carts \in [DOMAIN carts -> Users]
  /\ DOMAIN lines \subseteq LineIds /\ lines \in [DOMAIN lines -> Line]
  /\ adds \in 0..MaxAdds
  /\ cut \in BOOLEAN

-----------------------------------------------------------------------------
(* Tables *)

Without(f, S) == [x \in DOMAIN f \ S |-> f[x]]

LinesOf(c) == {l \in DOMAIN lines : lines[l].cart = c}

CartsOf(u) == {c \in DOMAIN carts : carts[c] = u}

Moves(s, r) == requests' = [requests EXCEPT ![s] = r]

To(s, r) == Moves(s, r) /\ UNCHANGED cut

\* Bug variant: the foreign key of CartItem is not enforced.
CanDeleteCart_NoForeignKey(c) == c \in DOMAIN carts

\* cart.delete fails if the cart is gone, and the foreign key of CartItem
\* restricts it while the cart has lines.
CanDeleteCart(c) == c \in DOMAIN carts /\ LinesOf(c) = {}

-----------------------------------------------------------------------------
(* addItems *)

\* The request's lines are merged, the quantities and then the dishes checked.
AddItems(s, u, asked) ==
  /\ requests[s] = Idle
  /\ \A d \in Dishes : asked[d] # 0 => asked[d] <= MaxMerged /\ d \in available
  /\ To(s, [phase |-> "adding", user |-> u, asked |-> asked])
  /\ UNCHANGED <<available, carts, lines, adds>>

\* The unique index on Cart.userId makes a second insert wait until the
\* transaction of the first one has ended.
MayInsertCart(s, u) ==
  \A t \in Sessions \ {s} :
    ~(requests[t].phase = "merging" /\ requests[t].user = u /\ requests[t].cart = 0)

\* cart.upsert: the cart of the user, or one the transaction creates (0).
UpsertCart(s) ==
  LET r == requests[s]
      merging(c) == [phase |-> "merging", user |-> r.user, cart |-> c,
                     asked |-> r.asked, plan |-> [d \in Dishes |-> NotYet]]
  IN  /\ r.phase = "adding"
      /\ \/ \E c \in CartsOf(r.user) : To(s, merging(c))
         \/ CartsOf(r.user) = {} /\ MayInsertCart(s, r.user) /\ To(s, merging(0))
      /\ UNCHANGED <<available, carts, lines, adds>>

\* Bug variant: units are not added to the line the cart already has.
MergedQuantity_Replaces(existing, asked) == asked

\* The quantity written to an existing line: what was read and what is added.
MergedQuantity(existing, asked) == existing + asked

\* Bug variant: the line is looked up by something else than its dish.
ExistingLines_NotFound(c, d) == {}

\* The lines cartItem.findFirst may return for a dish.
ExistingLines(c, d) == {l \in LinesOf(c) : DishOf(l) = d}

Planned(plan, d, row, quantity) ==
  [plan EXCEPT ![d] = [row |-> row, quantity |-> quantity]]

\* findFirst of one dish, and the update or create it leads to.
MergeDish(s, d) ==
  LET r == requests[s]
      existing == ExistingLines(r.cart, d)
      Write(row, quantity) ==
        To(s, [r EXCEPT !.plan = Planned(@, d, row, quantity)])
  IN  /\ r.phase = "merging"
      /\ r.asked[d] # 0 /\ r.plan[d] = NotYet
      /\ \/ existing = {} /\ Write(0, r.asked[d])
         \/ \E l \in existing :
              Write(l[1], MergedQuantity(lines[l].quantity, r.asked[d]))
      /\ UNCHANGED <<available, carts, lines, adds>>

ToWrite(r) == {d \in Dishes : r.plan[d] # NotYet}

\* The cart, and the line for dish d, that the transaction writes.
CartFor(r) == IF r.cart = 0 THEN adds + 1 ELSE r.cart

LineFor(r, d) == <<IF r.plan[d].row = 0 THEN adds + 1 ELSE r.plan[d].row, d>>

\* A line to update is gone, or a line to create has lost its cart (foreign key).
Refused(r) ==
  \E d \in ToWrite(r) :
    \/ r.plan[d].row # 0 /\ LineFor(r, d) \notin DOMAIN lines
    \/ r.plan[d].row = 0 /\ r.cart # 0 /\ r.cart \notin DOMAIN carts

WriteCart(r) ==
  LET new == {LineFor(r, d) : d \in ToWrite(r)}
  IN  /\ adds' = adds + 1
      /\ carts' = [c \in DOMAIN carts \cup {CartFor(r)} |->
                    IF c = CartFor(r) THEN r.user ELSE carts[c]]
      /\ lines' = [l \in DOMAIN lines \cup new |->
                    IF l \in new
                    THEN [cart |-> CartFor(r), quantity |-> r.plan[DishOf(l)].quantity]
                    ELSE lines[l]]

\* The transaction of addItems ends, and is rolled back if a write is refused.
CommitAdd(s) ==
  LET r == requests[s]
  IN  /\ r.phase = "merging"
      /\ \A d \in Dishes : r.asked[d] # 0 => d \in ToWrite(r)
      /\ adds < MaxAdds
      /\ To(s, Idle)
      /\ \/ Refused(r) /\ UNCHANGED <<carts, lines, adds>>
         \/ ~Refused(r) /\ WriteCart(r)
      /\ UNCHANGED available

-----------------------------------------------------------------------------
(* updateItemQuantity and removeItem *)

\* findFirst of the user's line; the cart of a line never changes.
FindsLine(s, u, l) ==
  /\ requests[s] = Idle
  /\ l \in DOMAIN lines
  /\ carts[lines[l].cart] = u
  /\ UNCHANGED <<available, carts, lines, adds>>

UpdateItemQuantity(s, u, l, quantity) ==
  /\ FindsLine(s, u, l)
  /\ To(s, [phase |-> "updating", line |-> l, quantity |-> quantity])

\* cartItem.update; an error if the line is gone.
WriteQuantity(s) ==
  LET r == requests[s]
  IN  /\ r.phase = "updating"
      /\ lines' = [l \in DOMAIN lines |->
                    IF l = r.line THEN [lines[l] EXCEPT !.quantity = r.quantity]
                    ELSE lines[l]]
      /\ To(s, Idle)
      /\ UNCHANGED <<available, carts, adds>>

\* Also updateItemQuantity's answer to a quantity below 1.
RemoveItem(s, u, l) ==
  /\ FindsLine(s, u, l)
  /\ To(s, [phase |-> "removing", line |-> l, cart |-> lines[l].cart])

\* cartItem.delete; an error, and nothing more, if the line is gone.
DeleteLine(s) ==
  LET r == requests[s]
  IN  /\ r.phase = "removing"
      /\ \/ /\ r.line \in DOMAIN lines
            /\ lines' = Without(lines, {r.line})
            /\ To(s, [phase |-> "removed", cart |-> r.cart])
         \/ /\ r.line \notin DOMAIN lines
            /\ To(s, Idle)
            /\ UNCHANGED lines
      /\ UNCHANGED <<available, carts, adds>>

\* Bug variant: the lines are counted as if the removed one were still there.
NothingRemains_CountsRemoved(c) == Cardinality(LinesOf(c)) = 1

\* remaining === 0
NothingRemains(c) == Cardinality(LinesOf(c)) = 0

CountRemaining(s) ==
  LET r == requests[s]
  IN  /\ r.phase = "removed"
      /\ To(s, IF NothingRemains(r.cart) THEN [phase |-> "emptied", cart |-> r.cart]
               ELSE Idle)
      /\ UNCHANGED <<available, carts, lines, adds>>

\* cart.delete, of removeItem and of clearCart; an error if it is not possible.
DeleteCart(s) ==
  LET c == requests[s].cart
  IN  /\ requests[s].phase = "emptied"
      /\ carts' = IF CanDeleteCart(c) THEN Without(carts, {c}) ELSE carts
      /\ To(s, Idle)
      /\ UNCHANGED <<available, lines, adds>>

-----------------------------------------------------------------------------
(* clearCart *)

ClearCart(s, u) ==
  /\ requests[s] = Idle
  /\ \E c \in CartsOf(u) : To(s, [phase |-> "clearing", cart |-> c])
  /\ UNCHANGED <<available, carts, lines, adds>>

DeleteLines(s) ==
  LET c == requests[s].cart
  IN  /\ requests[s].phase = "clearing"
      /\ lines' = Without(lines, LinesOf(c))
      /\ To(s, [phase |-> "emptied", cart |-> c])
      /\ UNCHANGED <<available, carts, adds>>

-----------------------------------------------------------------------------
(* The surroundings *)

\* A cook changes the availability of a dish.
UpdateDish(d) ==
  /\ available' = IF d \in available THEN available \ {d} ELSE available \cup {d}
  /\ UNCHANGED <<carts, lines, adds, requests, cut>>

\* The server dies, or the database refuses the next statement: an open
\* transaction is rolled back, statements that have committed stay.
Fail(s) ==
  /\ requests[s] # Idle
  /\ Moves(s, Idle)
  /\ cut' = TRUE
  /\ UNCHANGED <<available, carts, lines, adds>>

BasketNext ==
  \/ \E s \in Sessions, u \in Users :
        \/ \E asked \in AddRequests : AddItems(s, u, asked)
        \/ \E l \in DOMAIN lines :
              \/ \E quantity \in 1..MaxMerged : UpdateItemQuantity(s, u, l, quantity)
              \/ RemoveItem(s, u, l)
        \/ ClearCart(s, u)
  \/ \E s \in Sessions :
        \/ UpsertCart(s) \/ (\E d \in Dishes : MergeDish(s, d)) \/ CommitAdd(s)
        \/ WriteQuantity(s)
        \/ DeleteLine(s) \/ CountRemaining(s) \/ DeleteCart(s)
        \/ DeleteLines(s)
        \/ Fail(s)
  \/ \E d \in Dishes : UpdateDish(d)

-----------------------------------------------------------------------------
(* Properties *)

\* However requests interleave, a line has its cart, and a customer one cart:
\* the code's reads of "the" cart of a user and of a line's owner are right.
TablesConsistent ==
  /\ \A l \in DOMAIN lines : lines[l].cart \in DOMAIN carts
  /\ \A c, d \in DOMAIN carts : carts[c] = carts[d] => c = d

\* As long as no request was cut short, no empty cart is left behind when all have
\* ended: of several requests that remove lines, one finds nothing remaining and
\* deletes the cart, and none deletes a cart somebody has put a line into.
NoEmptyCartLeft ==
  (~cut /\ \A s \in Sessions : requests[s] = Idle) =>
    \A c \in DOMAIN carts : LinesOf(c) # {}

OneSession == \A s, t \in Sessions : s = t

\* With one session, a cart never has two lines of one dish, so that finding
\* the first line of a dish finds all of its units.
OneLinePerDish ==
  OneSession =>
    \A l, m \in DOMAIN lines :
      lines[l].cart = lines[m].cart /\ DishOf(l) = DishOf(m) => l = m

\* "Merged quantity per dish must not exceed 100": no line of a cart holds more.
LineWithinLimit ==
  \A l \in DOMAIN lines : lines[l].quantity <= MaxMerged

-----------------------------------------------------------------------------
(* What keeps the tables consistent: ids are fresh, and what a transaction  *)
(* of addItems has read is still so when it commits, or it is rolled back.  *)

IdsUsed ==
  /\ DOMAIN carts \subseteq 1..adds
  /\ \A l \in DOMAIN lines : l[1] \in 1..adds

\* r creates a cart for its user.
CreatesCart(r) == r.phase = "merging" /\ r.cart = 0

CartsAgree ==
  \A s \in Sessions :
    LET r == requests[s]
    IN  /\ CreatesCart(r) => CartsOf(r.user) = {}
        /\ \A t \in Sessions \ {s} :
              CreatesCart(r) /\ CreatesCart(requests[t]) => requests[t].user # r.user
        /\ r.phase = "merging" => r.cart \in 0..adds
        /\ r.phase = "merging" /\ r.cart \in DOMAIN carts => carts[r.cart] = r.user

PlansAgree ==
  \A s \in Sessions :
    LET r == requests[s]
    IN  r.phase = "merging" =>
          \A d \in Dishes :
            /\ r.plan[d].row \in 0..adds
            /\ r.plan[d] # NotYet /\ <<r.plan[d].row, d>> \in DOMAIN lines =>
                 lines[<<r.plan[d].row, d>>].cart = r.cart

-----------------------------------------------------------------------------
(* What keeps NoEmptyCartLeft: an empty cart is always in the care of a      *)
(* request that has emptied it and will count its lines or delete it.        *)

Attends(r, c) == r.phase \in {"removed", "emptied"} /\ r.cart = c

EmptyCartsAttended ==
  ~cut => \A c \in DOMAIN carts : LinesOf(c) = {} =>
            \E s \in Sessions : Attends(requests[s], c)

RemovalsAgree ==
  \A s \in Sessions :
    LET r == requests[s]
    IN  r.phase = "removing" =>
          /\ r.line[1] \in 1..adds
          /\ r.line \in DOMAIN lines => lines[r.line].cart = r.cart

\* What keeps OneLinePerDish: a dish that was not found in the cart is still not
\* in it when the transaction creates a line for it.
LookupsHold ==
  OneSession =>
    \A s \in Sessions :
      LET r == requests[s]
      IN  r.phase = "merging" =>
            \A d \in Dishes :
              r.plan[d] # NotYet /\ r.plan[d].row = 0 => ExistingLines(r.cart, d) = {}

LinesInv == EmptyCartsAttended /\ RemovalsAgree /\ LookupsHold /\ OneLinePerDish
=============================================================================
