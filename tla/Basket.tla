--------------------------------- MODULE Basket ---------------------------------
(***************************************************************************)
(* What the basket and checkout promise a customer whose requests do not   *)
(* overlap: units of dishes are added, changed and removed, and a checkout *)
(* orders exactly what is in the basket.  No carts, lines or orders here:  *)
(* Checkout keeps those, and implements this module with one session.      *)
(***************************************************************************)
EXTENDS Integers

CONSTANTS
  Users,      \* customers
  Dishes,     \* dishes on the menus
  MaxMerged   \* the most units of a dish one request may ask for (100)

VARIABLES
  basket,     \* basket[u][d]: units of d in the basket of u
  ordered     \* ordered[u][d]: units of d that u has ordered so far

vars == <<basket, ordered>>

Nothing == [d \in Dishes |-> 0]

Init ==
  /\ basket = [u \in Users |-> Nothing]
  /\ ordered = [u \in Users |-> Nothing]

Put(u, units) ==
  /\ basket' = [basket EXCEPT ![u] = units]
  /\ UNCHANGED ordered

\* One request may add units of several dishes, at least of one.
Add(u) ==
  \E asked \in [Dishes -> 0..MaxMerged] :
    /\ asked # Nothing
    /\ Put(u, [d \in Dishes |-> basket[u][d] + asked[d]])

Change(u, d, quantity) ==
  /\ basket[u][d] > 0
  /\ Put(u, [basket[u] EXCEPT ![d] = quantity])

Clear(u) == Put(u, Nothing)

Order(u) ==
  /\ basket[u] # Nothing
  /\ ordered' = [ordered EXCEPT ![u] = [d \in Dishes |-> @[d] + basket[u][d]]]
  /\ basket' = [basket EXCEPT ![u] = Nothing]

Next ==
  \E u \in Users :
    \/ Add(u)
    \/ \E d \in Dishes, quantity \in 0..MaxMerged : Change(u, d, quantity)
    \/ Clear(u)
    \/ Order(u)

Spec == Init /\ [][Next]_vars
=============================================================================
