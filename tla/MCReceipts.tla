-------------------------------- MODULE MCReceipts --------------------------------
(***************************************************************************)
(* An instance of Receipts for TLC.                                        *)
(***************************************************************************)
EXTENDS Receipts, TLC

CONSTANTS c1, c2, d1

D1ofC1 == [d \in Dishes |-> IF d = d1 THEN c1 ELSE c2]

\* Bound: operators write amounts only as long as there has been one cart.
Small == (\E o \in DOMAIN orders : orders[o].patched) => carts = 1

SmallSpec == Init /\ [][Next /\ Small']_vars

SessionSymmetry == Permutations(Sessions)
=============================================================================
