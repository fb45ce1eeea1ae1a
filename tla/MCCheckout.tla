------------------------------- MODULE MCCheckout -------------------------------
(***************************************************************************)
(* Instances of Checkout for TLC.                                          *)
(***************************************************************************)
EXTENDS Checkout, TLC

CONSTANTS d1, d2, c1, c2

\* Two dishes of two cooks.
TwoCooks == (d1 :> c1) @@ (d2 :> c2)

\* The dish and its cook, where there is one of each.
OneCook == d1 :> c1

SessionSymmetry == Permutations(Sessions)
=============================================================================
