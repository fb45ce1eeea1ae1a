------------------------------- MODULE MCAccounts -------------------------------
(***************************************************************************)
(* An instance for TLC of what happens to accounts: moderation, the        *)
(* deletion of an account, and the User rows with their tokens.            *)
(*                                                                         *)
(* The three specifications share no variable and no step, so a component  *)
(* moves here only while the other two rest in their initial states: every *)
(* behaviour of each is there (of Moderation, within Small), and the       *)
(* numbers of their states add up rather than multiply.                    *)
(***************************************************************************)
EXTENDS Moderation, TLC

CONSTANTS
  c1,
  OnOffer, SellerOf, Orders,               \* dishes, their cooks and orders of AccountDeletion
  Phones, Passwords, MaxUsers, MaxTokens   \* of Accounts

ASSUME SellersAssumption == SellerOf \in [OnOffer -> Cooks]
ASSUME BoundsAssumption == MaxUsers \in Nat /\ MaxTokens \in Nat

VARIABLES
  live, deleted, offers, carts, orders, deletions, beside,          \* of AccountDeletion
  users, cooks, tokens, loggedOut, logins, interleaved              \* of Accounts

deletionVars == <<live, deleted, offers, carts, orders, deletions, beside>>
tokensVars == <<users, cooks, tokens, loggedOut, logins, interleaved>>

Deletion == INSTANCE AccountDeletion WITH
  Users <- Users \ Cooks, Dishes <- OnOffer, CookOf <- SellerOf,
  active <- live, dishes <- offers, requests <- deletions, overlapped <- beside

Tokens == INSTANCE Accounts WITH requests <- logins, overlapped <- interleaved

SumInit == Init /\ Deletion!Init /\ Tokens!Init

\* Bound: a second report only as long as the requests have not overlapped.
Small == Cardinality(DOMAIN reports) > 1 => ~overlapped

SumNext ==
  \/ Deletion!Init /\ Tokens!Init /\ Next /\ Small' /\ UNCHANGED <<deletionVars, tokensVars>>
  \/ Init /\ Tokens!Init /\ Deletion!Next /\ UNCHANGED <<vars, tokensVars>>
  \/ Init /\ Deletion!Init /\ Tokens!Next /\ UNCHANGED <<vars, deletionVars>>

SumSpec == SumInit /\ [][SumNext]_<<vars, deletionVars, tokensVars>>

\* Moderation's constant CookOf.
OneCook == [d \in Dishes |-> c1]

\* AccountDeletion's.
OneSeller == [d \in OnOffer |-> c1]

SumSymmetry ==
  Permutations(Sessions) \cup Permutations(OnOffer) \cup Permutations(Orders)
    \cup Permutations(Passwords)

-----------------------------------------------------------------------------
\* The data of the three components are well formed.
TypesOK == TypeOK /\ Deletion!TypeOK /\ Tokens!TypeOK

\* AccountDeletion: carts and orders keep the rows of their dishes.
ReferencesHold == Deletion!ReferencesHold

\* AccountDeletion: a deleted account leaves no cart and no dish on offer.
NothingLeftOnOffer == Deletion!NothingLeftOnOffer

\* AccountDeletion: no account goes while an order of it is under way.
BlockedByActiveOrders == Deletion!BlockedByActiveOrders

\* Accounts: a deactivated or deleted account has no token.
InactiveHasNoToken == Tokens!InactiveHasNoToken

\* Accounts: who has logged out has none either.
LoggedOutHasNoToken == Tokens!LoggedOutHasNoToken
=============================================================================
