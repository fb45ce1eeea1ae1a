-------------------------------- MODULE MCCooks --------------------------------
(***************************************************************************)
(* An instance for TLC of what a cook's side is made of: the menus, the    *)
(* application with its documents, and what customers are shown.           *)
(*                                                                         *)
(* The three specifications share no variable and no step, so a component  *)
(* moves here only while the other two rest in an initial state: every     *)
(* behaviour of each is there, and the numbers of their states add up      *)
(* rather than multiply.                                                   *)
(***************************************************************************)
EXTENDS Menus, TLC

CONSTANTS
  c1, c2, d1,
  Viewers, MaxTime,   \* of Storefront
  MaxFiles            \* of CookVerification

ASSUME MaxFilesAssumption == MaxFiles \in Nat

VARIABLES
  now, cookRows, shown, blocks,                                \* of Storefront
  cookStatus, documents, moderated, disk, saved, accountGone,  \* of CookVerification
  submissions, overlapped, cut

papersVars ==
  <<cookStatus, documents, moderated, disk, saved, accountGone, submissions, overlapped, cut>>
shopVars == <<now, cookRows, shown, blocks>>

Shop == INSTANCE Storefront WITH cooks <- cookRows, dishes <- shown
Papers == INSTANCE CookVerification WITH requests <- submissions

\* A component at rest, before its first step.
MenusRest == Init
PapersRest == Papers!Init
ShopRests == Shop!Init /\ now = 0

SumInit == Init /\ Shop!Init /\ Papers!Init

SumNext ==
  \/ PapersRest /\ ShopRests /\ Next /\ UNCHANGED <<papersVars, shopVars>>
  \/ MenusRest /\ ShopRests /\ Papers!Next /\ UNCHANGED <<vars, shopVars>>
  \/ MenusRest /\ PapersRest /\ Shop!Next /\ UNCHANGED <<vars, papersVars>>

SumSpec == SumInit /\ [][SumNext]_<<vars, papersVars, shopVars>>

\* Menus' constant CookOf.
D1ofC1 == [d \in Dishes |-> IF d = d1 THEN c1 ELSE c2]

SumSymmetry == Permutations(Sessions) \cup Permutations(Days)

-----------------------------------------------------------------------------
\* The data of the three components are well formed.
TypesOK == TypeOK /\ Papers!TypeOK /\ Shop!TypeOK

\* Storefront: the filter for cooks at work and the flag on a page agree.
FilterAgreesWithFlag == Shop!FilterAgreesWithFlag

\* Storefront: who is in the list has a page, and the other way round.
ListAgreesWithPages == Shop!ListAgreesWithPages

\* CookVerification: a reason is shown exactly for the operators' rejections.
ReasonIffRejected == Papers!ReasonIffRejected

\* CookVerification: no verdict stands without documents.
VerdictOnDocuments == Papers!VerdictOnDocuments

\* CookVerification: the documents the row names are on disk.
PapersOnDisk == Papers!PapersOnDisk

\* CookVerification: no other documents are.
DiskHoldsDocuments == Papers!DiskHoldsDocuments
=============================================================================
