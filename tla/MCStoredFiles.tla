----------------------------- MODULE MCStoredFiles -----------------------------
(***************************************************************************)
(* Instances of StoredFiles for TLC.                                       *)
(***************************************************************************)
EXTENDS StoredFiles, TLC

SessionSymmetry == Permutations(Sessions)
=============================================================================
