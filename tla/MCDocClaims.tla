---------------------------- MODULE MCDocClaims ----------------------------
(***************************************************************************)
(* Instances of DocClaims for TLC.                                         *)
(***************************************************************************)
EXTENDS DocClaims, TLC

ClientSymmetry == Permutations(Clients)

=============================================================================
