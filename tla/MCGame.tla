------------------------------- MODULE MCGame -------------------------------
(***************************************************************************)
(* Instances of Game for TLC: the clients are model values, and in runs    *)
(* without liveness they may be permuted, since nothing orders them.       *)
(***************************************************************************)
EXTENDS Game, TLC

ClientSymmetry == Permutations(Clients)

=============================================================================
