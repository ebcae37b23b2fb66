------------------------- MODULE MCNetworkStatistics -------------------------
(***************************************************************************)
(* NetworkStatistics for TLC, with a kibibyte of a few bytes.              *)
(***************************************************************************)
EXTENDS NetworkStatistics

=============================================================================
