-------------------------- MODULE StatisticsClaims --------------------------
(***************************************************************************)
(* What Client::printNetStats says of the byte counters and they do not    *)
(* do, checked by a run that ends in a counterexample.                     *)
(***************************************************************************)
EXTENDS NetworkStatistics

(* Client.cpp:221-222: the numbers on the screen are "MB's", so never more *)
(* than the bytes counted.  A carry of kibibytes leaves no remainder,      *)
(* since every frame is smaller than a kibibyte, and then inKibibytes and  *)
(* outKibibytes stay as they were (NetworkStatistics.cpp:187): from the    *)
(* first mebibyte on, every kibibyte carries into the next.  (A carry of   *)
(* bytes without a remainder is left out: it counts less than a kibibyte   *)
(* too much.)                                                              *)
ShowsMebibytes ==
  lock = "free" =>
    \A m \in Modes : ~evenCarry[m] => KILO * getMebibytes(counters[m]) <= added[m]

=============================================================================
