----------------------------- MODULE MCProcess -----------------------------
(***************************************************************************)
(* Process for TLC: a second of four milliseconds of two ticks each, and a *)
(* clock that is set by less than a millisecond, by a second, and by more  *)
(* than usleep can wait.                                                   *)
(***************************************************************************)
EXTENDS Process

MCSettings == {-25, -9, -3, -1, 1, 3, 9}

=============================================================================
