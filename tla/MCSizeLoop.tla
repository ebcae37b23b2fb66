----------------------------- MODULE MCSizeLoop -----------------------------
(***************************************************************************)
(* SizeLoop for TLC: every map with keys from -2 to 4 and two values, one  *)
(* of them the default.                                                    *)
(***************************************************************************)
EXTENDS SizeLoop

SmallKeys == -2..4
SmallValues == {"old", "made"}

=============================================================================
