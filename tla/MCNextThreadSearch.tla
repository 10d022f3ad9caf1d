-------------------------- MODULE MCNextThreadSearch --------------------------
(* The search over every combination of four threads' flags and timers.    *)
(* It reads no image, so there are none.                                   *)
EXTENDS NextThreadSearch

MCImages  == {}
MCTimers  == 0 .. 2
MCGarbage == {0, 7}
=============================================================================
