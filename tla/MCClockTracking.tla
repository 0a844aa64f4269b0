--------------------------- MODULE MCClockTracking --------------------------
(* A cycle of four slots, a window of two or four units: the shapes of the *)
(* arithmetic (a slot of several windows, a wrap inside and outside a      *)
(* cycle, a tolerance of half a slot) at a size TLC can enumerate.         *)
EXTENDS ClockTracking

Modes12 == {1, 2}
Modes4 == {4}
=============================================================================
