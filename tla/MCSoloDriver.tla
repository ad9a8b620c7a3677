---------------------------- MODULE MCSoloDriver ----------------------------
(***************************************************************************)
(* Small instances of SoloDriver.  The dynamics steps are below, equal to, *)
(* just above and far above the forcing step, negative, zero and so short  *)
(* that their number overflows an int of eight; forcing steps and end      *)
(* times include halves and less than half a second.                       *)
(***************************************************************************)
EXTENDS SoloDriver

MCDTs == {-700, 0, 1, 700, 1000, 1999, 3000}
MCForcingDTs == {-1000, 0, 400, 1500, 2000, 3000}
MCEndTimes == {-500, 1000, 3500, 5000}
MCStartTimes == {0, 2}
=============================================================================
