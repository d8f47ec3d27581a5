--------------------------- MODULE MCTimerManager ---------------------------
(* TimerManager as TLC checks it; every constant is given in the cfg. *)
EXTENDS TimerManager
=============================================================================
