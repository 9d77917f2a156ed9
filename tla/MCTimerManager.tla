--------------------------- MODULE MCTimerManager ---------------------------
(* Three timers, one-shot or of two periods, over a few ticks of the clock. *)
EXTENDS TimerManager
=============================================================================
