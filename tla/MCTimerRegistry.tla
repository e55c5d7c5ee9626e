--------------------------- MODULE MCTimerRegistry ---------------------------
(* One timeout and one interval, in half milliseconds. *)
EXTENDS TimerRegistry, TLC
==============================================================================
