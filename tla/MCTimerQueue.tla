--------------------------- MODULE MCTimerQueue ---------------------------
(* The instance of TimerQueue for TLC. *)
EXTENDS TimerQueue
=============================================================================
