---------------------------- MODULE MCTimerQueue ----------------------------
(* Small instances of Timer and TimerQueue for TLC. *)
EXTENDS Timer
=============================================================================
