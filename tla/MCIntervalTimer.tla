--------------------------- MODULE MCIntervalTimer ---------------------------
(* Instances of IntervalTimer for TLC: one other sender, and two or three  *)
(* timeouts, so that one is programmed while the previous one expires.     *)
EXTENDS IntervalTimer
=============================================================================
