------------------------------- MODULE MCSignals -----------------------------
(* Instances of Signals for TLC: two signals and two channels, so that a   *)
(* signal number is reused by another channel while its old handler still  *)
(* runs.  The cfg files give NULL and the channels as model values.        *)
EXTENDS Signals

MCNSignals  == 2
OneSignal == 1
=============================================================================
