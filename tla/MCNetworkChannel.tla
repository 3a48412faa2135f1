--------------------------- MODULE MCNetworkChannel ---------------------------
(* Instances of NetworkChannel for TLC: one buffer of each kind and queues *)
(* of one.  Lisp starts again once, so that the buffer a thread held for   *)
(* the Lisp before fills the queue its next one has to go to.              *)
EXTENDS NetworkChannel

OneSignal == 1
=============================================================================
