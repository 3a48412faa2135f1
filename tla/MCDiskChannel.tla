---------------------------- MODULE MCDiskChannel ----------------------------
(* Instances of DiskChannel for TLC: one signal and one channel.  Queues   *)
(* of one are filled by one element, so that the second command waits for  *)
(* the first one's take and its status for the first one's; their indexes  *)
(* wrap round to zero, where a reset puts them.  Two attachments let a     *)
(* call of DiskLife outlive its own.                                       *)
EXTENDS DiskChannel

OneSignal == 1
=============================================================================
