------------------------- MODULE MCCplQueueManager -------------------------
(* Instances of CplQueueManager for TLC. *)
EXTENDS CplQueueManager
=============================================================================
