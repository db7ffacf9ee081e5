---------------------------- MODULE MCEventPath ----------------------------
(* Instances of EventPath for TLC. *)
EXTENDS EventPath
=============================================================================
