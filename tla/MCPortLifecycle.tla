-------------------------- MODULE MCPortLifecycle --------------------------
(* Instances of PortLifecycle for TLC. *)
EXTENDS PortLifecycle
=============================================================================
