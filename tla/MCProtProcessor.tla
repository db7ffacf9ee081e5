--------------------------- MODULE MCProtProcessor ---------------------------
(* Instances of ProtProcessor for TLC. *)
EXTENDS ProtProcessor
=============================================================================
