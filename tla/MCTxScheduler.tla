---------------------------- MODULE MCTxScheduler ----------------------------
(* Instances of TxScheduler for TLC. *)
EXTENDS TxScheduler
=============================================================================
