---------------------------- MODULE MCBatcherLog ----------------------------
(* Values for model-checking BatcherLog: those of MCBatcher. *)
EXTENDS MCBatcher, BatcherLog
=============================================================================
