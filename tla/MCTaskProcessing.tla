-------------------------- MODULE MCTaskProcessing --------------------------
(* Small instances of TaskProcessing for TLC.                              *)
EXTENDS TaskProcessing
=============================================================================
