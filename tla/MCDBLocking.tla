---------------------------- MODULE MCDBLocking ----------------------------
(* Small instances of DBLocking for TLC.                                   *)
EXTENDS DBLocking, TLC

RequestSymmetry == Permutations(Web)
=============================================================================
