---------------------------- MODULE MCTaskEngine ----------------------------
(* A small instance of TaskEngine for TLC. *)
EXTENDS TaskEngine, TLC
=============================================================================
