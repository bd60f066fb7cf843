----------------------------- MODULE MCScheduler -----------------------------
(* A small instance of Scheduler for TLC. *)
EXTENDS Scheduler, TLC
=============================================================================
