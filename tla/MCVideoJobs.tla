----------------------------- MODULE MCVideoJobs -----------------------------
(* A small instance of VideoJobs for TLC. *)
EXTENDS VideoJobs, TLC
=============================================================================
