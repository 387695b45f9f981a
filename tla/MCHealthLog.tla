---------------------------- MODULE MCHealthLog ----------------------------
(* Small instances of HealthLog for TLC. *)
EXTENDS HealthLog
=============================================================================
