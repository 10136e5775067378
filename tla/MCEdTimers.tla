----------------------------- MODULE MCEdTimers -----------------------------
(* EdTimers for TLC: one EdTimer and one task timer. *)
EXTENDS EdTimers, TLC
=============================================================================
