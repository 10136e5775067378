--------------------------- MODULE MCEdSmartSocket ---------------------------
(* The writer of EdSmartSocket for model checking. *)
EXTENDS EdSmartSocket, TLC
=============================================================================
