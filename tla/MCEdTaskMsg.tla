----------------------------- MODULE MCEdTaskMsg -----------------------------
(***************************************************************************)
(* EdTaskMsg for TLC.                                                      *)
(***************************************************************************)
EXTENDS EdTaskMsg, TLC

MCEventFds    == {-1, 3}
MCResultCodes == {1}
ClientSymmetry == Permutations(Clients)
=============================================================================
