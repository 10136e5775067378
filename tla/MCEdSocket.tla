----------------------------- MODULE MCEdSocket -----------------------------
(* Sockets for model checking. *)
EXTENDS EdSocket, TLC

\* The TCP clients are interchangeable in the safety properties.
ClientSymmetry == Permutations(Clients \ UnixClients)
=============================================================================
