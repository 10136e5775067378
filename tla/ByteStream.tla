----------------------------- MODULE ByteStream -----------------------------
(***************************************************************************)
(* What a program may expect of a writer on a connection: the bytes that   *)
(* reach the kernel are the bytes the writer has accepted, in that order   *)
(* and each once, up to some point.  A new connection starts empty.        *)
(***************************************************************************)
EXTENDS Sequences, SequencesExt

VARIABLES
    sent,   \* the bytes accepted since the connection was opened
    wire    \* the bytes the kernel has taken

Init == sent = <<>> /\ wire = <<>>

\* A packet is accepted, or bytes of accepted packets are written, or both.
Write ==
    /\ IsPrefix(sent, sent') /\ IsPrefix(wire, wire')
    /\ IsPrefix(wire', sent')

Reopen == sent' = <<>> /\ wire' = <<>>

Next == Write \/ Reopen

Spec == Init /\ [][Next]_<<sent, wire>>
=============================================================================
