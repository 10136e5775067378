--------------------------- MODULE MCEdEventLoop ---------------------------
(* EdEventLoop for TLC: objects, descriptors and addresses are interchangeable. *)
EXTENDS EdEventLoop, TLC

LoopSymmetry == Permutations(Objs) \cup Permutations(Fds) \cup Permutations(Evts)
=============================================================================
