---------------------------- MODULE MCEventLoop ----------------------------
(* EventLoop for TLC: the remote threads and the descriptors are alike.     *)
EXTENDS EventLoop, TLC

Symmetry == Permutations(Remote) \cup Permutations(Fd)
=============================================================================
