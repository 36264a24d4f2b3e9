--------------------------- MODULE MCIOThreadPool ---------------------------
(* IOThreadPool for TLC: the constants are given in the configurations.     *)
EXTENDS IOThreadPool
=============================================================================
