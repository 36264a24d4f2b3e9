-------------------------- MODULE MCHttpConnection --------------------------
(* HttpConnection for TLC: its constants are plain values of the cfg files.  *)
EXTENDS HttpConnection
=============================================================================
