------------------------------ MODULE MCBuffer ------------------------------
(***************************************************************************)
(* Buffer for TLC: a vector of three bytes, one of them reserved, so that  *)
(* nine bytes meet growth, compaction and spill several times over.        *)
(***************************************************************************)
EXTENDS Buffer
=============================================================================
