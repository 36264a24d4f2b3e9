--------------------------- MODULE MCSqlExecutor ---------------------------
(* SqlExecutor with its transactions for TLC.  The names of jobs are        *)
(* arbitrary: TLC looks at the runs that submit them in one order, which    *)
(* unlike SYMMETRY is sound for liveness too.                               *)
EXTENDS SqlTransaction, SequencesExt

SubmittedInOrder == IsPrefix(accepted', SetToSeq(Job))
=============================================================================
