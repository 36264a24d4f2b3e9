---------------------------- MODULE MCTcpServer ----------------------------
(* TcpServer for TLC.  The names of connections and descriptors are         *)
(* arbitrary: TLC looks at the runs that use each for the first time in one *)
(* order, which unlike SYMMETRY is sound for liveness too.                  *)
EXTENDS TcpServer

Ordering == INSTANCE SequencesExt

UsedInOrder(order, used, usedNext) ==
    \A i, j \in DOMAIN order :
        i < j /\ order[j] \in usedNext \ used => order[i] \in used

FirstUseInOrder ==
    /\ UsedInOrder(Ordering!SetToSeq(Conn),
                   {c \in Conn : life[c] # "fresh"}, {c \in Conn : life'[c] # "fresh"})
    /\ UsedInOrder(Ordering!SetToSeq(Fd), {cfd[c] : c \in Conn}, {cfd'[c] : c \in Conn})
=============================================================================
