-------------------------- MODULE TcpServerProofs --------------------------
(***************************************************************************)
(* Proofs about TcpServer, for any sets of descriptors, connections and    *)
(* loops: the raw pointers of a Channel's callbacks never dangle while the *)
(* server runs, pendingCloseFds_ is exact, every open descriptor has one   *)
(* owner, and a DELETE never hits another connection's Channel.            *)
(***************************************************************************)
EXTENDS TcpServer, SequenceTheorems, FiniteSetTheorems, TLAPS

USE TcpServerAssumption DEF enqueueClosedConnection

-----------------------------------------------------------------------------
(* The inductive invariant.                                                 *)

\* A connection that got a Channel has a descriptor and a loop; so has the
\* one the accept thread works on.
Placed(c) == cfd[c] \in Fd /\ cloop[c] \in Loop

AcceptInv ==
    /\ apc \in {"idleStore", "idleDeref", "emplace", "init"} => acur \in Conn
    /\ apc \in {"idleStore", "idleDeref", "init"} =>
          conns[cfd[acur]] = acur /\ chan[acur] # "none"
    /\ apc = "emplace" =>
          /\ Placed(acur) /\ life[acur] = "alive" /\ chan[acur] = "none"
          /\ \A f \in Fd : conns[f] # acur
    /\ apc \in {"cleared", "destroyed"} => \A l \in Loop : lpc[l] = "exited"

ConnInv ==
    /\ \A f \in Fd : conns[f] # None =>
          cfd[conns[f]] = f /\ life[conns[f]] = "alive" /\ chan[conns[f]] # "none"
    /\ \A c \in Conn : life[c] = "fresh" => chan[c] = "none"
    /\ \A c \in Conn : chan[c] # "none" => Placed(c)

LoopInv ==
    \A l \in Loop :
        /\ taken[l] <= Len(taskQ[l])
        /\ lpc[l] \notin {"tasks", "dyingTask"} => taken[l] = 0
        /\ lpc[l] \in {"read", "write", "reread", "close"} \/ back[l] = "reread" =>
              cb[l] \in Conn
        /\ cb[l] # None => chan[cb[l]] # "none"
        /\ lpc[l] \in {"read", "write", "close"} =>
              chan[cb[l]] = "mapped" /\ cloop[cb[l]] = l
        /\ lpc[l] \in {"dying", "dyingTask"} =>
              dying[l] \in Conn /\ chan[dying[l]] = "dying" /\ cloop[dying[l]] = l

\* An ADD carries a Channel that is in no map yet, each Channel once.
AddInv ==
    \A l \in Loop : \A i \in 1..Len(taskQ[l]) :
        taskQ[l][i].op = "ADD" =>
            /\ chan[taskQ[l][i].conn] = "queued"
            /\ cloop[taskQ[l][i].conn] = l
            /\ cfd[taskQ[l][i].conn] = taskQ[l][i].fd
            /\ \A j \in 1..Len(taskQ[l]) :
                  taskQ[l][j].op = "ADD" /\ taskQ[l][j].conn = taskQ[l][i].conn => j = i

\* Whoever else uses the descriptor of a queued DELETE on that loop is added
\* after it: the DELETE was posted while its own Channel kept the descriptor.
DeleteInv ==
    \A l \in Loop : \A i \in 1..Len(taskQ[l]) :
        taskQ[l][i].op = "DELETE" =>
            \A d \in Conn : cloop[d] = l /\ cfd[d] = taskQ[l][i].fd /\ d # taskQ[l][i].conn =>
                /\ chan[d] # "mapped"
                /\ \A j \in 1..i : ~(taskQ[l][j].op = "ADD" /\ taskQ[l][j].conn = d)

TypeInv == TypeOK /\ AcceptInv /\ ConnInv /\ LoopInv /\ AddInv

-----------------------------------------------------------------------------
(* The two ways a task queue changes.                                       *)

LEMMA PushFacts ==
    ASSUME TypeOK, NEW l \in Loop, NEW op \in {"ADD", "DELETE"}, NEW f \in Fd,
           NEW c \in Conn, Push(l, op, f, c)
    PROVE  /\ taskQ' \in [Loop -> Seq(Task)]
           /\ \A k \in Loop \ {l} : taskQ'[k] = taskQ[k]
           /\ Len(taskQ[l]) \in Nat
           /\ Len(taskQ'[l]) = Len(taskQ[l]) + 1
           /\ \A i \in 1..Len(taskQ[l]) : taskQ'[l][i] = taskQ[l][i]
           /\ taskQ'[l][Len(taskQ[l]) + 1] = [op |-> op, fd |-> f, conn |-> c]
  <1> DEFINE new == [op |-> op, fd |-> f, conn |-> c]
  <1>1. new \in Task /\ taskQ[l] \in Seq(Task)
    BY DEF Task, TypeOK
  <1>2. Append(taskQ[l], new) \in Seq(Task) /\ Len(taskQ[l]) \in Nat
        /\ Len(Append(taskQ[l], new)) = Len(taskQ[l]) + 1
        /\ \A i \in 1..Len(taskQ[l]) : Append(taskQ[l], new)[i] = taskQ[l][i]
        /\ Append(taskQ[l], new)[Len(taskQ[l]) + 1] = new
    BY <1>1
  <1>3. taskQ' = [taskQ EXCEPT ![l] = Append(taskQ[l], new)]
    BY DEF Push
  <1>4. taskQ'[l] = Append(taskQ[l], new) /\ \A k \in Loop \ {l} : taskQ'[k] = taskQ[k]
    BY <1>3 DEF TypeOK
  <1>5. taskQ' \in [Loop -> Seq(Task)]
    BY <1>2, <1>3 DEF TypeOK
  <1>6. QED
    BY <1>2, <1>4, <1>5

LEMMA PopFacts ==
    ASSUME TypeOK, LoopInv, NEW l \in Loop, PopTask(l)
    PROVE  /\ taskQ' \in [Loop -> Seq(Task)] /\ taken' \in [Loop -> Nat]
           /\ \A k \in Loop \ {l} : taskQ'[k] = taskQ[k] /\ taken'[k] = taken[k]
           /\ Len(taskQ[l]) \in Nat /\ Len(taskQ[l]) >= 1
           /\ Head(taskQ[l]) = taskQ[l][1] /\ Head(taskQ[l]) \in Task
           /\ Len(taskQ'[l]) = Len(taskQ[l]) - 1
           /\ taken'[l] = taken[l] - 1
           /\ \A i \in 1..Len(taskQ'[l]) : taskQ'[l][i] = taskQ[l][i + 1]
  <1>1. taskQ[l] \in Seq(Task) /\ Len(taskQ[l]) \in Nat /\ taken[l] \in Nat
    BY DEF TypeOK
  <1>2. taken[l] > 0 /\ Len(taskQ[l]) >= 1
    BY <1>1 DEF PopTask, LoopInv
  <1>3. taskQ[l] # <<>>
    BY <1>2
  <1>4. /\ Head(taskQ[l]) \in Task /\ Tail(taskQ[l]) \in Seq(Task)
        /\ Len(Tail(taskQ[l])) = Len(taskQ[l]) - 1
        /\ \A i \in 1..Len(Tail(taskQ[l])) : Tail(taskQ[l])[i] = taskQ[l][i + 1]
    BY <1>1, <1>3, HeadTailProperties
  <1>5. Head(taskQ[l]) = taskQ[l][1]
    BY <1>1, <1>3
  <1>6. /\ taskQ' = [taskQ EXCEPT ![l] = Tail(taskQ[l])]
        /\ taken' = [taken EXCEPT ![l] = taken[l] - 1]
    BY DEF PopTask
  <1>7. /\ taskQ'[l] = Tail(taskQ[l]) /\ \A k \in Loop \ {l} : taskQ'[k] = taskQ[k]
        /\ taken'[l] = taken[l] - 1 /\ \A k \in Loop \ {l} : taken'[k] = taken[k]
    BY <1>6 DEF TypeOK
  <1>8. taskQ' \in [Loop -> Seq(Task)] /\ taken' \in [Loop -> Nat]
    BY <1>1, <1>2, <1>4, <1>6 DEF TypeOK
  <1>9. QED
    BY <1>1, <1>2, <1>4, <1>5, <1>7, <1>8

-----------------------------------------------------------------------------
(* Types.                                                                   *)

LEMMA FdCount == \A S \in SUBSET Fd : IsFiniteSet(S) /\ Cardinality(S) \in Nat
  BY FS_Subset, FS_CardinalityType

LEMMA AcceptTypes == TypeInv /\ (AcceptStep \/ StopStep) => TypeOK'
  <1> SUFFICES ASSUME TypeInv, AcceptStep \/ StopStep PROVE TypeOK'
    OBVIOUS
  <1> USE DEF TypeInv, acceptVars, connVars, loopVars, ChanPlace
  <1>1. ASSUME NEW f \in Fd, IdleLoad(f) PROVE TypeOK'
    BY <1>1 DEF IdleLoad, TypeOK
  <1>2. CASE IdleStore
    BY <1>2 DEF IdleStore, TypeOK
  <1>3. CASE IdleDeref
    <2>1. acur \in Conn /\ cfd[acur] \in Fd /\ cloop[acur] \in Loop
      BY <1>3 DEF IdleDeref, AcceptInv, ConnInv, Placed
    <2>2. taskQ' \in [Loop -> Seq(Task)]
      BY <1>3, <2>1, PushFacts DEF IdleDeref, TypeOK
    <2>3. QED
      BY <1>3, <2>2 DEF IdleDeref, TypeOK
  <1>4. CASE Cleanup
    <2>1. conns' \in [Fd -> Conn \cup {None}] /\ life' \in [Conn -> {"fresh", "alive", "freed"}]
      BY <1>4 DEF Cleanup, TypeOK
    <2>2. pending' \in Seq(Fd)
      BY <1>4 DEF Cleanup
    <2>3. closed' \in Nat
      <3> DEFINE gone == {f \in Set(pending) : conns[f] # None}
      <3>1. Set(pending) \subseteq Fd
        BY ElementOfSeq DEF Set, TypeOK
      <3>2. Cardinality(gone) \in Nat
        BY <3>1, FdCount
      <3>3. QED
        BY <1>4, <3>2 DEF Cleanup, TypeOK
    <2>4. QED
      BY <1>4, <2>1, <2>2, <2>3 DEF Cleanup, TypeOK
  <1>5. CASE AcceptNone \/ AcceptError
    BY <1>5 DEF AcceptNone, AcceptError, TypeOK
  <1>6. ASSUME NEW f \in Fd, NEW c \in Conn, NEW l \in Loop, Accept(f, c, l) PROVE TypeOK'
    BY <1>6 DEF Accept, TypeOK
  <1>7. CASE EmplaceConflict
    BY <1>7 DEF EmplaceConflict, AcceptInv, Placed, TypeOK
  <1>8. CASE EmplaceInit
    <2>1. acur \in Conn /\ cfd[acur] \in Fd /\ cloop[acur] \in Loop
      BY <1>8 DEF EmplaceInit, AcceptInv, Placed
    <2>2. taskQ' \in [Loop -> Seq(Task)]
      BY <1>8, <2>1, PushFacts DEF EmplaceInit
    <2>3. chanPtr' \in [Conn -> BOOLEAN]
      BY <1>8, <2>1 DEF EmplaceInit, TypeOK
    <2>4. QED
      BY <1>8, <2>1, <2>2, <2>3 DEF EmplaceInit, TypeOK
  <1>9. CASE InitConnected
    <2>1. state' \in [Conn -> {"kConnecting", "kConnected", "kDisconnecting", "kDisconnected"}]
      BY <1>9 DEF InitConnected, TypeOK
    <2>2. QED
      BY <1>9, <2>1 DEF InitConnected, TypeOK
  <1>10. CASE StopClear
    <2>1. Cardinality({f \in Fd : conns[f] # None}) \in Nat
      BY FdCount
    <2>2. conns' \in [Fd -> Conn \cup {None}] /\ life' \in [Conn -> {"fresh", "alive", "freed"}]
      BY <1>10 DEF StopClear, TypeOK
    <2>3. QED
      BY <1>10, <2>1, <2>2 DEF StopClear, TypeOK
  <1>11. CASE DestroyLoops
    <2>1. taskQ' \in [Loop -> Seq(Task)]
      BY <1>11 DEF DestroyLoops
    <2>2. chan' \in [Conn -> ChanPlace]
      BY <1>11 DEF DestroyLoops, TypeOK
    <2>3. QED
      BY <1>11, <2>1, <2>2 DEF DestroyLoops, TypeOK
  <1>12. QED
    BY <1>1, <1>2, <1>3, <1>4, <1>5, <1>6, <1>7, <1>8, <1>9, <1>10, <1>11
    DEF AcceptStep, StopStep

\* A Channel that leaves the map or the queue.
LEMMA RemoveFacts ==
    ASSUME TypeOK, NEW l \in Loop, NEW c \in Conn, Remove(l, c)
    PROVE  /\ chan' \in [Conn -> ChanPlace]
           /\ chan'[c] = "dying" /\ \A d \in Conn \ {c} : chan'[d] = chan[d]
           /\ dying' \in [Loop -> Conn \cup {None}]
           /\ dying'[l] = c /\ \A k \in Loop \ {l} : dying'[k] = dying[k]
           /\ fdOpen' = fdOpen \ {cfd[c]} /\ fdOpen' \in SUBSET Fd
           /\ UNCHANGED <<life, cfd, cloop, state, chanPtr>>
  BY DEF Remove, TypeOK, ChanPlace

LEMMA LoopTypes == ASSUME TypeInv, NEW l \in Loop, LoopStep(l) PROVE TypeOK'
  <1> USE DEF TypeInv, acceptVars, connVars, LoopPc, ChanPlace
  <1>1. CASE Poll(l)
    BY <1>1 DEF Poll, TypeOK
  <1>2. CASE RunReturn(l)
    BY <1>2 DEF RunReturn, TypeOK
  <1>3. ASSUME NEW c \in Conn, ActiveNotFound(l, c) \/ ActiveBegin(l, c) PROVE TypeOK'
    <2>1. CASE ActiveNotFound(l, c)
      BY <2>1 DEF ActiveNotFound, TypeOK
    <2>2. CASE ActiveBegin(l, c)
      <3>1. cb' \in [Loop -> Conn \cup {None}]
        BY <2>2 DEF ActiveBegin, Mapped, TypeOK
      <3>2. lpc' \in [Loop -> LoopPc]
        BY <2>2 DEF ActiveBegin, TypeOK
      <3>3. QED
        BY <2>2, <3>1, <3>2 DEF ActiveBegin, TypeOK
    <2>3. QED
      BY <1>3, <2>1, <2>2
  <1>4. ASSUME NEW c \in Conn, ActiveError(l, c) PROVE TypeOK'
    <2>1. PICK m \in Conn : Remove(l, m)
      BY <1>4 DEF ActiveError, Mapped
    <2>2. QED
      BY <1>4, <2>1, RemoveFacts DEF ActiveError, TypeOK
  <1>5. CASE CallbackQuiet(l) \/ CloseLoad(l) \/ AfterRead(l)
    <2>1. CASE CallbackQuiet(l)
      BY <2>1 DEF CallbackQuiet, Resume, TypeOK
    <2>2. CASE CloseLoad(l)
      <3> DEFINE r == Resume(l, lpc[l])
      <3>0. lpc' = [lpc EXCEPT ![l] = r] \/ lpc' = [lpc EXCEPT ![l] = "close"]
        BY <2>2 DEF CloseLoad
      <3>4. r \in LoopPc /\ lpc \in [Loop -> LoopPc]
        BY <2>2 DEF CloseLoad, Resume, TypeOK
      <3> HIDE DEF r
      <3>1. lpc' \in [Loop -> LoopPc]
        BY <3>0, <3>4
      <3>2. back' \in [Loop -> {"poll", "reread", "events"}]
        BY <2>2 DEF CloseLoad, Resume, TypeOK
      <3>3. QED
        BY <2>2, <3>1, <3>2 DEF CloseLoad, TypeOK
    <2>3. CASE AfterRead(l)
      <3>1. cb' \in [Loop -> Conn \cup {None}]
        <4>1. cb' = cb \/ \E m \in Conn : cb' = [cb EXCEPT ![l] = m]
          BY <2>3 DEF AfterRead, Mapped
        <4>2. cb \in [Loop -> Conn \cup {None}]
          BY DEF TypeOK
        <4>3. QED
          BY <4>1, <4>2
      <3>2. lpc' \in [Loop -> LoopPc]
        <4>1. \/ lpc' = [lpc EXCEPT ![l] = "events"]
              \/ lpc' = [lpc EXCEPT ![l] = "write"]
          BY <2>3 DEF AfterRead
        <4>2. lpc \in [Loop -> LoopPc]
          BY DEF TypeOK
        <4>3. QED
          BY <4>1, <4>2
      <3>3. QED
        BY <2>3, <3>1, <3>2 DEF AfterRead, TypeOK
    <2>4. QED
      BY <1>5, <2>1, <2>2, <2>3
  <1>6. CASE CallbackModify(l) \/ StartProcess(l)
    <2>1. Len(taskQ[l]) \in Nat
      BY DEF TypeOK
    <2>2. CASE CallbackModify(l)
      <3>1. back' \in [Loop -> {"poll", "reread", "events"}] /\ taken' \in [Loop -> Nat]
        BY <2>1, <2>2 DEF CallbackModify, Resume, TypeOK
      <3>2. lpc' \in [Loop -> LoopPc]
        BY <2>2 DEF CallbackModify, LoopPc, TypeOK
      <3>3. QED
        BY <2>2, <3>1, <3>2 DEF CallbackModify, TypeOK
    <2>3. CASE StartProcess(l)
      <3>1. back' \in [Loop -> {"poll", "reread", "events"}] /\ taken' \in [Loop -> Nat]
        BY <2>1, <2>3 DEF StartProcess, TypeOK
      <3>2. lpc' \in [Loop -> LoopPc]
        BY <2>3 DEF StartProcess, LoopPc, TypeOK
      <3>3. QED
        BY <2>3, <3>1, <3>2 DEF StartProcess, TypeOK
    <2>4. QED
      BY <1>6, <2>2, <2>3
  <1>7. CASE CloseStore(l)
    <2>1. cb[l] \in Conn /\ cfd[cb[l]] \in Fd
      BY <1>7 DEF CloseStore, LoopInv, ConnInv, Placed
    <2>2. taskQ' \in [Loop -> Seq(Task)]
      BY <1>7, <2>1, PushFacts DEF CloseStore
    <2>3. QED
      BY <1>7, <2>2 DEF CloseStore, TypeOK
  <1>8. CASE EndProcess(l)
    BY <1>8 DEF EndProcess, TypeOK
  <1>9. CASE AddChannel(l)
    <2>1. taskQ' \in [Loop -> Seq(Task)] /\ taken' \in [Loop -> Nat]
      BY <1>9, PopFacts DEF AddChannel
    <2>2. QED
      BY <1>9, <2>1 DEF AddChannel, TypeOK
  <1>10. CASE AddRefused(l) \/ RemoveChannel(l)
    <2>1. taskQ' \in [Loop -> Seq(Task)] /\ taken' \in [Loop -> Nat] /\ Head(taskQ[l]) \in Task
      BY <1>10, PopFacts DEF AddRefused, RemoveChannel
    <2>2. PICK m \in Conn : Remove(l, m)
      BY <1>10, <2>1 DEF AddRefused, RemoveChannel, Mapped, Task
    <2>3. lpc' \in [Loop -> LoopPc]
      BY <1>10 DEF AddRefused, RemoveChannel, TypeOK
    <2>4. /\ chan' \in [Conn -> ChanPlace]
          /\ dying' \in [Loop -> Conn \cup {None}] /\ fdOpen' \in SUBSET Fd
          /\ UNCHANGED <<life, cfd, cloop, state, chanPtr>>
      BY <2>2, RemoveFacts
    <2>5. UNCHANGED <<acceptVars, pending, back, batch, cb>>
      BY <1>10 DEF AddRefused, RemoveChannel
    <2>6. QED
      BY <2>1, <2>3, <2>4, <2>5 DEF TypeOK
  <1>11. CASE RemoveNotFound(l)
    <2>1. taskQ' \in [Loop -> Seq(Task)] /\ taken' \in [Loop -> Nat]
      BY <1>11, PopFacts DEF RemoveNotFound
    <2>2. QED
      BY <1>11, <2>1 DEF RemoveNotFound, TypeOK
  <1>12. CASE OnChannelDestroyed(l)
    <2>1. dying[l] \in Conn /\ cfd[dying[l]] \in Fd
      BY <1>12 DEF OnChannelDestroyed, LoopInv, ConnInv, Placed
    <2>2. pending' \in Seq(Fd)
      BY <1>12, <2>1 DEF OnChannelDestroyed, TypeOK
    <2>3. chanPtr' \in [Conn -> BOOLEAN]
      BY <1>12 DEF OnChannelDestroyed, TypeOK
    <2>4. QED
      BY <1>12, <2>2, <2>3 DEF OnChannelDestroyed, TypeOK
  <1>13. QED
    BY <1>1, <1>2, <1>3, <1>4, <1>5, <1>6, <1>7, <1>8, <1>9, <1>10, <1>11, <1>12
    DEF LoopStep

-----------------------------------------------------------------------------
(* What a step of a loop does to the connections.                           *)

Inv == TypeInv /\ ChannelConnAlive /\ PendingOnce

\* A loop moves Channels of its own connections only, and one that is gone
\* was in its destructor and is now pending.
LEMMA LoopEffect ==
    ASSUME TypeInv, NEW l \in Loop, LoopStep(l)
    PROVE  /\ UNCHANGED <<apc, acur, conns, life, cfd, cloop>>
           /\ apc \notin {"cleared", "destroyed"}
           /\ \A c \in Conn : chan'[c] # chan[c] =>
                 cloop[c] = l /\ chan[c] \in HasChannel /\ chan'[c] # "none"
           /\ \/ pending' = pending /\ \A c \in Conn : chan'[c] = "gone" => chan[c] = "gone"
              \/ /\ dying[l] \in Conn /\ chan[dying[l]] = "dying"
                 /\ pending' = Append(pending, cfd[dying[l]])
                 /\ chan' = [chan EXCEPT ![dying[l]] = "gone"]
  <1> USE DEF TypeInv, acceptVars, connVars, HasChannel, Queued
  <1>1. apc \notin {"cleared", "destroyed"}
    BY DEF AcceptInv, LoopStep, Poll, RunReturn, ActiveNotFound, ActiveError, ActiveBegin,
           CallbackQuiet, CallbackModify, CloseLoad, CloseStore, AfterRead, StartProcess,
           EndProcess, AddChannel, AddRefused, RemoveChannel, RemoveNotFound, PopTask,
           OnChannelDestroyed
  <1>2. CASE UNCHANGED <<apc, acur, conns, life, cfd, cloop, pending, chan>>
    BY <1>1, <1>2
  <1>3. CASE AddChannel(l)
    <2>1. Head(taskQ[l]) = taskQ[l][1] /\ 1 \in 1..Len(taskQ[l]) /\ Head(taskQ[l]) \in Task
      BY <1>3, PopFacts DEF AddChannel
    <2> DEFINE c == Head(taskQ[l]).conn
    <2>2. c \in Conn /\ chan[c] = "queued" /\ cloop[c] = l
      BY <1>3, <2>1 DEF AddChannel, AddInv, Task
    <2>3. chan' = [chan EXCEPT ![c] = "mapped"]
      BY <1>3 DEF AddChannel
    <2>4. \A d \in Conn : chan'[d] = IF d = c THEN "mapped" ELSE chan[d]
      BY <2>2, <2>3 DEF TypeOK
    <2>5. QED
      BY <1>1, <1>3, <2>2, <2>4 DEF AddChannel
  <1>4. ASSUME NEW c \in Conn, Remove(l, c), cloop[c] = l, chan[c] \in {"queued", "mapped"},
               UNCHANGED <<acceptVars, pending>>
        PROVE  /\ UNCHANGED <<apc, acur, conns, life, cfd, cloop, pending>>
               /\ \A d \in Conn : chan'[d] = IF d = c THEN "dying" ELSE chan[d]
    BY <1>4, RemoveFacts
  <1>5. CASE AddRefused(l)
    <2>1. Head(taskQ[l]) = taskQ[l][1] /\ 1 \in 1..Len(taskQ[l]) /\ Head(taskQ[l]) \in Task
      BY <1>5, PopFacts DEF AddRefused
    <2> DEFINE c == Head(taskQ[l]).conn
    <2>2. c \in Conn /\ chan[c] = "queued" /\ cloop[c] = l
      BY <1>5, <2>1 DEF AddRefused, AddInv, Task
    <2>3. /\ UNCHANGED <<apc, acur, conns, life, cfd, cloop, pending>>
          /\ \A d \in Conn : chan'[d] = IF d = c THEN "dying" ELSE chan[d]
      BY <1>4, <1>5, <2>2 DEF AddRefused
    <2>4. QED
      BY <1>1, <2>2, <2>3
  <1>6. CASE RemoveChannel(l) \/ \E d \in Conn : ActiveError(l, d)
    <2>1. PICK c \in Conn : Remove(l, c) /\ chan[c] = "mapped" /\ cloop[c] = l
      BY <1>6 DEF RemoveChannel, ActiveError, Mapped
    <2>2. UNCHANGED <<acceptVars, pending>>
      BY <1>6 DEF RemoveChannel, ActiveError
    <2>3. /\ UNCHANGED <<apc, acur, conns, life, cfd, cloop, pending>>
          /\ \A d \in Conn : chan'[d] = IF d = c THEN "dying" ELSE chan[d]
      BY <1>4, <2>1, <2>2
    <2>4. QED
      BY <1>1, <2>1, <2>3
  <1>7. CASE OnChannelDestroyed(l)
    <2>1. dying[l] \in Conn /\ chan[dying[l]] = "dying" /\ cloop[dying[l]] = l
      BY <1>7 DEF OnChannelDestroyed, LoopInv
    <2>2. chan' = [chan EXCEPT ![dying[l]] = "gone"]
      BY <1>7 DEF OnChannelDestroyed
    <2>3. \A d \in Conn : chan'[d] = IF d = dying[l] THEN "gone" ELSE chan[d]
      BY <2>1, <2>2 DEF TypeOK
    <2>4. QED
      BY <1>1, <1>7, <2>1, <2>2, <2>3 DEF OnChannelDestroyed
  <1>8. QED
    BY <1>2, <1>3, <1>5, <1>6, <1>7
    DEF LoopStep, Poll, RunReturn, ActiveNotFound, ActiveBegin, CallbackQuiet, CallbackModify,
        CloseLoad, CloseStore, AfterRead, StartProcess, EndProcess, RemoveNotFound

LEMMA LoopConn ==
    ASSUME Inv, NEW l \in Loop, LoopStep(l)
    PROVE  AcceptInv' /\ ConnInv' /\ ChannelConnAlive' /\ PendingOnce'
  <1> USE DEF Inv
  <1>0. TypeInv
    OBVIOUS
  <1>1. /\ UNCHANGED <<apc, acur, conns, life, cfd, cloop>>
        /\ apc \notin {"cleared", "destroyed"}
        /\ \A c \in Conn : chan'[c] # chan[c] =>
              cloop[c] = l /\ chan[c] \in HasChannel /\ chan'[c] # "none"
    BY <1>0, LoopEffect
  <1>2. AcceptInv'
    BY <1>1 DEF TypeInv, AcceptInv, Placed, HasChannel, Queued
  <1>3. ConnInv'
    <2>1. \A f \in Fd : conns'[f] # None => conns[f] \in Conn
      BY <1>1 DEF TypeInv, TypeOK
    <2>2. QED
      BY <1>1, <2>1 DEF TypeInv, ConnInv, Placed, HasChannel, Queued
  <1>4. ChannelConnAlive'
    <2>1. Running
      BY <1>1 DEF Running
    <2>2. \A c \in Conn : chan'[c] \in HasChannel => chan[c] \in HasChannel
      BY <1>1
    <2>3. QED
      BY <1>1, <2>1, <2>2 DEF ChannelConnAlive
  <1>5. PendingOnce'
    <2>1. Running
      BY <1>1 DEF Running
    <2>2. CASE pending' = pending
      <3>1. ASSUME NEW f \in Set(pending) PROVE conns'[f] # None /\ chan'[conns'[f]] = "gone"
        <4>1. f \in Fd
          BY ElementOfSeq DEF Set, TypeInv, TypeOK
        <4>2. conns[f] \in Conn /\ chan[conns[f]] = "gone"
          BY <2>1, <4>1 DEF PendingOnce, TypeInv, TypeOK
        <4>3. chan'[conns[f]] = "gone"
          BY <1>1, <4>2 DEF HasChannel, Queued
        <4>4. QED
          BY <1>1, <4>2, <4>3 DEF TypeInv, TypeOK
      <3>2. Set(pending') = Set(pending)
        BY <2>2 DEF Set
      <3>3. QED
        BY <2>2, <3>1, <3>2 DEF PendingOnce
    <2>3. CASE /\ dying[l] \in Conn /\ chan[dying[l]] = "dying"
               /\ pending' = Append(pending, cfd[dying[l]])
               /\ chan' = [chan EXCEPT ![dying[l]] = "gone"]
      <3> DEFINE c == dying[l]
                 n == Len(pending)
      <3>1. c \in Conn /\ cfd[c] \in Fd /\ conns[cfd[c]] = c /\ chan[c] # "gone"
        BY <2>1, <2>3 DEF TypeInv, ConnInv, Placed, ChannelConnAlive, HasChannel
      <3>2. pending \in Seq(Fd) /\ n \in Nat
        BY DEF TypeInv, TypeOK
      <3>3. /\ Len(pending') = n + 1 /\ pending'[n + 1] = cfd[c]
            /\ \A i \in 1..n : pending'[i] = pending[i]
        BY <2>3, <3>1, <3>2
      <3>4. \A i \in 1..n : pending[i] \in Fd /\ conns[pending[i]] # None
                            /\ chan[conns[pending[i]]] = "gone"
        BY <2>1, <3>2, ElementOfSeq DEF PendingOnce, Set
      <3>5. \A i \in 1..n : pending[i] # cfd[c]
        BY <3>1, <3>4
      <3>6. ASSUME NEW i \in 1..Len(pending'), NEW j \in 1..Len(pending'), pending'[i] = pending'[j]
            PROVE  i = j
        <4>1. CASE i \in 1..n /\ j \in 1..n
          BY <3>3, <3>6, <4>1 DEF PendingOnce
        <4>2. CASE i = n + 1 \/ j = n + 1
          BY <3>2, <3>3, <3>5, <3>6, <4>2
        <4>3. QED
          BY <3>2, <3>3, <4>1, <4>2
      <3>7. ASSUME NEW i \in 1..Len(pending')
            PROVE  conns'[pending'[i]] # None /\ chan'[conns'[pending'[i]]] = "gone"
        <4>1. CASE i \in 1..n
          <5>1. conns[pending[i]] \in Conn
            BY <3>4, <4>1 DEF TypeInv, TypeOK
          <5>2. QED
            BY <1>1, <2>3, <3>3, <3>4, <4>1, <5>1 DEF TypeInv, TypeOK
        <4>2. CASE i = n + 1
          BY <1>1, <2>3, <3>1, <3>3, <4>2 DEF TypeInv, TypeOK
        <4>3. QED
          BY <3>2, <3>3, <4>1, <4>2
      <3>8. QED
        BY <3>6, <3>7 DEF PendingOnce, Set
    <2>4. QED
      BY <1>0, <2>2, <2>3, LoopEffect
  <1>6. QED
    BY <1>2, <1>3, <1>4, <1>5

-----------------------------------------------------------------------------
(* What a step of a loop does to the loops and their queues.                *)

\* Another loop is not disturbed.
LEMMA OtherLoop ==
    ASSUME NEW l \in Loop, LoopStep(l), TypeInv, NEW k \in Loop, k # l
    PROVE  /\ lpc'[k] = lpc[k] /\ back'[k] = back[k] /\ cb'[k] = cb[k]
           /\ dying'[k] = dying[k] /\ taken'[k] = taken[k] /\ taskQ'[k] = taskQ[k]
  BY DEF LoopStep, Poll, RunReturn, ActiveNotFound, ActiveError, ActiveBegin, Remove,
         CallbackQuiet, CallbackModify, CloseLoad, CloseStore, Push, AfterRead, StartProcess,
         EndProcess, AddChannel, AddRefused, RemoveChannel, RemoveNotFound, PopTask,
         OnChannelDestroyed, TypeInv, TypeOK

\* The conditions of LoopInv and AddInv for one loop.
LoopOK(k) ==
    /\ taken[k] <= Len(taskQ[k])
    /\ lpc[k] \notin {"tasks", "dyingTask"} => taken[k] = 0
    /\ lpc[k] \in {"read", "write", "reread", "close"} \/ back[k] = "reread" =>
          cb[k] \in Conn
    /\ cb[k] # None => chan[cb[k]] # "none"
    /\ lpc[k] \in {"read", "write", "close"} =>
          chan[cb[k]] = "mapped" /\ cloop[cb[k]] = k
    /\ lpc[k] \in {"dying", "dyingTask"} =>
          dying[k] \in Conn /\ chan[dying[k]] = "dying" /\ cloop[dying[k]] = k

AddOK(k) ==
    \A i \in 1..Len(taskQ[k]) : taskQ[k][i].op = "ADD" =>
        /\ chan[taskQ[k][i].conn] = "queued"
        /\ cloop[taskQ[k][i].conn] = k
        /\ cfd[taskQ[k][i].conn] = taskQ[k][i].fd
        /\ \A j \in 1..Len(taskQ[k]) :
              taskQ[k][j].op = "ADD" /\ taskQ[k][j].conn = taskQ[k][i].conn => j = i

LEMMA TasksTyped ==
    ASSUME TypeOK, NEW l \in Loop, NEW i \in 1..Len(taskQ[l])
    PROVE  taskQ[l][i] \in Task /\ taskQ[l][i].conn \in Conn /\ taskQ[l][i].fd \in Fd
  <1>1. taskQ[l] \in Seq(Task)
    BY DEF TypeOK
  <1>2. taskQ[l][i] \in Task
    BY <1>1, ElementOfSeq
  <1>3. QED
    BY <1>2 DEF Task

LEMMA LoopEvents ==
    ASSUME TypeInv, NEW l \in Loop, LoopStep(l),
           ~(CloseStore(l) \/ AddChannel(l) \/ AddRefused(l) \/ RemoveChannel(l) \/ RemoveNotFound(l))
    PROVE  LoopOK(l)' /\ AddOK(l)'
  <1> USE DEF TypeInv, LoopOK, AddOK, acceptVars, connVars
  <1>0. LoopOK(l) /\ AddOK(l)
    BY DEF LoopInv, AddInv
  <1>1. CASE Poll(l) \/ RunReturn(l)
    <2>1. UNCHANGED <<chan, cloop, cfd, taskQ, taken, back, cb, dying>>
      BY <1>1 DEF Poll, RunReturn
    <2>2. lpc[l] = "poll" /\ lpc'[l] \in {"events", "exited"}
      BY <1>1 DEF Poll, RunReturn, TypeOK
    <2>3. QED
      BY <1>0, <2>1, <2>2
  <1>2. ASSUME NEW c \in Conn, ActiveNotFound(l, c) PROVE LoopOK(l)' /\ AddOK(l)'
    BY <1>0, <1>2 DEF ActiveNotFound
  <1>3. ASSUME NEW c \in Conn, ActiveBegin(l, c) PROVE LoopOK(l)' /\ AddOK(l)'
    <2>1. PICK m \in Conn : cb' = [cb EXCEPT ![l] = m] /\ chan[m] = "mapped" /\ cloop[m] = l
      BY <1>3 DEF ActiveBegin, Mapped
    <2>2. cb'[l] = m /\ lpc'[l] \in {"read", "write"} /\ lpc[l] = "events"
      BY <1>3, <2>1 DEF ActiveBegin, TypeOK
    <2>3. UNCHANGED <<chan, cloop, cfd, taskQ, taken, back, dying>>
      BY <1>3 DEF ActiveBegin
    <2>4. QED
      BY <1>0, <2>1, <2>2, <2>3
  <1>4. ASSUME NEW c \in Conn, ActiveError(l, c) PROVE LoopOK(l)' /\ AddOK(l)'
    <2>1. PICK m \in Conn : Remove(l, m) /\ chan[m] = "mapped" /\ cloop[m] = l
      BY <1>4 DEF ActiveError, Mapped
    <2>2. /\ \A d \in Conn : chan'[d] = IF d = m THEN "dying" ELSE chan[d]
          /\ dying'[l] = m /\ UNCHANGED <<cfd, cloop>>
      BY <2>1, RemoveFacts
    <2>3. lpc'[l] = "dying" /\ lpc[l] = "events" /\ UNCHANGED <<back, taskQ, taken, cb>>
      BY <1>4 DEF ActiveError, TypeOK
    <2>4. LoopOK(l)'
      BY <1>0, <2>1, <2>2, <2>3 DEF TypeOK
    <2>5. \A i \in 1..Len(taskQ[l]) : taskQ[l][i].conn \in Conn
      BY TasksTyped
    <2>6. AddOK(l)'
      BY <1>0, <2>1, <2>2, <2>3, <2>5
    <2>7. QED
      BY <2>4, <2>6
  <1>5. CASE CallbackQuiet(l) \/ CloseLoad(l)
    <2>1. UNCHANGED <<chan, cloop, cfd, taskQ, taken, cb, dying>> /\ lpc[l] \in {"read", "write"}
      BY <1>5 DEF CallbackQuiet, CloseLoad
    <2>2. lpc'[l] \in {"reread", "events", "close"}
      BY <1>5 DEF CallbackQuiet, CloseLoad, Resume, TypeOK
    <2>3. QED
      BY <1>0, <2>1, <2>2 DEF TypeOK
  <1>6. CASE CallbackModify(l)
    <2>1. lpc[l] \in {"read", "write"} /\ lpc'[l] = "tasks" /\ taken'[l] = Len(taskQ[l])
          /\ UNCHANGED <<chan, cloop, cfd, taskQ, cb, dying>>
      BY <1>6 DEF CallbackModify, TypeOK
    <2>2. Len(taskQ[l]) \in Nat
      BY DEF TypeOK
    <2>3. QED
      BY <1>0, <2>1, <2>2
  <1>7. CASE AfterRead(l)
    <2>1. lpc[l] = "reread" /\ UNCHANGED <<chan, cloop, cfd, taskQ, taken, back, dying>>
      BY <1>7 DEF AfterRead
    <2>2. \/ lpc'[l] = "events" /\ cb' = cb
          \/ cb'[l] \in Conn /\ chan[cb'[l]] = "mapped" /\ cloop[cb'[l]] = l /\ lpc'[l] = "write"
      BY <1>7 DEF AfterRead, Mapped, TypeOK
    <2>3. QED
      BY <1>0, <2>1, <2>2
  <1>8. CASE StartProcess(l)
    <2>1. lpc'[l] = "tasks" /\ back'[l] = "poll" /\ taken'[l] = Len(taskQ[l])
          /\ UNCHANGED <<chan, cloop, cfd, taskQ, cb, dying>>
      BY <1>8 DEF StartProcess, TypeOK
    <2>2. Len(taskQ[l]) \in Nat
      BY DEF TypeOK
    <2>3. QED
      BY <1>0, <2>1, <2>2
  <1>9. CASE EndProcess(l)
    <2>1. lpc'[l] = back[l] /\ back[l] \in {"poll", "reread", "events"} /\ taken[l] = 0
          /\ UNCHANGED <<chan, cloop, cfd, taskQ, taken, cb, dying, back>>
      BY <1>9 DEF EndProcess, TypeOK
    <2>2. QED
      BY <1>0, <2>1
  <1>10. CASE OnChannelDestroyed(l)
    <2> DEFINE c == dying[l]
    <2>1. c \in Conn /\ chan[c] = "dying" /\ cloop[c] = l
      BY <1>0, <1>10 DEF OnChannelDestroyed
    <2>2. /\ \A d \in Conn : chan'[d] = IF d = c THEN "gone" ELSE chan[d]
          /\ UNCHANGED <<cfd, cloop, back, taskQ, taken, cb>>
      BY <1>10, <2>1 DEF OnChannelDestroyed, TypeOK
    <2>3. \/ lpc[l] = "dying" /\ lpc'[l] = "events"
          \/ lpc[l] = "dyingTask" /\ lpc'[l] = "tasks"
      BY <1>10 DEF OnChannelDestroyed, TypeOK
    <2>4. LoopOK(l)'
      BY <1>0, <2>1, <2>2, <2>3 DEF TypeOK
    <2>5. \A i \in 1..Len(taskQ[l]) : taskQ[l][i].conn \in Conn
      BY TasksTyped
    <2>6. AddOK(l)'
      BY <1>0, <2>1, <2>2, <2>5
    <2>7. QED
      BY <2>4, <2>6
  <1>11. QED
    BY <1>1, <1>2, <1>3, <1>4, <1>5, <1>6, <1>7, <1>8, <1>9, <1>10 DEF LoopStep

\* A task leaves the queue: what is left keeps its order.
LEMMA PopAdds ==
    ASSUME TypeInv, NEW l \in Loop, PopTask(l), UNCHANGED <<cloop, cfd>>,
           \A d \in Conn : chan'[d] # chan[d] =>
               \/ Head(taskQ[l]).op = "DELETE" /\ chan[d] = "mapped"
               \/ Head(taskQ[l]).op = "ADD" /\ d = Head(taskQ[l]).conn
    PROVE  AddOK(l)'
  <1> USE DEF TypeInv, AddOK
  <1>1. AddOK(l)
    BY DEF AddInv
  <1>2. /\ Len(taskQ[l]) \in Nat /\ Len(taskQ[l]) >= 1 /\ Head(taskQ[l]) = taskQ[l][1]
        /\ Len(taskQ'[l]) = Len(taskQ[l]) - 1
        /\ \A i \in 1..Len(taskQ'[l]) : taskQ'[l][i] = taskQ[l][i + 1]
    BY PopFacts
  <1>3. \A i \in 1..Len(taskQ[l]) : taskQ[l][i].conn \in Conn
    BY TasksTyped
  <1>4. ASSUME NEW i \in 1..Len(taskQ'[l]), taskQ'[l][i].op = "ADD"
        PROVE  /\ chan'[taskQ'[l][i].conn] = "queued"
               /\ cloop'[taskQ'[l][i].conn] = l
               /\ cfd'[taskQ'[l][i].conn] = taskQ'[l][i].fd
               /\ \A j \in 1..Len(taskQ'[l]) :
                     taskQ'[l][j].op = "ADD" /\ taskQ'[l][j].conn = taskQ'[l][i].conn => j = i
    <2> DEFINE c == taskQ[l][i + 1].conn
    <2>1. i + 1 \in 1..Len(taskQ[l]) /\ 1 \in 1..Len(taskQ[l]) /\ i + 1 # 1
          /\ taskQ'[l][i] = taskQ[l][i + 1] /\ taskQ[l][i + 1].op = "ADD"
      BY <1>2, <1>4
    <2>2. c \in Conn /\ chan[c] = "queued" /\ cloop[c] = l /\ cfd[c] = taskQ[l][i + 1].fd
      BY <1>1, <1>3, <2>1
    <2>3. taskQ[l][1].op = "ADD" => taskQ[l][1].conn # c
      BY <1>1, <2>1
    <2>4. chan'[c] = "queued"
      BY <1>2, <2>2, <2>3
    <2>5. \A j \in 1..Len(taskQ'[l]) : j + 1 \in 1..Len(taskQ[l]) /\ taskQ'[l][j] = taskQ[l][j + 1]
      BY <1>2
    <2>6. ASSUME NEW j \in 1..Len(taskQ'[l]), taskQ'[l][j].op = "ADD", taskQ'[l][j].conn = c
          PROVE  j = i
      <3>1. j + 1 \in 1..Len(taskQ[l]) /\ taskQ[l][j + 1].op = "ADD" /\ taskQ[l][j + 1].conn = c
        BY <2>5, <2>6
      <3>2. j + 1 = i + 1
        BY <1>1, <2>1, <3>1
      <3>3. QED
        BY <3>2
    <2>7. QED
      BY <1>2, <2>1, <2>2, <2>4, <2>6
  <1>5. QED
    BY <1>4

LEMMA LoopTasks ==
    ASSUME TypeInv, NEW l \in Loop,
           CloseStore(l) \/ AddChannel(l) \/ AddRefused(l) \/ RemoveChannel(l) \/ RemoveNotFound(l)
    PROVE  LoopOK(l)' /\ AddOK(l)'
  <1> USE DEF TypeInv, LoopOK, acceptVars, connVars
  <1>0. LoopOK(l) /\ AddOK(l)
    BY DEF LoopInv, AddInv, AddOK
  <1>1. CASE CloseStore(l)
    <2>1. cb[l] \in Conn /\ cfd[cb[l]] \in Fd
      BY <1>0, <1>1 DEF CloseStore, ConnInv, Placed
    <2>a. Push(l, "DELETE", cfd[cb[l]], cb[l])
      BY <1>1 DEF CloseStore
    <2>b. /\ Len(taskQ[l]) \in Nat /\ Len(taskQ'[l]) = Len(taskQ[l]) + 1
          /\ \A i \in 1..Len(taskQ[l]) : taskQ'[l][i] = taskQ[l][i]
          /\ taskQ'[l][Len(taskQ[l]) + 1] = [op |-> "DELETE", fd |-> cfd[cb[l]], conn |-> cb[l]]
      BY <2>1, <2>a, PushFacts
    <2>2. /\ Len(taskQ[l]) \in Nat /\ Len(taskQ'[l]) = Len(taskQ[l]) + 1
          /\ \A i \in 1..Len(taskQ[l]) : taskQ'[l][i] = taskQ[l][i]
          /\ taskQ'[l][Len(taskQ[l]) + 1].op = "DELETE"
      BY <2>b
    <2>3. /\ UNCHANGED <<chan, cfd, cloop, taken, back, cb, dying>>
          /\ lpc'[l] = back[l] /\ back[l] \in {"poll", "reread", "events"} /\ lpc[l] = "close"
      BY <1>1 DEF CloseStore, TypeOK
    <2>4. LoopOK(l)'
      BY <1>0, <2>2, <2>3 DEF TypeOK
    <2>5. \A i \in 1..Len(taskQ'[l]) : taskQ'[l][i].op = "ADD" =>
             i \in 1..Len(taskQ[l]) /\ taskQ'[l][i] = taskQ[l][i]
      BY <2>2
    <2>6. AddOK(l)'
      BY <1>0, <2>3, <2>5 DEF AddOK
    <2>7. QED
      BY <2>4, <2>6
  <1>2. CASE AddChannel(l) \/ AddRefused(l) \/ RemoveChannel(l) \/ RemoveNotFound(l)
    <2>1. PopTask(l) /\ lpc[l] = "tasks"
      BY <1>2 DEF AddChannel, AddRefused, RemoveChannel, RemoveNotFound, PopTask
    <2>2. /\ Len(taskQ[l]) \in Nat /\ Len(taskQ[l]) >= 1 /\ Head(taskQ[l]) = taskQ[l][1]
          /\ Head(taskQ[l]) \in Task
          /\ Len(taskQ'[l]) = Len(taskQ[l]) - 1 /\ taken'[l] = taken[l] - 1 /\ taken[l] \in Nat
      BY <2>1, PopFacts DEF TypeOK
    <2> DEFINE t == Head(taskQ[l])
    <2>3. t.conn \in Conn /\ (t.op = "ADD" => chan[t.conn] = "queued" /\ cloop[t.conn] = l)
      BY <1>0, <2>2 DEF Task, AddOK
    <2>4. UNCHANGED <<cloop, cfd, back, cb>>
      BY <1>2 DEF AddChannel, AddRefused, RemoveChannel, RemoveNotFound, Remove
    <2>5. CASE AddChannel(l)
      <3>1. \A d \in Conn : chan'[d] = IF d = t.conn THEN "mapped" ELSE chan[d]
        BY <2>3, <2>5 DEF AddChannel, TypeOK
      <3>2. t.op = "ADD" /\ lpc' = lpc
        BY <2>5 DEF AddChannel
      <3>3. AddOK(l)'
        BY <2>1, <2>4, <3>1, <3>2, PopAdds
      <3>4. LoopOK(l)'
        BY <1>0, <2>1, <2>2, <2>4, <3>1, <3>2 DEF TypeOK
      <3>5. QED
        BY <3>3, <3>4
    <2>6. CASE AddRefused(l) \/ RemoveChannel(l)
      <3>1. PICK m \in Conn : /\ Remove(l, m) /\ cloop[m] = l
                              /\ \/ t.op = "DELETE" /\ chan[m] = "mapped"
                                 \/ t.op = "ADD" /\ m = t.conn
        BY <2>3, <2>6 DEF AddRefused, RemoveChannel, Mapped
      <3>2. /\ \A d \in Conn : chan'[d] = IF d = m THEN "dying" ELSE chan[d]
            /\ dying'[l] = m
        BY <3>1, RemoveFacts
      <3>3. lpc'[l] = "dyingTask"
        BY <2>6 DEF AddRefused, RemoveChannel, TypeOK
      <3>4. AddOK(l)'
        <4>1. \A d \in Conn : chan'[d] # chan[d] =>
                 \/ t.op = "DELETE" /\ chan[d] = "mapped"
                 \/ t.op = "ADD" /\ d = t.conn
          BY <3>1, <3>2
        <4>2. QED
          BY <2>1, <2>4, <4>1, PopAdds
      <3>5. LoopOK(l)'
        BY <1>0, <2>1, <2>2, <2>4, <3>1, <3>2, <3>3 DEF TypeOK
      <3>6. QED
        BY <3>4, <3>5
    <2>7. CASE RemoveNotFound(l)
      <3>1. UNCHANGED <<chan, lpc, dying>>
        BY <2>7 DEF RemoveNotFound
      <3>2. AddOK(l)'
        BY <2>1, <2>4, <3>1, PopAdds
      <3>3. LoopOK(l)'
        BY <1>0, <2>1, <2>2, <2>4, <3>1
      <3>4. QED
        BY <3>2, <3>3
    <2>8. QED
      BY <1>2, <2>5, <2>6, <2>7
  <1>3. QED
    BY <1>1, <1>2

LEMMA LoopLoops ==
    ASSUME TypeInv, NEW l \in Loop, LoopStep(l)
    PROVE  LoopInv' /\ AddInv'
  <1>1. LoopOK(l)' /\ AddOK(l)'
    BY LoopEvents, LoopTasks
  <1>2. ASSUME NEW k \in Loop, k # l PROVE LoopOK(k)' /\ AddOK(k)'
    <2>1. LoopOK(k) /\ AddOK(k)
      BY DEF TypeInv, LoopInv, AddInv, LoopOK, AddOK
    <2>2. /\ lpc'[k] = lpc[k] /\ back'[k] = back[k] /\ cb'[k] = cb[k]
          /\ dying'[k] = dying[k] /\ taken'[k] = taken[k] /\ taskQ'[k] = taskQ[k]
      BY <1>2, OtherLoop
    <2>3. /\ UNCHANGED <<cloop, cfd>>
          /\ \A c \in Conn : chan'[c] # chan[c] =>
                cloop[c] = l /\ chan[c] # "none" /\ chan'[c] # "none"
      BY LoopEffect DEF HasChannel, Queued
    <2>4. LoopOK(k)'
      BY <1>2, <2>1, <2>2, <2>3 DEF LoopOK, TypeInv, TypeOK
    <2>5. \A i \in 1..Len(taskQ[k]) : taskQ[k][i].conn \in Conn
      BY TasksTyped DEF TypeInv
    <2>6. AddOK(k)'
      BY <1>2, <2>1, <2>2, <2>3, <2>5 DEF AddOK
    <2>7. QED
      BY <2>4, <2>6
  <1>3. \A k \in Loop : LoopOK(k)' /\ AddOK(k)'
    BY <1>1, <1>2
  <1>4. QED
    BY <1>3 DEF LoopOK, AddOK, LoopInv, AddInv

-----------------------------------------------------------------------------
(* The steps of the accept thread.                                          *)

\* One that queues nothing and moves no Channel leaves the loops alone.
LEMMA LoopsKept ==
    ASSUME TypeInv, UNCHANGED loopVars,
           \A c \in Conn : chan[c] # "none" =>
               chan'[c] = chan[c] /\ cloop'[c] = cloop[c] /\ cfd'[c] = cfd[c]
    PROVE  LoopInv' /\ AddInv'
  <1>1. ASSUME NEW l \in Loop PROVE LoopOK(l)' /\ AddOK(l)'
    <2>1. LoopOK(l) /\ AddOK(l)
      BY DEF TypeInv, LoopInv, AddInv, LoopOK, AddOK
    <2>2. LoopOK(l)'
      BY <2>1 DEF LoopOK, TypeInv, TypeOK, loopVars
    <2>3. \A i \in 1..Len(taskQ[l]) : taskQ[l][i].conn \in Conn
      BY TasksTyped DEF TypeInv
    <2>4. AddOK(l)'
      BY <2>1, <2>3 DEF AddOK, loopVars
    <2>5. QED
      BY <2>2, <2>4
  <1>2. QED
    BY <1>1 DEF LoopInv, AddInv, LoopOK, AddOK

\* acur and the connections as the idle close leaves them.
LEMMA IdleKeeps ==
    ASSUME Inv, \/ \E f \in Fd : IdleLoad(f)
                \/ IdleStore \/ AcceptNone \/ AcceptError \/ InitConnected
    PROVE  /\ AcceptInv' /\ ConnInv' /\ LoopInv' /\ AddInv'
           /\ ChannelConnAlive' /\ PendingOnce'
  <1> USE DEF Inv, TypeInv, acceptVars, connVars
  <1>1. UNCHANGED <<conns, pending, life, cfd, cloop, chan, loopVars>>
    BY DEF IdleLoad, IdleStore, AcceptNone, AcceptError, InitConnected
  <1>2. apc \notin {"cleared", "destroyed"} /\ apc' \notin {"cleared", "destroyed", "emplace"}
    BY DEF IdleLoad, IdleStore, AcceptNone, AcceptError, InitConnected
  <1>3. AcceptInv'
    <2>1. CASE apc' \in {"idle", "accept", "stopping"}
      BY <2>1 DEF AcceptInv
    <2>2. CASE \E f \in Fd : IdleLoad(f)
      <3>1. PICK f \in Fd : IdleLoad(f)
        BY <2>2
      <3>2. acur' \in Conn /\ acur' = conns[f] /\ cfd[acur'] = f /\ chan[acur'] # "none"
            /\ apc' = "idleStore"
        BY <3>1 DEF IdleLoad, ConnInv, TypeOK
      <3>3. QED
        BY <1>1, <3>2 DEF AcceptInv
    <2>3. CASE IdleStore /\ apc' = "idleDeref"
      <3>1. acur' = acur /\ apc = "idleStore"
        BY <2>3 DEF IdleStore
      <3>2. QED
        BY <1>1, <2>3, <3>1 DEF AcceptInv
    <2>4. QED
      BY <2>1, <2>2, <2>3 DEF IdleStore, AcceptNone, AcceptError, InitConnected
  <1>4. ConnInv'
    BY <1>1 DEF ConnInv, Placed
  <1>5. LoopInv' /\ AddInv'
    BY <1>1, LoopsKept
  <1>6. ChannelConnAlive'
    BY <1>1, <1>2 DEF ChannelConnAlive, Running
  <1>7. PendingOnce'
    BY <1>1, <1>2 DEF PendingOnce, Running, Set
  <1>8. QED
    BY <1>3, <1>4, <1>5, <1>6, <1>7

LEMMA IdleDerefKeeps ==
    ASSUME Inv, IdleDeref
    PROVE  /\ AcceptInv' /\ ConnInv' /\ LoopInv' /\ AddInv'
           /\ ChannelConnAlive' /\ PendingOnce'
  <1> USE DEF Inv, TypeInv, acceptVars, connVars
  <1>1. UNCHANGED <<conns, pending, life, cfd, cloop, chan, lpc, back, taken, cb, dying>>
        /\ apc = "idleDeref" /\ apc' = "idle"
    BY DEF IdleDeref
  <1>2. AcceptInv' /\ ConnInv'
    BY <1>1 DEF AcceptInv, ConnInv, Placed
  <1>3. ChannelConnAlive' /\ PendingOnce'
    BY <1>1 DEF ChannelConnAlive, PendingOnce, Running, Set
  <1>4. LoopInv' /\ AddInv'
    <2>1. acur \in Conn /\ cfd[acur] \in Fd /\ cloop[acur] \in Loop
      BY <1>1 DEF AcceptInv, ConnInv, Placed
    <2>2. CASE UNCHANGED taskQ
      BY <1>1, <2>2 DEF LoopInv, AddInv
    <2>3. CASE Push(cloop[acur], "DELETE", cfd[acur], acur)
      <3> DEFINE l == cloop[acur]
      <3>1. /\ \A k \in Loop \ {l} : taskQ'[k] = taskQ[k]
            /\ Len(taskQ[l]) \in Nat /\ Len(taskQ'[l]) = Len(taskQ[l]) + 1
            /\ \A i \in 1..Len(taskQ[l]) : taskQ'[l][i] = taskQ[l][i]
            /\ taskQ'[l][Len(taskQ[l]) + 1] = [op |-> "DELETE", fd |-> cfd[acur], conn |-> acur]
        BY <2>1, <2>3, PushFacts
      <3>2. ASSUME NEW k \in Loop PROVE LoopOK(k)' /\ AddOK(k)'
        <4>1. LoopOK(k) /\ AddOK(k)
          BY DEF LoopInv, AddInv, LoopOK, AddOK
        <4>2. CASE k # l
          BY <1>1, <3>1, <4>1, <4>2 DEF LoopOK, AddOK
        <4>3. CASE k = l
          <5>1. LoopOK(k)'
            BY <1>1, <3>1, <4>1, <4>3 DEF LoopOK, TypeOK
          <5>2. \A i \in 1..Len(taskQ'[l]) : taskQ'[l][i].op = "ADD" =>
                   i \in 1..Len(taskQ[l]) /\ taskQ'[l][i] = taskQ[l][i]
            BY <3>1
          <5>3. AddOK(k)'
            BY SMTT(30), <1>1, <4>1, <4>3, <5>2 DEF AddOK
          <5>4. QED
            BY <5>1, <5>3
        <4>4. QED
          BY <4>2, <4>3
      <3>3. QED
        BY <3>2 DEF LoopInv, AddInv, LoopOK, AddOK
    <2>4. QED
      BY <2>2, <2>3 DEF IdleDeref
  <1>5. QED
    BY <1>2, <1>3, <1>4

LEMMA CleanupKeeps ==
    ASSUME Inv, Cleanup
    PROVE  /\ AcceptInv' /\ ConnInv' /\ LoopInv' /\ AddInv'
           /\ ChannelConnAlive' /\ PendingOnce'
  <1> USE DEF Inv, TypeInv, acceptVars, connVars
  <1> DEFINE gone == {f \in Set(pending) : conns[f] # None}
  <1>1. /\ UNCHANGED <<cfd, cloop, chan, loopVars>> /\ pending' = <<>>
        /\ apc = "idle" /\ apc' = "accept"
        /\ conns' = [f \in Fd |-> IF f \in gone THEN None ELSE conns[f]]
        /\ life' = [c \in Conn |-> IF \E f \in gone : conns[f] = c THEN "freed" ELSE life[c]]
    BY DEF Cleanup
  <1>2. \A f \in gone : f \in Fd /\ conns[f] \in Conn /\ chan[conns[f]] = "gone"
    <2>1. \A f \in Set(pending) : f \in Fd
      BY ElementOfSeq DEF Set, TypeOK
    <2>2. Running
      BY <1>1 DEF Running
    <2>3. QED
      BY <2>1, <2>2 DEF PendingOnce, TypeOK
  <1>3. AcceptInv'
    BY <1>1 DEF AcceptInv
  <1>4. ConnInv'
    <2>1. ASSUME NEW f \in Fd, conns'[f] # None
          PROVE  cfd[conns[f]] = f /\ life'[conns[f]] = "alive" /\ chan[conns[f]] # "none"
                 /\ conns'[f] = conns[f]
      <3>1. f \notin gone /\ conns'[f] = conns[f] /\ conns[f] \in Conn
        BY <1>1, <2>1 DEF TypeOK
      <3>2. cfd[conns[f]] = f /\ life[conns[f]] = "alive" /\ chan[conns[f]] # "none"
        BY <2>1, <3>1 DEF ConnInv
      <3>3. \A g \in gone : conns[g] # conns[f]
        BY <1>2, <3>1, <3>2 DEF ConnInv, TypeOK
      <3>4. QED
        BY <1>1, <3>1, <3>2, <3>3
    <2>2. \A c \in Conn : life'[c] = "fresh" => life[c] = "fresh"
      BY <1>1
    <2>3. QED
      BY <1>1, <2>1, <2>2 DEF ConnInv, Placed
  <1>5. LoopInv' /\ AddInv'
    BY <1>1, LoopsKept
  <1>6. ChannelConnAlive'
    <2>1. Running
      BY <1>1 DEF Running
    <2>2. ASSUME NEW c \in Conn, chan[c] \in HasChannel
          PROVE  life'[c] = "alive" /\ conns'[cfd[c]] = c
      <3>1. life[c] = "alive" /\ conns[cfd[c]] = c /\ cfd[c] \in Fd
        BY <2>1, <2>2 DEF ChannelConnAlive, ConnInv, Placed, HasChannel, Queued
      <3>2. cfd[c] \notin gone /\ \A g \in gone : conns[g] # c
        BY <1>2, <2>2, <3>1 DEF HasChannel, Queued
      <3>3. QED
        BY <1>1, <3>1, <3>2
    <2>3. QED
      BY <1>1, <2>2 DEF ChannelConnAlive
  <1>7. PendingOnce'
    BY <1>1 DEF PendingOnce, Set
  <1>8. QED
    BY <1>3, <1>4, <1>5, <1>6, <1>7

LEMMA AcceptKeeps ==
    ASSUME Inv, NEW f \in Fd, NEW c \in Conn, NEW l \in Loop, Accept(f, c, l)
    PROVE  /\ AcceptInv' /\ ConnInv' /\ LoopInv' /\ AddInv'
           /\ ChannelConnAlive' /\ PendingOnce'
  <1> USE DEF Inv, TypeInv, acceptVars, connVars
  <1>1. /\ UNCHANGED <<conns, pending, chan, loopVars>>
        /\ apc = "accept" /\ apc' = "emplace" /\ acur' = c /\ life[c] = "fresh"
        /\ \A d \in Conn : /\ life'[d] = IF d = c THEN "alive" ELSE life[d]
                           /\ cfd'[d] = IF d = c THEN f ELSE cfd[d]
                           /\ cloop'[d] = IF d = c THEN l ELSE cloop[d]
    BY DEF Accept, TypeOK
  <1>2. chan[c] = "none" /\ \A g \in Fd : conns[g] # c
    BY <1>1 DEF ConnInv
  <1>3. AcceptInv'
    BY <1>1, <1>2 DEF AcceptInv, Placed
  <1>4. ConnInv'
    <2>1. \A g \in Fd : conns[g] # None => conns[g] \in Conn /\ conns[g] # c
      BY <1>2 DEF TypeOK
    <2>2. \A g \in Fd : conns[g] # None =>
             cfd'[conns[g]] = g /\ life'[conns[g]] = "alive" /\ chan[conns[g]] # "none"
      BY <1>1, <2>1 DEF ConnInv
    <2>3. QED
      BY <1>1, <1>2, <2>2 DEF ConnInv, Placed
  <1>5. LoopInv' /\ AddInv'
    <2>1. \A d \in Conn : chan[d] # "none" =>
             chan'[d] = chan[d] /\ cloop'[d] = cloop[d] /\ cfd'[d] = cfd[d]
      BY <1>1, <1>2
    <2>2. QED
      BY <1>1, <2>1, LoopsKept
  <1>6. ChannelConnAlive'
    BY <1>1, <1>2 DEF ChannelConnAlive, Running, HasChannel, Queued
  <1>7. PendingOnce'
    BY <1>1 DEF PendingOnce, Running, Set
  <1>8. QED
    BY <1>3, <1>4, <1>5, <1>6, <1>7

LEMMA ConflictKeeps ==
    ASSUME Inv, EmplaceConflict
    PROVE  /\ AcceptInv' /\ ConnInv' /\ LoopInv' /\ AddInv'
           /\ ChannelConnAlive' /\ PendingOnce'
  <1> USE DEF Inv, TypeInv, acceptVars, connVars
  <1>1. /\ UNCHANGED <<conns, pending, cfd, cloop, chan, loopVars>>
        /\ apc = "emplace" /\ apc' = "idle"
        /\ \A d \in Conn : life'[d] = IF d = acur THEN "freed" ELSE life[d]
    BY DEF EmplaceConflict, TypeOK
  <1>2. acur \in Conn /\ chan[acur] = "none" /\ \A g \in Fd : conns[g] # acur
    BY <1>1 DEF AcceptInv
  <1>3. AcceptInv'
    BY <1>1 DEF AcceptInv
  <1>4. ConnInv'
    <2>1. \A g \in Fd : conns[g] # None => conns[g] \in Conn /\ conns[g] # acur
      BY <1>2 DEF TypeOK
    <2>2. QED
      BY <1>1, <1>2, <2>1 DEF ConnInv, Placed
  <1>5. LoopInv' /\ AddInv'
    BY <1>1, LoopsKept
  <1>6. ChannelConnAlive'
    BY <1>1, <1>2 DEF ChannelConnAlive, Running, HasChannel, Queued
  <1>7. PendingOnce'
    BY <1>1 DEF PendingOnce, Running, Set
  <1>8. QED
    BY <1>3, <1>4, <1>5, <1>6, <1>7

LEMMA EmplaceKeeps ==
    ASSUME Inv, EmplaceInit
    PROVE  /\ AcceptInv' /\ ConnInv' /\ LoopInv' /\ AddInv'
           /\ ChannelConnAlive' /\ PendingOnce'
  <1> USE DEF Inv, TypeInv, acceptVars, connVars
  <1>1. /\ UNCHANGED <<acur, pending, life, cfd, cloop, lpc, back, taken, cb, dying>>
        /\ apc = "emplace" /\ apc' = "init"
        /\ conns[cfd[acur]] = None
        /\ Push(cloop[acur], "ADD", cfd[acur], acur)
    BY DEF EmplaceInit
  <1>2. /\ acur \in Conn /\ cfd[acur] \in Fd /\ cloop[acur] \in Loop
        /\ life[acur] = "alive" /\ chan[acur] = "none" /\ \A g \in Fd : conns[g] # acur
    BY <1>1 DEF AcceptInv, Placed
  <1>3. /\ \A g \in Fd : conns'[g] = IF g = cfd[acur] THEN acur ELSE conns[g]
        /\ \A d \in Conn : chan'[d] = IF d = acur THEN "queued" ELSE chan[d]
    BY DEF EmplaceInit, TypeOK
  <1>4. AcceptInv'
    BY <1>1, <1>2, <1>3 DEF AcceptInv
  <1>5. ConnInv'
    <2>1. ASSUME NEW g \in Fd, conns'[g] # None
          PROVE  cfd'[conns'[g]] = g /\ life'[conns'[g]] = "alive" /\ chan'[conns'[g]] # "none"
      <3>1. CASE g = cfd[acur]
        BY <1>1, <1>2, <1>3, <3>1
      <3>2. CASE g # cfd[acur]
        <4>1. conns'[g] = conns[g] /\ conns[g] \in Conn /\ conns[g] # acur
          BY <1>2, <1>3, <2>1, <3>2 DEF TypeOK
        <4>2. QED
          BY <1>1, <1>3, <2>1, <4>1 DEF ConnInv
      <3>3. QED
        BY <3>1, <3>2
    <2>2. \A c \in Conn : life'[c] = "fresh" => chan'[c] = "none"
      BY <1>1, <1>2, <1>3 DEF ConnInv
    <2>3. \A c \in Conn : chan'[c] # "none" => Placed(c)'
      BY <1>1, <1>2, <1>3 DEF ConnInv, Placed
    <2>4. QED
      BY <2>1, <2>2, <2>3 DEF ConnInv
  <1>6. LoopInv' /\ AddInv'
    <2> DEFINE l == cloop[acur]
    <2>a. /\ \A k \in Loop \ {l} : taskQ'[k] = taskQ[k]
          /\ Len(taskQ[l]) \in Nat /\ Len(taskQ'[l]) = Len(taskQ[l]) + 1
          /\ \A i \in 1..Len(taskQ[l]) : taskQ'[l][i] = taskQ[l][i]
          /\ taskQ'[l][Len(taskQ[l]) + 1] = [op |-> "ADD", fd |-> cfd[acur], conn |-> acur]
      BY <1>1, <1>2, PushFacts
    <2>1. /\ \A k \in Loop \ {l} : taskQ'[k] = taskQ[k]
          /\ Len(taskQ[l]) \in Nat /\ Len(taskQ'[l]) = Len(taskQ[l]) + 1
          /\ \A i \in 1..Len(taskQ[l]) : taskQ'[l][i] = taskQ[l][i]
          /\ taskQ'[l][Len(taskQ[l]) + 1].conn = acur
          /\ taskQ'[l][Len(taskQ[l]) + 1].fd = cfd[acur]
      BY <2>a
    <2>2. ASSUME NEW k \in Loop PROVE LoopOK(k)' /\ AddOK(k)'
      <3>1. LoopOK(k) /\ AddOK(k)
        BY DEF LoopInv, AddInv, LoopOK, AddOK
      <3>2. cb[k] \in Conn \cup {None} /\ dying[k] \in Conn \cup {None} /\ acur # None
            /\ taken[k] \in Nat
        BY <1>2 DEF TypeOK
      <3>3. LoopOK(k)'
        <4>1. CASE k # l
          BY <1>1, <1>2, <1>3, <2>1, <3>1, <3>2, <4>1 DEF LoopOK
        <4>2. CASE k = l
          BY <1>1, <1>2, <1>3, <2>1, <3>1, <3>2, <4>2 DEF LoopOK
        <4>3. QED
          BY <4>1, <4>2
      <3>4. \A i \in 1..Len(taskQ[k]) : taskQ[k][i].conn \in Conn
        BY TasksTyped
      <3>5. \A i \in 1..Len(taskQ[k]) : taskQ[k][i].op = "ADD" => taskQ[k][i].conn # acur
        BY <1>2, <3>1, <3>4 DEF AddOK
      <3>6. CASE k # l
        BY <1>1, <1>3, <2>1, <3>1, <3>3, <3>4, <3>5, <3>6 DEF AddOK
      <3>7. CASE k = l
        <4>1. \A i \in 1..Len(taskQ'[k]) :
                 i \in 1..Len(taskQ[k]) \/ i = Len(taskQ[k]) + 1
          BY <2>1, <3>7
        <4>2. ASSUME NEW i \in 1..Len(taskQ'[k]), taskQ'[k][i].op = "ADD"
              PROVE  /\ chan'[taskQ'[k][i].conn] = "queued"
                     /\ cloop'[taskQ'[k][i].conn] = k
                     /\ cfd'[taskQ'[k][i].conn] = taskQ'[k][i].fd
                     /\ \A j \in 1..Len(taskQ'[k]) :
                          taskQ'[k][j].op = "ADD" /\ taskQ'[k][j].conn = taskQ'[k][i].conn => j = i
          <5>1. CASE i \in 1..Len(taskQ[k])
            <6>1. taskQ'[k][i] = taskQ[k][i] /\ taskQ[k][i].op = "ADD"
                  /\ taskQ[k][i].conn \in Conn /\ taskQ[k][i].conn # acur
              BY <2>1, <3>4, <3>5, <3>7, <4>2, <5>1
            <6>2. /\ chan[taskQ[k][i].conn] = "queued" /\ cloop[taskQ[k][i].conn] = k
                  /\ cfd[taskQ[k][i].conn] = taskQ[k][i].fd
                  /\ \A j \in 1..Len(taskQ[k]) :
                       taskQ[k][j].op = "ADD" /\ taskQ[k][j].conn = taskQ[k][i].conn => j = i
              BY <3>1, <5>1, <6>1 DEF AddOK
            <6>3. ASSUME NEW j \in 1..Len(taskQ'[k]), taskQ'[k][j].op = "ADD",
                         taskQ'[k][j].conn = taskQ[k][i].conn
                  PROVE  j = i
              <7>1. j \in 1..Len(taskQ[k])
                BY <2>1, <3>7, <4>1, <6>1, <6>3
              <7>2. QED
                BY <2>1, <3>7, <6>2, <6>3, <7>1
            <6>4. QED
              BY <1>1, <1>3, <6>1, <6>2, <6>3
          <5>2. CASE i = Len(taskQ[k]) + 1
            BY <1>1, <1>2, <1>3, <2>1, <3>5, <3>7, <4>1, <5>2
          <5>3. QED
            BY <4>1, <5>1, <5>2
        <4>3. QED
          BY <3>3, <4>2 DEF AddOK
      <3>8. QED
        BY <3>6, <3>7
    <2>3. QED
      BY <2>2 DEF LoopInv, AddInv, LoopOK, AddOK
  <1>7. ChannelConnAlive'
    <2>1. Running
      BY <1>1 DEF Running
    <2>2. ASSUME NEW c \in Conn, chan'[c] \in HasChannel
          PROVE  life'[c] = "alive" /\ conns'[cfd'[c]] = c
      <3>1. CASE c = acur
        BY <1>1, <1>2, <1>3, <3>1
      <3>2. CASE c # acur
        <4>1. life[c] = "alive" /\ conns[cfd[c]] = c /\ cfd[c] \in Fd
          BY <1>3, <2>1, <2>2, <3>2 DEF ChannelConnAlive, ConnInv, Placed, HasChannel, Queued
        <4>2. QED
          BY <1>1, <1>3, <4>1
      <3>3. QED
        BY <3>1, <3>2
    <2>3. QED
      BY <2>2 DEF ChannelConnAlive
  <1>8. PendingOnce'
    <2>1. Running /\ \A f \in Set(pending) : f \in Fd
      BY <1>1, ElementOfSeq DEF Running, Set, TypeOK
    <2>2. \A f \in Set(pending) : conns'[f] = conns[f] /\ conns[f] \in Conn \ {acur}
                                  /\ chan'[conns[f]] = chan[conns[f]]
      BY <1>1, <1>2, <1>3, <2>1 DEF PendingOnce, TypeOK
    <2>3. Set(pending)' = Set(pending)
      BY <1>1 DEF Set
    <2>4. QED
      BY <1>1, <2>1, <2>2, <2>3 DEF PendingOnce
  <1>9. QED
    BY <1>4, <1>5, <1>6, <1>7, <1>8

LEMMA StopKeeps ==
    ASSUME Inv, StopClear \/ DestroyLoops
    PROVE  /\ AcceptInv' /\ ConnInv' /\ LoopInv' /\ AddInv'
           /\ ChannelConnAlive' /\ PendingOnce'
  <1> USE DEF Inv, TypeInv, acceptVars, connVars
  <1>1. /\ UNCHANGED <<pending, cfd, cloop, lpc, back, taken, cb, dying>>
        /\ apc' \in {"cleared", "destroyed"}
        /\ \A l \in Loop : lpc[l] = "exited"
    BY DEF StopClear, DestroyLoops, AcceptInv, loopVars
  <1>2. AcceptInv'
    BY <1>1 DEF AcceptInv
  <1>3. ChannelConnAlive' /\ PendingOnce'
    BY <1>1 DEF ChannelConnAlive, PendingOnce, Running, Set
  <1>4. CASE StopClear
    <2>1. /\ UNCHANGED <<chan, loopVars>> /\ \A f \in Fd : conns'[f] = None
          /\ \A c \in Conn : life'[c] = "fresh" => life[c] = "fresh"
      BY <1>4 DEF StopClear
    <2>2. ConnInv'
      BY <1>1, <2>1 DEF ConnInv, Placed
    <2>3. LoopInv' /\ AddInv'
      BY <1>1, <2>1, LoopsKept
    <2>4. QED
      BY <1>2, <1>3, <2>2, <2>3
  <1>5. CASE DestroyLoops
    <2>1. /\ UNCHANGED <<conns, life>> /\ \A l \in Loop : taskQ'[l] = <<>>
          /\ \A c \in Conn : (chan'[c] = "none") <=> (chan[c] = "none")
      BY <1>5 DEF DestroyLoops, TypeOK
    <2>2. ConnInv'
      BY <1>1, <2>1 DEF ConnInv, Placed, TypeOK
    <2>3. LoopInv'
      BY <1>1, <2>1 DEF LoopInv, TypeOK
    <2>4. AddInv'
      BY <2>1 DEF AddInv
    <2>5. QED
      BY <1>2, <1>3, <2>2, <2>3, <2>4
  <1>6. QED
    BY <1>4, <1>5

-----------------------------------------------------------------------------
(* The invariance of Inv.                                                   *)

LEMMA InvInit == Init => Inv
  <1> SUFFICES ASSUME Init PROVE Inv
    OBVIOUS
  <1> USE DEF Init
  <1>1. TypeOK
    BY DEF TypeOK, ChanPlace, LoopPc
  <1>2. AcceptInv /\ ConnInv
    BY DEF AcceptInv, ConnInv
  <1>3. LoopInv /\ AddInv
    BY DEF LoopInv, AddInv
  <1>4. ChannelConnAlive
    BY DEF ChannelConnAlive, HasChannel, Queued
  <1>5. PendingOnce
    BY DEF PendingOnce, Set
  <1>6. QED
    BY <1>1, <1>2, <1>3, <1>4, <1>5 DEF Inv, TypeInv

LEMMA InvStep == Inv /\ [Next]_vars => Inv'
  <1> SUFFICES ASSUME Inv, [Next]_vars PROVE Inv'
    OBVIOUS
  <1>1. CASE AcceptStep \/ StopStep
    <2>1. TypeOK'
      BY <1>1, AcceptTypes DEF Inv
    <2>2. /\ AcceptInv' /\ ConnInv' /\ LoopInv' /\ AddInv'
          /\ ChannelConnAlive' /\ PendingOnce'
      BY <1>1, IdleKeeps, IdleDerefKeeps, CleanupKeeps, AcceptKeeps, ConflictKeeps,
         EmplaceKeeps, StopKeeps
      DEF AcceptStep, StopStep
    <2>3. QED
      BY <2>1, <2>2 DEF Inv, TypeInv
  <1>2. ASSUME NEW l \in Loop, LoopStep(l) PROVE Inv'
    <2>1. TypeInv
      BY DEF Inv
    <2>2. TypeOK'
      BY <1>2, <2>1, LoopTypes
    <2>3. LoopInv' /\ AddInv'
      BY <1>2, <2>1, LoopLoops
    <2>4. AcceptInv' /\ ConnInv' /\ ChannelConnAlive' /\ PendingOnce'
      BY <1>2, LoopConn
    <2>5. QED
      BY <2>2, <2>3, <2>4 DEF Inv, TypeInv
  <1>3. CASE UNCHANGED vars
    <2>1. UNCHANGED <<apc, acur, conns, acceptOk, acceptFail, opened, closed, pending>>
          /\ UNCHANGED <<fdOpen, life, cfd, cloop, state, chanPtr, chan>>
          /\ UNCHANGED <<lpc, back, taskQ, taken, batch, cb, dying>>
      BY <1>3 DEF vars
    <2>2. TypeOK'
      BY <2>1 DEF Inv, TypeInv, TypeOK
    <2>3. AcceptInv' /\ ConnInv'
      BY <2>1 DEF Inv, TypeInv, AcceptInv, ConnInv, Placed
    <2>4. LoopInv' /\ AddInv'
      BY <2>1 DEF Inv, TypeInv, LoopInv, AddInv
    <2>5. ChannelConnAlive' /\ PendingOnce'
      BY <2>1 DEF Inv, ChannelConnAlive, PendingOnce, Running, Set
    <2>6. QED
      BY <2>2, <2>3, <2>4, <2>5 DEF Inv, TypeInv
  <1>4. QED
    BY <1>1, <1>2, <1>3 DEF Next

LEMMA InvAlways == Spec => []Inv
  BY InvInit, InvStep, PTL DEF Spec

\* Every variable keeps its type: pendingCloseFds_ and the task queues hold
\* descriptors only, every callback runs on a connection.
THEOREM TypeCorrect == Spec => []TypeOK
  <1>1. Inv => TypeOK
    BY DEF Inv, TypeInv
  <1>2. QED
    BY <1>1, InvAlways, PTL

\* While the server runs the raw "this" in a Channel's callbacks is a live
\* connection, and the one conns_ holds under the Channel's descriptor.
THEOREM NoDanglingThis == Spec => []ChannelConnAlive
  <1>1. Inv => ChannelConnAlive
    BY DEF Inv
  <1>2. QED
    BY <1>1, InvAlways, PTL

-----------------------------------------------------------------------------
(* Recycling and the counters.                                              *)

Entries == {f \in Fd : conns[f] # None}

NoLeak ==
    /\ \A f \in Fd : conns[f] # None => chan[conns[f]] \in HasChannel \/ f \in Set(pending)
    /\ apc \in {"cleared", "destroyed"} => Entries = {}

LEMMA NoLeakStep == Inv /\ NoLeak /\ [Next]_vars => NoLeak'
  <1> SUFFICES ASSUME Inv, NoLeak, [Next]_vars PROVE NoLeak'
    OBVIOUS
  <1> USE DEF Inv, TypeInv, acceptVars, connVars, Entries
  <1>1. ASSUME UNCHANGED <<conns, chan, pending>>,
               apc' \in {"cleared", "destroyed"} => apc \in {"cleared", "destroyed"}
        PROVE  NoLeak'
    BY <1>1 DEF NoLeak, Set
  <1>2. CASE Cleanup
    <2> DEFINE gone == {f \in Set(pending) : conns[f] # None}
    <2>1. /\ UNCHANGED chan /\ apc' = "accept"
          /\ conns' = [f \in Fd |-> IF f \in gone THEN None ELSE conns[f]]
      BY <1>2 DEF Cleanup
    <2>2. ASSUME NEW f \in Fd, conns'[f] # None PROVE chan'[conns'[f]] \in HasChannel
      BY <2>1, <2>2 DEF NoLeak
    <2>3. QED
      BY <2>1, <2>2 DEF NoLeak
  <1>3. CASE EmplaceInit
    <2>1. /\ UNCHANGED pending /\ apc' = "init" /\ acur \in Conn /\ cfd[acur] \in Fd
          /\ chan' = [chan EXCEPT ![acur] = "queued"]
          /\ conns' = [conns EXCEPT ![cfd[acur]] = acur]
          /\ \A f \in Fd : conns[f] # acur
      BY <1>3 DEF EmplaceInit, AcceptInv, Placed
    <2>2. QED
      BY <2>1 DEF NoLeak, TypeOK, HasChannel, Queued, Set
  <1>4. CASE StopClear
    BY <1>4 DEF StopClear, NoLeak
  <1>5. CASE DestroyLoops
    BY <1>5 DEF DestroyLoops, NoLeak
  <1>6. ASSUME NEW l \in Loop, LoopStep(l) PROVE NoLeak'
    <2>1. /\ UNCHANGED <<apc, conns, cfd>> /\ apc \notin {"cleared", "destroyed"}
          /\ \A c \in Conn : chan'[c] # chan[c] => chan[c] \in HasChannel /\ chan'[c] # "none"
      BY <1>6, LoopEffect
    <2>2. \A c \in Conn : chan'[c] \in ChanPlace
      BY <1>6, LoopTypes DEF TypeOK
    <2>3. CASE pending' = pending /\ \A c \in Conn : chan'[c] = "gone" => chan[c] = "gone"
      <3>1. \A f \in Fd : conns[f] # None => conns[f] \in Conn
        BY DEF TypeOK
      <3>2. QED
        BY <2>1, <2>2, <2>3, <3>1 DEF NoLeak, HasChannel, Queued, ChanPlace, Set
    <2>4. CASE /\ dying[l] \in Conn /\ chan[dying[l]] = "dying"
               /\ pending' = Append(pending, cfd[dying[l]])
               /\ chan' = [chan EXCEPT ![dying[l]] = "gone"]
      <3>1. cfd[dying[l]] \in Fd /\ pending \in Seq(Fd)
        BY <2>4 DEF ConnInv, Placed, TypeOK
      <3>2. Set(pending) \cup {cfd[dying[l]]} \subseteq Set(pending')
        <4>1. /\ Len(pending) \in Nat /\ Len(pending') = Len(pending) + 1
              /\ pending'[Len(pending) + 1] = cfd[dying[l]]
              /\ \A i \in 1..Len(pending) : pending'[i] = pending[i]
          BY <2>4, <3>1
        <4>2. 1..Len(pending) \subseteq 1..Len(pending') /\ Len(pending) + 1 \in 1..Len(pending')
          BY <4>1
        <4>3. QED
          BY <4>1, <4>2 DEF Set
      <3>3. ASSUME NEW f \in Fd, conns[f] # None
            PROVE  chan'[conns[f]] \in HasChannel \/ f \in Set(pending')
        <4>1. conns[f] \in Conn /\ cfd[conns[f]] = f
          BY <3>3 DEF TypeOK, ConnInv
        <4>2. CASE conns[f] = dying[l]
          BY <3>2, <4>1, <4>2
        <4>3. CASE conns[f] # dying[l]
          BY <2>4, <3>2, <3>3, <4>1, <4>3 DEF NoLeak, TypeOK
        <4>4. QED
          BY <4>2, <4>3
      <3>4. QED
        BY <2>1, <3>3 DEF NoLeak
    <2>5. QED
      BY <1>6, <2>3, <2>4, LoopEffect
  <1>7. QED
    BY <1>1, <1>2, <1>3, <1>4, <1>5, <1>6
    DEF Next, AcceptStep, StopStep, vars, IdleLoad, IdleStore, IdleDeref, AcceptNone, Accept,
        EmplaceConflict, InitConnected, AcceptError

\* pendingCloseFds_ names each connection that lost its Channel once, and no
\* other, although it holds descriptors that are free to be reused; so every
\* connection that was closed is recycled by the next cleanup.
THEOREM RecyclingExact == Spec => []PendingExact
  <1>1. Init => NoLeak
    BY DEF Init, NoLeak, Entries
  <1>2. Inv /\ NoLeak => PendingExact
    BY DEF Inv, NoLeak, PendingExact
  <1>3. QED
    BY <1>1, <1>2, NoLeakStep, InvAlways, PTL DEF Spec

LEMMA EntriesFinite ==
    Entries \in SUBSET Fd /\ IsFiniteSet(Entries) /\ Cardinality(Entries) \in Nat
  BY FdCount DEF Entries

LEMMA MetricsStep == Inv /\ MetricsExact /\ [Next]_vars => MetricsExact'
  <1> SUFFICES ASSUME Inv, MetricsExact, [Next]_vars PROVE MetricsExact'
    OBVIOUS
  <1> USE DEF Inv, TypeInv, acceptVars, Running
  <1>1. /\ acceptOk \in Nat /\ acceptFail \in Nat /\ opened \in Nat /\ closed \in Nat
        /\ Cardinality(Entries) \in Nat
    BY EntriesFinite DEF TypeOK
  <1>2. ASSUME UNCHANGED <<conns, acceptOk, acceptFail, opened, closed>>,
               \/ UNCHANGED apc
               \/ apc \notin {"emplace", "init"} /\ apc' \notin {"emplace", "init"}
                  /\ (Running' => Running)
                  /\ apc' \in {"idle", "idleStore", "idleDeref", "accept",
                             "cleared", "destroyed", "stopping"}
                  /\ (apc' \in {"idle", "idleStore", "idleDeref", "accept"} =>
                        apc \in {"idle", "idleStore", "idleDeref", "accept"})
        PROVE  MetricsExact'
    BY <1>2 DEF MetricsExact
  <1>3. CASE (\E f \in Fd : IdleLoad(f)) \/ IdleStore \/ IdleDeref \/ AcceptNone \/ DestroyLoops
    BY <1>2, <1>3 DEF IdleLoad, IdleStore, IdleDeref, AcceptNone, DestroyLoops
  <1>4. CASE Cleanup
    <2> DEFINE gone == {f \in Set(pending) : conns[f] # None}
    <2>1. /\ UNCHANGED <<acceptOk, acceptFail, opened>> /\ apc = "idle" /\ apc' = "accept"
          /\ conns' = [f \in Fd |-> IF f \in gone THEN None ELSE conns[f]]
          /\ closed' = closed + Cardinality(gone)
      BY <1>4 DEF Cleanup
    <2>2. gone \subseteq Entries
      <3>1. \A f \in Set(pending) : f \in Fd
        BY ElementOfSeq DEF Set, TypeOK
      <3>2. QED
        BY <3>1 DEF Entries
    <2>3. Entries' = Entries \ gone
      BY <2>1 DEF Entries
    <2>4. Cardinality(Entries') = Cardinality(Entries) - Cardinality(gone)
          /\ Cardinality(gone) \in Nat
      <3>1. Entries \cap gone = gone
        BY <2>2
      <3>2. IsFiniteSet(gone) /\ Cardinality(gone) \in Nat
        BY <2>2, EntriesFinite, FdCount
      <3>3. QED
        BY <2>3, <3>1, <3>2, EntriesFinite, FS_Difference
    <2>5. QED
      BY <1>1, <2>1, <2>4 DEF MetricsExact, Entries
  <1>5. CASE \E f \in Fd, c \in Conn, l \in Loop : Accept(f, c, l)
    BY <1>1, <1>5 DEF Accept, MetricsExact
  <1>6. CASE EmplaceConflict
    BY <1>1, <1>6 DEF EmplaceConflict, MetricsExact
  <1>7. CASE EmplaceInit
    <2>1. /\ UNCHANGED <<acceptOk, acceptFail, opened, closed>>
          /\ apc = "emplace" /\ apc' = "init"
          /\ acur \in Conn /\ cfd[acur] \in Fd /\ conns[cfd[acur]] = None
          /\ conns' = [conns EXCEPT ![cfd[acur]] = acur]
      BY <1>7 DEF EmplaceInit, AcceptInv, Placed
    <2>2. Entries' = Entries \cup {cfd[acur]} /\ cfd[acur] \notin Entries
      BY <2>1 DEF Entries, TypeOK
    <2>3. Cardinality(Entries') = Cardinality(Entries) + 1
      BY <2>2, EntriesFinite, FS_AddElement
    <2>4. QED
      BY <1>1, <2>1, <2>3 DEF MetricsExact, Entries
  <1>8. CASE InitConnected
    BY <1>1, <1>8 DEF InitConnected, MetricsExact, Entries
  <1>9. CASE AcceptError \/ StopClear
    BY <1>9 DEF AcceptError, StopClear, MetricsExact
  <1>10. ASSUME NEW l \in Loop, LoopStep(l) PROVE MetricsExact'
    <2>1. UNCHANGED <<apc, conns, acceptOk, acceptFail, opened, closed>>
      BY <1>10
      DEF LoopStep, Poll, RunReturn, ActiveNotFound, ActiveError, ActiveBegin, Remove,
          CallbackQuiet, CallbackModify, CloseLoad, CloseStore, AfterRead, StartProcess,
          EndProcess, AddChannel, AddRefused, RemoveChannel, RemoveNotFound, PopTask,
          OnChannelDestroyed
    <2>2. QED
      BY <1>2, <2>1
  <1>11. QED
    BY <1>2, <1>3, <1>4, <1>5, <1>6, <1>7, <1>8, <1>9, <1>10
    DEF Next, AcceptStep, StopStep, vars

\* activeConnections is the number of live entries of conns_, so it never wraps
\* below zero, and every accepted descriptor is reported once more, as opened or
\* as failed, for any number of connections.
THEOREM CountersAgree == Spec => []MetricsExact
  <1>1. Init => MetricsExact
    <2> SUFFICES ASSUME Init PROVE MetricsExact
      OBVIOUS
    <2>1. {f \in Fd : conns[f] # None} = {}
      BY DEF Init
    <2>2. Cardinality({f \in Fd : conns[f] # None}) = 0
      BY <2>1, FS_EmptySet
    <2>3. apc = "idle" /\ acceptOk = 0 /\ acceptFail = 0 /\ opened = 0 /\ closed = 0
      BY DEF Init
    <2>4. QED
      BY <2>2, <2>3 DEF MetricsExact
  <1>2. QED
    BY <1>1, MetricsStep, InvAlways, PTL DEF Spec

-----------------------------------------------------------------------------
(* One owner for every open descriptor.                                     *)

Owner(c) == chan[c] \in Queued \/ (apc = "emplace" /\ acur = c)

LEMMA OwnersKept ==
    ASSUME FdOwnedOnce, UNCHANGED fdOpen,
           \A c \in Conn : /\ Owner(c)' <=> Owner(c)
                           /\ Owner(c) => cfd'[c] = cfd[c]
    PROVE  FdOwnedOnce'
  <1>1. \A f \in Fd : FdOwners(f)' = FdOwners(f)
    BY DEF FdOwners, Owner
  <1>2. QED
    BY <1>1 DEF FdOwnedOnce

LEMMA OwnerLost ==
    ASSUME FdOwnedOnce, NEW c \in Conn, Owner(c), cfd[c] \in Fd, UNCHANGED cfd,
           fdOpen' = fdOpen \ {cfd[c]},
           \A d \in Conn : Owner(d)' <=> Owner(d) /\ d # c
    PROVE  FdOwnedOnce'
  <1>1. FdOwners(cfd[c]) = {c}
    BY DEF FdOwnedOnce, FdOwners, Owner
  <1>2. FdOwners(cfd[c])' = {}
    BY <1>1 DEF FdOwners, Owner
  <1>3. \A f \in Fd \ {cfd[c]} : FdOwners(f)' = FdOwners(f)
    BY DEF FdOwners, Owner
  <1>4. QED
    BY <1>2, <1>3 DEF FdOwnedOnce

LEMMA AcceptOwners == Inv /\ FdOwnedOnce /\ (AcceptStep \/ StopStep) => FdOwnedOnce'
  <1> SUFFICES ASSUME Inv, FdOwnedOnce, AcceptStep \/ StopStep PROVE FdOwnedOnce'
    OBVIOUS
  <1> USE DEF Inv, TypeInv, acceptVars, connVars
  <1>1. CASE \/ \E f \in Fd : IdleLoad(f)
             \/ IdleStore \/ IdleDeref \/ Cleanup \/ AcceptNone \/ InitConnected
             \/ AcceptError \/ StopClear
    <2>1. UNCHANGED <<fdOpen, cfd, chan>> /\ apc # "emplace" /\ apc' # "emplace"
      BY <1>1 DEF IdleLoad, IdleStore, IdleDeref, Cleanup, AcceptNone, InitConnected,
                  AcceptError, StopClear
    <2>2. QED
      BY <2>1, OwnersKept DEF Owner
  <1>2. ASSUME NEW f \in Fd, NEW c \in Conn, NEW l \in Loop, Accept(f, c, l)
        PROVE  FdOwnedOnce'
    <2>1. /\ UNCHANGED chan /\ apc = "accept" /\ apc' = "emplace" /\ acur' = c
          /\ f \notin fdOpen /\ fdOpen' = fdOpen \cup {f} /\ life[c] = "fresh"
          /\ \A d \in Conn : cfd'[d] = IF d = c THEN f ELSE cfd[d]
      BY <1>2 DEF Accept, TypeOK
    <2>2. chan[c] = "none"
      BY <2>1 DEF ConnInv
    <2>3. FdOwners(f) = {}
      BY <2>1 DEF FdOwnedOnce
    <2>4. FdOwners(f)' = {c}
      <3>1. c \in FdOwners(f)'
        BY <2>1 DEF FdOwners
      <3>2. \A d \in Conn \ {c} : d \notin FdOwners(f)'
        BY <2>1, <2>3 DEF FdOwners
      <3>3. FdOwners(f)' \subseteq Conn
        BY DEF FdOwners
      <3>4. QED
        BY <3>1, <3>2, <3>3
    <2>5. \A g \in Fd \ {f} : FdOwners(g)' = FdOwners(g)
      BY <2>1, <2>2 DEF FdOwners, Queued
    <2>6. QED
      BY <2>1, <2>4, <2>5 DEF FdOwnedOnce
  <1>3. CASE EmplaceConflict
    <2>1. /\ UNCHANGED <<cfd, chan>> /\ apc = "emplace" /\ apc' = "idle"
          /\ fdOpen' = fdOpen \ {cfd[acur]}
      BY <1>3 DEF EmplaceConflict
    <2>2. acur \in Conn /\ cfd[acur] \in Fd /\ chan[acur] = "none"
      BY <2>1 DEF AcceptInv, Placed
    <2>3. Owner(acur) /\ \A d \in Conn : Owner(d)' <=> Owner(d) /\ d # acur
      BY <2>1, <2>2 DEF Owner, Queued
    <2>4. QED
      BY <2>1, <2>2, <2>3, OwnerLost
  <1>4. CASE EmplaceInit
    <2>1. /\ UNCHANGED <<fdOpen, cfd, acur>> /\ apc = "emplace" /\ apc' = "init"
          /\ \A d \in Conn : chan'[d] = IF d = acur THEN "queued" ELSE chan[d]
      BY <1>4 DEF EmplaceInit, TypeOK
    <2>2. acur \in Conn
      BY <2>1 DEF AcceptInv
    <2>3. \A d \in Conn : Owner(d)' <=> Owner(d)
      BY <2>1, <2>2 DEF Owner, Queued
    <2>4. QED
      BY <2>1, <2>3, OwnersKept
  <1>5. CASE DestroyLoops
    <2>1. /\ UNCHANGED cfd /\ apc = "cleared" /\ apc' = "destroyed"
          /\ fdOpen' = fdOpen \ {cfd[c] : c \in {d \in Conn : chan[d] \in Queued}}
          /\ \A c \in Conn : chan'[c] \notin Queued
      BY <1>5 DEF DestroyLoops, TypeOK, Queued
    <2>2. \A f \in Fd : FdOwners(f)' = {}
      BY <2>1 DEF FdOwners
    <2>3. ASSUME NEW f \in fdOpen' PROVE FALSE
      <3>1. f \in fdOpen /\ f \in Fd
        BY <2>1, <2>3 DEF TypeOK
      <3>2. PICK c \in Conn : cfd[c] = f /\ chan[c] \in Queued
        BY <2>1, <3>1 DEF FdOwnedOnce, FdOwners
      <3>3. QED
        BY <2>1, <2>3, <3>2
    <2>4. QED
      BY <2>2, <2>3 DEF FdOwnedOnce
  <1>6. QED
    BY <1>1, <1>2, <1>3, <1>4, <1>5 DEF AcceptStep, StopStep

LEMMA LoopOwners ==
    ASSUME Inv, FdOwnedOnce, NEW l \in Loop, LoopStep(l)
    PROVE  FdOwnedOnce'
  <1> USE DEF Inv, TypeInv, acceptVars, connVars
  <1>0. UNCHANGED <<apc, acur, cfd>> /\ \A c \in Conn : chan[c] # "none" => cfd[c] \in Fd
    BY LoopEffect DEF ConnInv, Placed
  <1>1. ASSUME UNCHANGED <<fdOpen, chan>> PROVE FdOwnedOnce'
    BY <1>0, <1>1, OwnersKept DEF Owner
  <1>2. ASSUME NEW c \in Conn, Remove(l, c), chan[c] \in Queued PROVE FdOwnedOnce'
    <2>1. /\ \A d \in Conn : chan'[d] = IF d = c THEN "dying" ELSE chan[d]
          /\ fdOpen' = fdOpen \ {cfd[c]} /\ cfd[c] \in Fd
      BY <1>0, <1>2, RemoveFacts DEF Queued
    <2>2. apc = "emplace" => acur # c
      BY <1>2 DEF AcceptInv, Queued
    <2>3. Owner(c) /\ \A d \in Conn : Owner(d)' <=> Owner(d) /\ d # c
      BY <1>0, <1>2, <2>1, <2>2 DEF Owner, Queued
    <2>4. QED
      BY <1>0, <2>1, <2>3, OwnerLost
  <1>3. CASE AddChannel(l)
    <2>1. Head(taskQ[l]) = taskQ[l][1] /\ 1 \in 1..Len(taskQ[l]) /\ Head(taskQ[l]) \in Task
      BY <1>3, PopFacts DEF AddChannel
    <2> DEFINE c == Head(taskQ[l]).conn
    <2>2. c \in Conn /\ chan[c] = "queued"
      BY <1>3, <2>1 DEF AddChannel, AddInv, Task
    <2>3. UNCHANGED fdOpen /\ \A d \in Conn : chan'[d] = IF d = c THEN "mapped" ELSE chan[d]
      BY <1>3, <2>2 DEF AddChannel, TypeOK
    <2>4. \A d \in Conn : Owner(d)' <=> Owner(d)
      BY <1>0, <2>2, <2>3 DEF Owner, Queued
    <2>5. QED
      BY <1>0, <2>3, <2>4, OwnersKept
  <1>4. CASE AddRefused(l)
    <2>1. Head(taskQ[l]) = taskQ[l][1] /\ 1 \in 1..Len(taskQ[l]) /\ Head(taskQ[l]) \in Task
      BY <1>4, PopFacts DEF AddRefused
    <2>2. Head(taskQ[l]).conn \in Conn /\ chan[Head(taskQ[l]).conn] \in Queued
      BY <1>4, <2>1 DEF AddRefused, AddInv, Task, Queued
    <2>3. QED
      BY <1>2, <1>4, <2>2 DEF AddRefused
  <1>5. CASE RemoveChannel(l) \/ \E d \in Conn : ActiveError(l, d)
    <2>1. PICK c \in Conn : Remove(l, c) /\ chan[c] \in Queued
      BY <1>5 DEF RemoveChannel, ActiveError, Mapped, Queued
    <2>2. QED
      BY <1>2, <2>1
  <1>6. CASE OnChannelDestroyed(l)
    <2>1. dying[l] \in Conn /\ chan[dying[l]] = "dying"
      BY <1>6 DEF OnChannelDestroyed, LoopInv
    <2>2. UNCHANGED fdOpen
          /\ \A d \in Conn : chan'[d] = IF d = dying[l] THEN "gone" ELSE chan[d]
      BY <1>6, <2>1 DEF OnChannelDestroyed, TypeOK
    <2>3. \A d \in Conn : Owner(d)' <=> Owner(d)
      BY <1>0, <2>1, <2>2 DEF Owner, Queued
    <2>4. QED
      BY <1>0, <2>2, <2>3, OwnersKept
  <1>7. QED
    BY <1>1, <1>3, <1>4, <1>5, <1>6
    DEF LoopStep, Poll, RunReturn, ActiveNotFound, ActiveBegin, CallbackQuiet, CallbackModify,
        CloseLoad, CloseStore, AfterRead, StartProcess, EndProcess, RemoveNotFound

\* Every open descriptor has exactly one owner that will close it: the accept
\* thread until emplace, then the one Channel that holds it.
THEOREM OneOwner == Spec => []FdOwnedOnce
  <1>1. Init => FdOwnedOnce
    BY DEF Init, FdOwnedOnce, FdOwners, Queued
  <1>2. Inv /\ FdOwnedOnce /\ [Next]_vars => FdOwnedOnce'
    <2> SUFFICES ASSUME Inv, FdOwnedOnce, [Next]_vars PROVE FdOwnedOnce'
      OBVIOUS
    <2>1. CASE UNCHANGED vars
      BY <2>1, OwnersKept DEF vars, Owner
    <2>2. QED
      BY <2>1, AcceptOwners, LoopOwners DEF Next
  <1>3. QED
    BY <1>1, <1>2, InvAlways, PTL DEF Spec

-----------------------------------------------------------------------------
(* A DELETE removes its own Channel or none.                                *)

DeleteOK(k) ==
    \A i \in 1..Len(taskQ[k]) :
        taskQ[k][i].op = "DELETE" =>
            \A d \in Conn : cloop[d] = k /\ cfd[d] = taskQ[k][i].fd /\ d # taskQ[k][i].conn =>
                /\ chan[d] # "mapped"
                /\ \A j \in 1..i : ~(taskQ[k][j].op = "ADD" /\ taskQ[k][j].conn = d)

\* A queue that does not change, while no connection enters that loop's map.
LEMMA DeletesKept ==
    ASSUME TypeInv, NEW k \in Loop, DeleteOK(k), taskQ'[k] = taskQ[k],
           \A d \in Conn : /\ chan[d] # "none" => cloop'[d] = cloop[d] /\ cfd'[d] = cfd[d]
                           /\ chan'[d] = "mapped" /\ cloop'[d] = k => chan[d] = "mapped"
    PROVE  DeleteOK(k)'
  <1>1. ASSUME NEW i \in 1..Len(taskQ[k]), taskQ[k][i].op = "DELETE", NEW d \in Conn,
               cloop'[d] = k, cfd'[d] = taskQ[k][i].fd, d # taskQ[k][i].conn
        PROVE  /\ chan'[d] # "mapped"
               /\ \A j \in 1..i : ~(taskQ[k][j].op = "ADD" /\ taskQ[k][j].conn = d)
    <2>1. CASE chan[d] = "none"
      <3>1. Len(taskQ[k]) \in Nat
        BY DEF TypeInv, TypeOK
      <3>2. \A j \in 1..i : j \in 1..Len(taskQ[k])
        BY <3>1
      <3>3. QED
        BY <1>1, <2>1, <3>2 DEF TypeInv, AddInv
    <2>2. CASE chan[d] # "none"
      BY <1>1, <2>2 DEF DeleteOK
    <2>3. QED
      BY <2>1, <2>2
  <1>2. QED
    BY <1>1 DEF DeleteOK

\* A DELETE is posted while its own connection is the one conns_ holds under
\* the descriptor; an ADD goes behind everything.
LEMMA DeletesPushed ==
    ASSUME Inv, Running, NEW k \in Loop, DeleteOK(k),
           NEW op \in {"ADD", "DELETE"}, NEW c \in Conn, cfd[c] \in Fd,
           Push(k, op, cfd[c], c), UNCHANGED <<cloop, cfd>>,
           \A d \in Conn : chan'[d] = "mapped" => chan[d] = "mapped",
           op = "DELETE" => conns[cfd[c]] = c
    PROVE  DeleteOK(k)'
  <1> USE DEF Inv, TypeInv
  <1>1. /\ Len(taskQ[k]) \in Nat /\ Len(taskQ'[k]) = Len(taskQ[k]) + 1
        /\ \A i \in 1..Len(taskQ[k]) : taskQ'[k][i] = taskQ[k][i]
        /\ taskQ'[k][Len(taskQ[k]) + 1] = [op |-> op, fd |-> cfd[c], conn |-> c]
    BY PushFacts
  <1>2. ASSUME NEW i \in 1..Len(taskQ'[k]), taskQ'[k][i].op = "DELETE", NEW d \in Conn,
               cloop[d] = k, cfd[d] = taskQ'[k][i].fd, d # taskQ'[k][i].conn
        PROVE  /\ chan'[d] # "mapped"
               /\ \A j \in 1..i : ~(taskQ'[k][j].op = "ADD" /\ taskQ'[k][j].conn = d)
    <2>1. CASE i \in 1..Len(taskQ[k])
      <3>1. \A j \in 1..i : j \in 1..Len(taskQ[k]) /\ taskQ'[k][j] = taskQ[k][j]
        BY <1>1, <2>1
      <3>2. /\ taskQ[k][i].op = "DELETE" /\ cfd[d] = taskQ[k][i].fd
            /\ d # taskQ[k][i].conn
        BY <1>1, <1>2, <2>1
      <3>3. /\ chan[d] # "mapped"
            /\ \A j \in 1..i : ~(taskQ[k][j].op = "ADD" /\ taskQ[k][j].conn = d)
        BY <1>2, <2>1, <3>2 DEF DeleteOK
      <3>4. QED
        BY <3>1, <3>3
    <2>2. CASE i = Len(taskQ[k]) + 1
      <3>1. op = "DELETE" /\ cfd[d] = cfd[c] /\ d # c
        BY <1>1, <1>2, <2>2
      <3>2. chan[d] \notin {"queued", "mapped"}
        BY <3>1 DEF ChannelConnAlive, HasChannel, Queued
      <3>3. \A j \in 1..Len(taskQ[k]) : ~(taskQ[k][j].op = "ADD" /\ taskQ[k][j].conn = d)
        BY <3>2 DEF AddInv
      <3>4. taskQ'[k][Len(taskQ[k]) + 1].op = "DELETE"
        BY <1>1, <3>1
      <3>5. \A j \in 1..i : \/ j \in 1..Len(taskQ[k]) /\ taskQ'[k][j] = taskQ[k][j]
                            \/ taskQ'[k][j].op = "DELETE"
        BY <1>1, <2>2, <3>4
      <3>6. QED
        BY <3>2, <3>3, <3>5
    <2>3. QED
      BY <1>1, <2>1, <2>2
  <1>3. QED
    BY <1>2 DEF DeleteOK

\* processTaskQ() takes the first task: only an ADD puts a Channel in the map.
LEMMA DeletesPopped ==
    ASSUME TypeInv, NEW k \in Loop, DeleteOK(k), PopTask(k), UNCHANGED <<cloop, cfd>>,
           \A d \in Conn : chan'[d] = "mapped" =>
               chan[d] = "mapped" \/ (Head(taskQ[k]).op = "ADD" /\ d = Head(taskQ[k]).conn)
    PROVE  DeleteOK(k)'
  <1> USE DEF TypeInv
  <1>1. /\ Len(taskQ[k]) \in Nat /\ Len(taskQ[k]) >= 1 /\ Head(taskQ[k]) = taskQ[k][1]
        /\ Len(taskQ'[k]) = Len(taskQ[k]) - 1
        /\ \A i \in 1..Len(taskQ'[k]) : taskQ'[k][i] = taskQ[k][i + 1]
    BY PopFacts
  <1>2. ASSUME NEW i \in 1..Len(taskQ'[k]), taskQ'[k][i].op = "DELETE", NEW d \in Conn,
               cloop[d] = k, cfd[d] = taskQ'[k][i].fd, d # taskQ'[k][i].conn
        PROVE  /\ chan'[d] # "mapped"
               /\ \A j \in 1..i : ~(taskQ'[k][j].op = "ADD" /\ taskQ'[k][j].conn = d)
    <2>1. i + 1 \in 1..Len(taskQ[k]) /\ taskQ'[k][i] = taskQ[k][i + 1]
      BY <1>1
    <2>2. chan[d] # "mapped"
          /\ \A j \in 1..(i + 1) : ~(taskQ[k][j].op = "ADD" /\ taskQ[k][j].conn = d)
      BY <1>2, <2>1 DEF DeleteOK
    <2>3. 1 \in 1..(i + 1) /\ \A j \in 1..i : j + 1 \in 1..(i + 1) /\ taskQ'[k][j] = taskQ[k][j + 1]
      BY <1>1
    <2>4. QED
      BY <1>1, <2>2, <2>3
  <1>3. QED
    BY <1>2 DEF DeleteOK

LEMMA AcceptDeletes == Inv /\ DeleteInv /\ (AcceptStep \/ StopStep) => DeleteInv'
  <1> SUFFICES ASSUME Inv, DeleteInv, AcceptStep \/ StopStep, NEW k \in Loop
               PROVE  DeleteOK(k)'
    BY DEF DeleteInv, DeleteOK
  <1> USE DEF Inv, TypeInv, acceptVars, connVars
  <1>0. DeleteOK(k)
    BY DEF DeleteInv, DeleteOK
  <1>1. CASE \/ \E f \in Fd : IdleLoad(f)
             \/ IdleStore \/ Cleanup \/ AcceptNone \/ InitConnected
             \/ AcceptError \/ StopClear \/ EmplaceConflict
    <2>1. UNCHANGED <<chan, cloop, cfd, taskQ>>
      BY <1>1 DEF IdleLoad, IdleStore, Cleanup, AcceptNone, InitConnected, AcceptError,
                  StopClear, EmplaceConflict, loopVars
    <2>2. QED
      BY <1>0, <2>1, DeletesKept
  <1>2. CASE IdleDeref
    <2>1. UNCHANGED <<chan, cloop, cfd>> /\ apc = "idleDeref"
      BY <1>2 DEF IdleDeref
    <2>2. /\ acur \in Conn /\ cfd[acur] \in Fd /\ cloop[acur] \in Loop
          /\ conns[cfd[acur]] = acur /\ Running
      BY <2>1 DEF AcceptInv, ConnInv, Placed, Running
    <2>3. CASE Push(cloop[acur], "DELETE", cfd[acur], acur)
      <3>1. CASE k = cloop[acur]
        BY <1>0, <2>1, <2>2, <2>3, <3>1, DeletesPushed
      <3>2. CASE k # cloop[acur]
        <4>1. taskQ'[k] = taskQ[k]
          BY <2>3, <3>2 DEF Push, TypeOK
        <4>2. QED
          BY <1>0, <2>1, <4>1, DeletesKept
      <3>3. QED
        BY <3>1, <3>2
    <2>4. CASE UNCHANGED taskQ
      BY <1>0, <2>1, <2>4, DeletesKept
    <2>5. QED
      BY <1>2, <2>3, <2>4 DEF IdleDeref
  <1>3. ASSUME NEW f \in Fd, NEW c \in Conn, NEW l \in Loop, Accept(f, c, l)
        PROVE  DeleteOK(k)'
    <2>1. /\ UNCHANGED <<chan, taskQ>> /\ chan[c] = "none"
          /\ \A d \in Conn \ {c} : cloop'[d] = cloop[d] /\ cfd'[d] = cfd[d]
      BY <1>3 DEF Accept, loopVars, ConnInv, TypeOK
    <2>2. QED
      BY <1>0, <2>1, DeletesKept
  <1>4. CASE EmplaceInit
    <2>1. /\ UNCHANGED <<cloop, cfd>> /\ apc = "emplace"
          /\ Push(cloop[acur], "ADD", cfd[acur], acur)
          /\ \A d \in Conn : chan'[d] = "mapped" => chan[d] = "mapped"
      BY <1>4 DEF EmplaceInit, TypeOK
    <2>2. acur \in Conn /\ cfd[acur] \in Fd /\ cloop[acur] \in Loop /\ Running
      BY <2>1 DEF AcceptInv, Placed, Running
    <2>3. CASE k = cloop[acur]
      BY <1>0, <2>1, <2>2, <2>3, DeletesPushed
    <2>4. CASE k # cloop[acur]
      <3>1. taskQ'[k] = taskQ[k]
        BY <2>1, <2>4 DEF Push, TypeOK
      <3>2. QED
        BY <1>0, <2>1, <3>1, DeletesKept
    <2>5. QED
      BY <2>3, <2>4
  <1>5. CASE DestroyLoops
    BY <1>5 DEF DestroyLoops, DeleteOK
  <1>6. QED
    BY <1>1, <1>2, <1>3, <1>4, <1>5 DEF AcceptStep, StopStep

LEMMA LoopDeletes ==
    ASSUME Inv, DeleteInv, NEW l \in Loop, LoopStep(l), NEW k \in Loop
    PROVE  DeleteOK(k)'
  <1> USE DEF Inv, TypeInv, acceptVars, connVars
  <1>0. DeleteOK(k)
    BY DEF DeleteInv, DeleteOK
  <1>1. /\ UNCHANGED <<cloop, cfd, conns, apc>> /\ Running
        /\ \A d \in Conn : chan'[d] # chan[d] => cloop[d] = l
    BY LoopEffect DEF Running
  <1>2. CASE k # l
    <2>1. taskQ'[k] = taskQ[k]
      BY <1>2, OtherLoop
    <2>2. QED
      BY <1>0, <1>1, <1>2, <2>1, DeletesKept
  <1>3. ASSUME k = l, UNCHANGED taskQ,
               \A d \in Conn : chan'[d] = "mapped" => chan[d] = "mapped"
        PROVE  DeleteOK(k)'
    BY <1>0, <1>1, <1>3, DeletesKept
  <1>4. ASSUME NEW m \in Conn, Remove(l, m)
        PROVE  \A d \in Conn : chan'[d] = "mapped" => chan[d] = "mapped"
    BY <1>4, RemoveFacts
  <1>5. ASSUME k = l, \/ Poll(l) \/ RunReturn(l)
                      \/ \E c \in Conn : ActiveNotFound(l, c) \/ ActiveBegin(l, c)
                      \/ CallbackQuiet(l) \/ CallbackModify(l) \/ CloseLoad(l)
                      \/ AfterRead(l) \/ StartProcess(l) \/ EndProcess(l)
        PROVE  DeleteOK(k)'
    <2>1. UNCHANGED <<taskQ, chan>>
      BY <1>5 DEF Poll, RunReturn, ActiveNotFound, ActiveBegin, CallbackQuiet,
                  CallbackModify, CloseLoad, AfterRead, StartProcess, EndProcess
    <2>2. QED
      BY <1>3, <1>5, <2>1
  <1>6. ASSUME k = l, NEW c \in Conn, ActiveError(l, c) PROVE DeleteOK(k)'
    <2>1. UNCHANGED taskQ /\ \E m \in Conn : Remove(l, m)
      BY <1>6 DEF ActiveError, Mapped
    <2>2. QED
      BY <1>3, <1>4, <1>6, <2>1
  <1>7. ASSUME k = l, OnChannelDestroyed(l) PROVE DeleteOK(k)'
    <2>1. UNCHANGED taskQ /\ \A d \in Conn : chan'[d] = "mapped" => chan[d] = "mapped"
      BY <1>7 DEF OnChannelDestroyed, TypeOK
    <2>2. QED
      BY <1>3, <1>7, <2>1
  <1>8. ASSUME k = l, CloseStore(l) PROVE DeleteOK(k)'
    <2>1. UNCHANGED chan /\ Push(l, "DELETE", cfd[cb[l]], cb[l]) /\ lpc[l] = "close"
      BY <1>8 DEF CloseStore
    <2>2. cb[l] \in Conn /\ chan[cb[l]] = "mapped"
      BY <2>1 DEF LoopInv
    <2>3. cfd[cb[l]] \in Fd /\ conns[cfd[cb[l]]] = cb[l]
      BY <1>1, <2>2 DEF ConnInv, Placed, ChannelConnAlive, HasChannel, Queued
    <2>4. QED
      BY <1>0, <1>1, <1>8, <2>1, <2>2, <2>3, DeletesPushed
  <1>9. ASSUME k = l, AddChannel(l) \/ AddRefused(l) \/ RemoveChannel(l) \/ RemoveNotFound(l)
        PROVE  DeleteOK(k)'
    <2>1. PopTask(l)
      BY <1>9 DEF AddChannel, AddRefused, RemoveChannel, RemoveNotFound
    <2>2. Head(taskQ[l]) \in Task
      BY <2>1, PopFacts
    <2>3. \A d \in Conn : chan'[d] = "mapped" =>
             chan[d] = "mapped" \/ (Head(taskQ[l]).op = "ADD" /\ d = Head(taskQ[l]).conn)
      <3>1. CASE AddChannel(l)
        BY <3>1 DEF AddChannel, TypeOK
      <3>2. CASE AddRefused(l) \/ RemoveChannel(l)
        <4>1. PICK m \in Conn : Remove(l, m)
          BY <2>2, <3>2 DEF AddRefused, RemoveChannel, Mapped, Task
        <4>2. QED
          BY <1>4, <4>1
      <3>3. CASE RemoveNotFound(l)
        BY <3>3 DEF RemoveNotFound
      <3>4. QED
        BY <1>9, <3>1, <3>2, <3>3
    <2>4. QED
      BY <1>0, <1>1, <1>9, <2>1, <2>3, DeletesPopped
  <1>10. QED
    BY <1>2, <1>5, <1>6, <1>7, <1>8, <1>9 DEF LoopStep

\* A DELETE names a descriptor only, yet it never removes the Channel of
\* another connection, also when two threads posted one each and accept()
\* handed the descriptor out again in between.
THEOREM DeleteIsOwn == Spec => []DeleteHitsOwn
  <1>1. Init => DeleteInv
    BY DEF Init, DeleteInv
  <1>2. Inv /\ DeleteInv /\ [Next]_vars => DeleteInv'
    <2> SUFFICES ASSUME Inv, DeleteInv, [Next]_vars PROVE DeleteInv'
      OBVIOUS
    <2>1. CASE UNCHANGED vars
      BY <2>1 DEF vars, DeleteInv
    <2>2. ASSUME NEW l \in Loop, LoopStep(l) PROVE DeleteInv'
      BY <2>2, LoopDeletes DEF DeleteInv, DeleteOK
    <2>3. QED
      BY <2>1, <2>2, AcceptDeletes DEF Next
  <1>3. Inv /\ DeleteInv => DeleteHitsOwn
    <2> SUFFICES ASSUME Inv, DeleteInv, NEW l \in Loop, lpc[l] = "tasks", taken[l] > 0,
                        Head(taskQ[l]).op = "DELETE", NEW m \in Mapped(l, Head(taskQ[l]).fd)
                 PROVE  m = Head(taskQ[l]).conn
      BY DEF DeleteHitsOwn
    <2>1. taskQ[l] \in Seq(Task) /\ Len(taskQ[l]) \in Nat /\ taken[l] \in Nat
          /\ taken[l] <= Len(taskQ[l])
      BY DEF Inv, TypeInv, TypeOK, LoopInv
    <2>2. 1 \in 1..Len(taskQ[l]) /\ taskQ[l] # <<>>
      BY <2>1
    <2>3. Head(taskQ[l]) = taskQ[l][1]
      BY <2>1, <2>2
    <2>4. QED
      BY <2>2, <2>3 DEF DeleteInv, Mapped
  <1>4. QED
    BY <1>1, <1>2, <1>3, InvAlways, PTL DEF Spec
=============================================================================
