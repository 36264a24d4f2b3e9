-------------------------- MODULE EventLoopProofs --------------------------
(***************************************************************************)
(* Proofs about EventLoop, for any number of descriptors, other threads    *)
(* and calls.  The inductive invariant is built of parts: TypeInv, the     *)
(* types with the control structure of run() and processTaskQ(), the order *)
(* of the task queues, WakeInv and LocalInv, which say where in an         *)
(* iteration a wake-up must be under way, and NoneTwice for callbacks.     *)
(***************************************************************************)
EXTENDS EventLoop, SequenceTheorems, TLAPS

USE EventLoopAssumption

\* processTaskQ() is on the stack only where the owner called it, local
\* queues exist only inside it, and a callback of active() has a channel.
Control ==
    /\ phase # "none" => pc \in {"process", "readDone", "writeDone"}
    /\ phase = "none" => stack = <<>>
    /\ phase = "cbs" => stack # <<>>
    /\ phase # "tasks" => localQ = <<>>
    /\ pc \in {"inRead", "inWrite", "readDone", "writeDone"} => cur \in Fd

TypeInv == TypeOK /\ Control

-----------------------------------------------------------------------------
(* The critical sections keep the types of the queues.                      *)

LEMMA PushTaskType ==
    ASSUME TypeOK, NEW op \in Op, NEW f \in Fd, NEW t \in Thread, PushTask(op, f, t)
    PROVE  /\ taskQ' \in Seq(Task) /\ nTask' \in Nat
           /\ UNCHANGED <<callbackQueue, nCb>>
  <1> DEFINE new == [id |-> nTask + 1, op |-> op, fd |-> f, by |-> t]
  <1>1. new \in Task
    BY DEF Task, TypeOK
  <1>2. taskQ' = Append(taskQ, new) /\ nTask' = nTask + 1
    BY DEF PushTask
  <1>3. taskQ' \in Seq(Task)
    BY <1>1, <1>2 DEF TypeOK
  <1>4. QED
    BY <1>2, <1>3 DEF PushTask, TypeOK

LEMMA PushCallbackType ==
    ASSUME TypeOK, NEW t \in Thread, PushCallback(t)
    PROVE  /\ callbackQueue' \in Seq(Callback) /\ nCb' \in Nat
           /\ UNCHANGED <<taskQ, nTask>>
  <1> DEFINE new == [id |-> nCb + 1, by |-> t, after |-> nTask]
  <1>1. new \in Callback
    BY DEF Callback, TypeOK
  <1>2. callbackQueue' = Append(callbackQueue, new) /\ nCb' = nCb + 1
    BY DEF PushCallback
  <1>3. callbackQueue' \in Seq(Callback)
    BY <1>1, <1>2 DEF TypeOK
  <1>4. QED
    BY <1>2, <1>3 DEF PushCallback, TypeOK

LEMMA PopCallbackType ==
    ASSUME TypeInv, PopCallback
    PROVE  stack' \in Seq(Seq(Callback)) /\ stack' # <<>> /\ ran' \in SUBSET Nat
  <1>1. stack \in Seq(Seq(Callback)) /\ stack # <<>> /\ Head(stack) # <<>>
    BY DEF TypeInv, TypeOK, Control, PopCallback
  <1>2. Head(stack) \in Seq(Callback) /\ Tail(stack) \in Seq(Seq(Callback))
    BY <1>1, HeadTailProperties
  <1>3. Head(Head(stack)) \in Callback /\ Tail(Head(stack)) \in Seq(Callback)
    BY <1>1, <1>2, HeadTailProperties
  <1>4. <<Tail(Head(stack))>> \in Seq(Seq(Callback)) /\ Len(<<Tail(Head(stack))>>) = 1
    BY <1>3
  <1>5. <<Tail(Head(stack))>> \o Tail(stack) \in Seq(Seq(Callback))
    BY <1>2, <1>4, ConcatProperties
  <1>6. Len(<<Tail(Head(stack))>> \o Tail(stack)) = 1 + Len(Tail(stack))
    BY <1>2, <1>4, ConcatProperties
  <1>7. Len(Tail(stack)) \in Nat
    BY <1>2
  <1>8. <<Tail(Head(stack))>> \o Tail(stack) # <<>>
    BY <1>5, <1>6, <1>7, EmptySeq
  <1>9. QED
    BY <1>3, <1>5, <1>8 DEF PopCallback, TypeInv, TypeOK, Callback

-----------------------------------------------------------------------------
LEMMA TypeInit == Init => TypeInv
  BY DEF Init, TypeInv, TypeOK, Control

LEMMA TypeStep == TypeInv /\ [Next]_vars => TypeInv'
  <1> SUFFICES ASSUME TypeInv, [Next]_vars PROVE TypeInv'
    OBVIOUS
  <1> USE DEF TypeInv
  <1>1. CASE UNCHANGED vars
    BY <1>1 DEF TypeOK, Control, vars
  <1>2. ASSUME NEW r \in Remote, RemoteStep(r) PROVE TypeInv'
    <2>1. CASE RemoteAddTask(r)
      <3>1. PICK op \in Op, f \in Fd : PushTask(op, f, r)
        BY <2>1 DEF RemoteAddTask
      <3>2. taskQ' \in Seq(Task) /\ nTask' \in Nat /\ UNCHANGED <<callbackQueue, nCb>>
        BY <3>1, PushTaskType DEF Thread
      <3>3. QED
        BY <2>1, <3>2 DEF RemoteAddTask, TypeOK, Control, frames
    <2>2. CASE RemotePost(r)
      <3>1. callbackQueue' \in Seq(Callback) /\ nCb' \in Nat /\ UNCHANGED <<taskQ, nTask>>
        BY <2>2, PushCallbackType DEF RemotePost, Thread
      <3>2. QED
        BY <2>2, <3>1 DEF RemotePost, TypeOK, Control, frames
    <2>3. CASE Shutdown(r)
      BY <2>3 DEF Shutdown, TypeOK, Control, frames, queues
    <2>4. CASE TaskWakeup(r)
      BY <2>4 DEF TaskWakeup, TypeOK, Control, frames, queues
    <2>5. QED
      BY <1>2, <2>1, <2>2, <2>3, <2>4 DEF RemoteStep
  <1>3. CASE RunStart \/ CheckQuit \/ Dispatch \/ DispatchTimeout \/ DispatchError
             \/ StartProcess \/ EndIteration
    BY <1>3 DEF RunStart, CheckQuit, Dispatch, Ready, DispatchTimeout, DispatchError,
                StartProcess, EndIteration, TypeOK, Control, frames, queues
  <1>4. CASE ActiveStep
    <2>1. CASE ActiveWake
      BY <2>1 DEF ActiveWake, TypeOK, Control, frames, queues
    <2>2. ASSUME NEW f \in Fd, ActiveNotFound(f) \/ ActiveError(f) \/ ActiveBegin(f)
          PROVE TypeInv'
      BY <2>2 DEF ActiveNotFound, ActiveError, ActiveBegin, Remove, TypeOK, Control,
                  frames, queues
    <2>3. CASE CallbackQuiet
      BY <2>3 DEF CallbackQuiet, InCallback, Returned, TypeOK, Control, frames, queues
    <2>4. CASE CallbackDelete
      <3>1. taskQ' \in Seq(Task) /\ nTask' \in Nat /\ UNCHANGED <<callbackQueue, nCb>>
        BY <2>4, PushTaskType DEF CallbackDelete, InCallback, Control, Thread, Op
      <3>2. QED
        BY <2>4, <3>1 DEF CallbackDelete, InCallback, Returned, TypeOK, Control, frames
    <2>5. CASE CallbackModify
      <3>1. taskQ' \in Seq(Task) /\ nTask' \in Nat /\ UNCHANGED <<callbackQueue, nCb>>
        BY <2>5, PushTaskType DEF CallbackModify, InCallback, Control, Thread, Op
      <3>2. QED
        BY <2>5, <3>1 DEF CallbackModify, InCallback, Returned, TypeOK, Control
    <2>6. CASE CallbackPost
      <3>1. callbackQueue' \in Seq(Callback) /\ nCb' \in Nat /\ UNCHANGED <<taskQ, nTask>>
        BY <2>6, PushCallbackType DEF CallbackPost, Thread
      <3>2. QED
        BY <2>6, <3>1 DEF CallbackPost, InCallback, Returned, TypeOK, Control, frames
    <2>7. CASE AfterRead \/ AfterWrite
      BY <2>7 DEF AfterRead, AfterWrite, TypeOK, Control, frames, queues
    <2>8. QED
      BY <1>4, <2>1, <2>2, <2>3, <2>4, <2>5, <2>6, <2>7 DEF ActiveStep
  <1>5. CASE ProcessStep
    <2>1. CASE SwapTasks
      BY <2>1 DEF SwapTasks, TypeOK, Control
    <2>2. CASE ProcessTask
      <3>1. localQ \in Seq(Task) /\ localQ # <<>>
        BY <2>2 DEF ProcessTask, TypeOK
      <3>2. Head(localQ) \in Task /\ Tail(localQ) \in Seq(Task)
        BY <3>1, HeadTailProperties
      <3>3. channelMap' \in SUBSET Fd
        BY <2>2, <3>2 DEF ProcessTask, Handle, Add, Remove, Task, TypeOK
      <3>4. QED
        BY <2>2, <3>2, <3>3 DEF ProcessTask, TypeOK, Control, queues
    <2>3. CASE SwapCallbacks
      <3>1. <<callbackQueue>> \in Seq(Seq(Callback)) /\ stack \in Seq(Seq(Callback))
            /\ Len(<<callbackQueue>>) = 1 /\ Len(stack) \in Nat
        BY DEF TypeOK
      <3>2. <<callbackQueue>> \o stack \in Seq(Seq(Callback))
        BY <3>1, ConcatProperties
      <3>3. Len(<<callbackQueue>> \o stack) = 1 + Len(stack)
        BY <3>1, ConcatProperties
      <3>4. <<callbackQueue>> \o stack # <<>>
        BY <3>1, <3>2, <3>3, EmptySeq
      <3>5. QED
        BY <2>3, <3>2, <3>4 DEF SwapCallbacks, TypeOK, Control
    <2>4. CASE RunCallback
      <3>1. stack' \in Seq(Seq(Callback)) /\ stack' # <<>> /\ ran' \in SUBSET Nat
        BY <2>4, PopCallbackType DEF RunCallback
      <3>2. QED
        BY <2>4, <3>1 DEF RunCallback, PopCallback, TypeOK, Control, queues
    <2>5. CASE RunCallbackModify
      <3>1. stack' \in Seq(Seq(Callback)) /\ stack' # <<>> /\ ran' \in SUBSET Nat
        BY <2>5, PopCallbackType DEF RunCallbackModify
      <3>2. PICK f \in Fd : PushTask("MODIFY", f, Owner)
        BY <2>5 DEF RunCallbackModify, TypeOK
      <3>3. taskQ' \in Seq(Task) /\ nTask' \in Nat /\ UNCHANGED <<callbackQueue, nCb>>
        BY <3>2, PushTaskType DEF Thread, Op
      <3>4. QED
        BY <2>5, <3>1, <3>3 DEF RunCallbackModify, PopCallback, TypeOK, Control
    <2>6. CASE EndProcess
      <3>1. Tail(stack) \in Seq(Seq(Callback))
        BY <2>6, HeadTailProperties DEF EndProcess, TypeOK, Control
      <3>2. QED
        BY <2>6, <3>1 DEF EndProcess, TypeOK, Control, queues
    <2>7. QED
      BY <1>5, <2>1, <2>2, <2>3, <2>4, <2>5, <2>6 DEF ProcessStep
  <1>6. QED
    BY <1>1, <1>2, <1>3, <1>4, <1>5 DEF Next, OwnerStep

LEMMA TypeInvariant == Spec => []TypeInv
  BY TypeInit, TypeStep, PTL DEF Spec

\* Every variable of the loop keeps its type (TypeOK).
THEOREM TypeCorrect == Spec => []TypeOK
  <1>1. TypeInv => TypeOK
    BY DEF TypeInv
  <1>2. QED
    BY <1>1, TypeInvariant, PTL

-----------------------------------------------------------------------------
(* The order of the task queues.                                            *)

\* A push appends the next number: the order is kept.
LEMMA PushTaskFIFO ==
    ASSUME TypeInv, TaskFIFO, NEW op \in Op, NEW f \in Fd, NEW t \in Thread,
           PushTask(op, f, t), UNCHANGED <<localQ, nDone>>
    PROVE  TaskFIFO'
  <1> DEFINE new == [id |-> nTask + 1, op |-> op, fd |-> f, by |-> t]
  <1>1. taskQ \in Seq(Task) /\ new \in Task /\ taskQ' = Append(taskQ, new)
        /\ nTask' = nTask + 1 /\ nTask \in Nat /\ nDone \in Nat /\ localQ \in Seq(Task)
    BY DEF PushTask, TypeInv, TypeOK, Task
  <1>2. Len(taskQ') = Len(taskQ) + 1 /\ Len(taskQ) \in Nat /\ Len(localQ) \in Nat
    BY <1>1
  <1>3. \A i \in 1..Len(taskQ') : taskQ'[i] = IF i = Len(taskQ) + 1 THEN new ELSE taskQ[i]
    BY <1>1, <1>2
  <1>4. nTask' = nDone' + Len(localQ') + Len(taskQ')
    BY <1>1, <1>2 DEF TaskFIFO
  <1>5. ASSUME NEW i \in 1..Len(taskQ') PROVE taskQ'[i].id = nDone + Len(localQ) + i
    <2>1. CASE i = Len(taskQ) + 1
      BY <2>1, <1>1, <1>2, <1>3 DEF TaskFIFO
    <2>2. CASE i # Len(taskQ) + 1
      BY <2>2, <1>2, <1>3 DEF TaskFIFO
    <2>3. QED
      BY <2>1, <2>2
  <1>6. QED
    BY <1>4, <1>5 DEF TaskFIFO

LEMMA TaskFIFOStep == TypeInv /\ TaskFIFO /\ [Next]_vars => TaskFIFO'
  <1> SUFFICES ASSUME TypeInv, TaskFIFO, [Next]_vars PROVE TaskFIFO'
    OBVIOUS
  <1>1. CASE UNCHANGED <<taskQ, localQ, nTask, nDone>>
    BY <1>1 DEF TaskFIFO
  <1>2. ASSUME NEW r \in Remote, RemoteAddTask(r) PROVE TaskFIFO'
    BY <1>2, PushTaskFIFO DEF RemoteAddTask, Thread, frames
  <1>3. CASE CallbackDelete
    BY <1>3, PushTaskFIFO DEF CallbackDelete, InCallback, TypeInv, Control, Thread, Op, frames
  <1>4. CASE CallbackModify
    BY <1>4, PushTaskFIFO DEF CallbackModify, InCallback, TypeInv, Control, Thread, Op
  <1>5. CASE RunCallbackModify
    <2>1. PICK f \in Fd : PushTask("MODIFY", f, Owner)
      BY <1>5 DEF RunCallbackModify, TypeInv, TypeOK
    <2>2. QED
      BY <1>5, <2>1, PushTaskFIFO DEF RunCallbackModify, Thread, Op
  <1>6. CASE SwapTasks
    <2>1. localQ = <<>> /\ taskQ' = <<>> /\ localQ' = taskQ /\ UNCHANGED <<nTask, nDone>>
      BY <1>6 DEF SwapTasks, TypeInv, Control
    <2>2. Len(taskQ) \in Nat /\ nDone \in Nat
      BY DEF TypeInv, TypeOK
    <2>3. QED
      BY <2>1, <2>2 DEF TaskFIFO
  <1>7. CASE ProcessTask
    <2>1. localQ \in Seq(Task) /\ localQ # <<>> /\ localQ' = Tail(localQ)
          /\ nDone' = nDone + 1 /\ UNCHANGED <<taskQ, nTask>>
      BY <1>7 DEF ProcessTask, TypeInv, TypeOK, queues
    <2>2. Len(localQ') = Len(localQ) - 1 /\ Len(localQ) \in Nat \ {0}
          /\ \A i \in 1..Len(localQ') : localQ'[i] = localQ[i + 1]
      BY <2>1, HeadTailProperties, EmptySeq
    <2>3. nDone \in Nat /\ Len(taskQ) \in Nat
      BY DEF TypeInv, TypeOK
    <2>4. \A i \in 1..Len(localQ') : localQ'[i].id = nDone' + i
      BY <2>1, <2>2, <2>3 DEF TaskFIFO
    <2>5. QED
      BY <2>1, <2>2, <2>3, <2>4 DEF TaskFIFO
  <1>8. QED
    \* No other action touches taskQ_, the local queue or the two counts.
    BY <1>1, <1>2, <1>3, <1>4, <1>5, <1>6, <1>7
    DEF Next, OwnerStep, RemoteStep, ActiveStep, ProcessStep, vars, frames, queues,
        RemotePost, PushCallback, Shutdown, TaskWakeup, RunStart, CheckQuit, Dispatch,
        DispatchTimeout, DispatchError, StartProcess, EndIteration, ActiveWake,
        ActiveNotFound, ActiveError, ActiveBegin, CallbackQuiet, CallbackPost,
        AfterRead, AfterWrite, SwapCallbacks, RunCallback, EndProcess

\* Accepted tasks are handled in order, each once and none lost, also under
\* recursive processTaskQ() calls (TaskFIFO).
THEOREM TaskOrder == Spec => []TaskFIFO
  <1>1. Init => TaskFIFO
    BY DEF Init, TaskFIFO
  <1>2. QED
    BY <1>1, TaskFIFOStep, TypeInvariant, PTL DEF Spec

-----------------------------------------------------------------------------
(* Wake-ups.                                                                *)

\* Where the owner will not look at taskQ_ again before it waits: outside
\* active() and before the first swap of processTaskQ().
PastTaskSwap ==
    \/ pc \in {"new", "check", "wait"}
    \/ pc = "process" /\ (phase # "swap" \/ stack # <<>>)

\* The same for callbackQueue_ and the second swap.
PastCallbackSwap ==
    \/ pc \in {"new", "check", "wait"}
    \/ pc = "process" /\ (phase \in {"cbs", "none"} \/ stack # <<>>)

WakeInv ==
    /\ PastTaskSwap /\ RemoteTask => WakePending
    /\ PastCallbackSwap /\ RemoteCallback => WakePending
    /\ pc = "wait" /\ isQuit => WakePending

\* What the owner queued itself is gone after the swap of run()'s own call.
LocalInv ==
    (pc \in {"new", "check", "wait"} \/ (pc = "process" /\ phase # "swap"))
    => \A i \in 1..Len(taskQ) : taskQ[i].by \in Remote

\* The owner's pushes add no work of another thread.
LEMMA OwnerPush ==
    ASSUME TypeInv, NEW op \in Op, NEW f \in Fd, PushTask(op, f, Owner), RemoteTask'
    PROVE  RemoteTask
  <1> DEFINE new == [id |-> nTask + 1, op |-> op, fd |-> f, by |-> Owner]
  <1>1. taskQ \in Seq(Task) /\ new \in Task /\ taskQ' = Append(taskQ, new)
    BY DEF PushTask, TypeInv, TypeOK, Task, Thread
  <1>2. Len(taskQ') = Len(taskQ) + 1 /\ Len(taskQ) \in Nat
        /\ \A i \in 1..Len(taskQ') : taskQ'[i] = IF i = Len(taskQ) + 1 THEN new ELSE taskQ[i]
    BY <1>1
  <1>3. PICK i \in 1..Len(taskQ') : taskQ'[i].by \in Remote
    BY DEF RemoteTask
  <1>4. i # Len(taskQ) + 1
    BY <1>2, <1>3
  <1>5. i \in 1..Len(taskQ) /\ taskQ[i].by \in Remote
    BY <1>2, <1>3, <1>4
  <1>6. QED
    BY <1>5 DEF RemoteTask

LEMMA OwnerPost ==
    ASSUME TypeInv, PushCallback(Owner), RemoteCallback'
    PROVE  RemoteCallback
  <1> DEFINE new == [id |-> nCb + 1, by |-> Owner, after |-> nTask]
  <1>1. callbackQueue \in Seq(Callback) /\ new \in Callback
        /\ callbackQueue' = Append(callbackQueue, new)
    BY DEF PushCallback, TypeInv, TypeOK, Callback, Thread
  <1>2. Len(callbackQueue') = Len(callbackQueue) + 1 /\ Len(callbackQueue) \in Nat
        /\ \A i \in 1..Len(callbackQueue') :
              callbackQueue'[i] = IF i = Len(callbackQueue) + 1 THEN new ELSE callbackQueue[i]
    BY <1>1
  <1>3. PICK i \in 1..Len(callbackQueue') : callbackQueue'[i].by \in Remote
    BY DEF RemoteCallback
  <1>4. i \in 1..Len(callbackQueue) /\ callbackQueue[i].by \in Remote
    BY <1>2, <1>3
  <1>5. QED
    BY <1>4 DEF RemoteCallback

LEMMA WakeStep == TypeInv /\ WakeInv /\ [Next]_vars => WakeInv'
  <1> SUFFICES ASSUME TypeInv, WakeInv, [Next]_vars PROVE WakeInv'
    OBVIOUS
  <1> USE DEF WakeInv, PastTaskSwap, PastCallbackSwap
  <1>1. CASE UNCHANGED vars
    BY <1>1 DEF vars, WakePending, RemoteTask, RemoteCallback
  <1>2. ASSUME NEW r \in Remote, RemoteStep(r) PROVE WakeInv'
    <2>1. CASE RemoteAddTask(r) \/ RemotePost(r) \/ Shutdown(r)
      \* The caller is between its push and its wake-up.
      <3>1. rpc'[r] = "wake"
        BY <2>1 DEF RemoteAddTask, RemotePost, Shutdown, TypeInv, TypeOK
      <3>2. QED
        BY <3>1 DEF WakePending
    <2>2. CASE TaskWakeup(r)
      <3>1. wake' > 0
        BY <2>2 DEF TaskWakeup, TypeInv, TypeOK
      <3>2. QED
        BY <3>1 DEF WakePending
    <2>3. QED
      BY <1>2, <2>1, <2>2 DEF RemoteStep
  <1>3. CASE RunStart \/ CheckQuit \/ Dispatch \/ DispatchTimeout \/ DispatchError
             \/ StartProcess \/ EndIteration
    BY <1>3 DEF RunStart, CheckQuit, Dispatch, DispatchTimeout, DispatchError,
                StartProcess, EndIteration, TypeInv, Control, frames, queues,
                WakePending, RemoteTask, RemoteCallback
  <1>4. CASE ActiveStep
    \* active() is over before the guarded part of the iteration begins.
    <2>1. pc' \in {"active", "inRead", "inWrite", "readDone", "writeDone"}
      BY <1>4 DEF ActiveStep, ActiveWake, ActiveNotFound, ActiveError, ActiveBegin,
                  CallbackQuiet, CallbackDelete, CallbackModify, CallbackPost, InCallback,
                  Returned, AfterRead, AfterWrite
    <2>2. QED
      BY <2>1
  <1>5. CASE ProcessStep
    <2>0. UNCHANGED WakePending
      BY <1>5 DEF ProcessStep, SwapTasks, ProcessTask, SwapCallbacks, RunCallback,
                  RunCallbackModify, EndProcess, WakePending
    <2>1. CASE SwapTasks
      <3>1. ~RemoteTask'
        BY <2>1 DEF SwapTasks, RemoteTask
      <3>2. QED
        BY <2>0, <2>1, <3>1 DEF SwapTasks, RemoteCallback
    <2>2. CASE ProcessTask
      BY <2>0, <2>2 DEF ProcessTask, RemoteTask, RemoteCallback, queues
    <2>3. CASE SwapCallbacks
      <3>1. ~RemoteCallback'
        BY <2>3 DEF SwapCallbacks, RemoteCallback
      <3>2. QED
        BY <2>0, <2>3, <3>1 DEF SwapCallbacks, RemoteTask
    <2>4. CASE RunCallback
      BY <2>0, <2>4 DEF RunCallback, PopCallback, TypeInv, Control, queues, RemoteTask, RemoteCallback
    <2>5. CASE RunCallbackModify
      <3>1. PICK f \in Fd : PushTask("MODIFY", f, Owner)
        BY <2>5 DEF RunCallbackModify, TypeInv, TypeOK
      <3>2. RemoteTask' => RemoteTask
        BY <3>1, OwnerPush DEF Op
      <3>3. RemoteCallback' => RemoteCallback
        BY <3>1 DEF PushTask, RemoteCallback
      <3>4. QED
        BY <2>0, <2>5, <3>2, <3>3 DEF RunCallbackModify, PopCallback, TypeInv, Control
    <2>6. CASE EndProcess
      BY <2>0, <2>6 DEF EndProcess, TypeInv, Control, queues, RemoteTask, RemoteCallback
    <2>7. QED
      BY <1>5, <2>1, <2>2, <2>3, <2>4, <2>5, <2>6 DEF ProcessStep
  <1>6. QED
    BY <1>1, <1>2, <1>3, <1>4, <1>5 DEF Next, OwnerStep, Dispatch

-----------------------------------------------------------------------------
(* The owner's own tasks.                                                   *)

LEMMA LocalStep == TypeInv /\ LocalInv /\ [Next]_vars => LocalInv'
  <1> SUFFICES ASSUME TypeInv, LocalInv, [Next]_vars PROVE LocalInv'
    OBVIOUS
  <1>1. CASE UNCHANGED <<pc, phase, taskQ>>
    BY <1>1 DEF LocalInv
  <1>2. ASSUME NEW r \in Remote, RemoteAddTask(r) PROVE LocalInv'
    <2>1. PICK op \in Op, f \in Fd : PushTask(op, f, r)
      BY <1>2 DEF RemoteAddTask
    <2> DEFINE new == [id |-> nTask + 1, op |-> op, fd |-> f, by |-> r]
    <2>2. taskQ \in Seq(Task) /\ new \in Task /\ taskQ' = Append(taskQ, new)
      BY <2>1 DEF PushTask, TypeInv, TypeOK, Task, Thread
    <2>3. Len(taskQ') = Len(taskQ) + 1 /\ Len(taskQ) \in Nat
          /\ \A i \in 1..Len(taskQ') : taskQ'[i] = IF i = Len(taskQ) + 1 THEN new ELSE taskQ[i]
      BY <2>2
    <2>4. ASSUME \A i \in 1..Len(taskQ) : taskQ[i].by \in Remote, NEW i \in 1..Len(taskQ')
          PROVE  taskQ'[i].by \in Remote
      <3>1. CASE i = Len(taskQ) + 1
        BY <2>3, <3>1
      <3>2. CASE i # Len(taskQ) + 1
        BY <2>3, <2>4, <3>2
      <3>3. QED
        BY <3>1, <3>2
    <2>5. UNCHANGED <<pc, phase>>
      BY <1>2 DEF RemoteAddTask, frames
    <2>6. QED
      BY <2>4, <2>5 DEF LocalInv
  <1>3. CASE ActiveStep
    <2>1. pc' \in {"active", "inRead", "inWrite", "readDone", "writeDone"}
      BY <1>3 DEF ActiveStep, ActiveWake, ActiveNotFound, ActiveError, ActiveBegin,
                  CallbackQuiet, CallbackDelete, CallbackModify, CallbackPost, InCallback,
                  Returned, AfterRead, AfterWrite
    <2>2. QED
      BY <2>1 DEF LocalInv
  <1>4. CASE SwapTasks
    BY <1>4 DEF SwapTasks, LocalInv
  <1>5. CASE RunCallbackModify
    BY <1>5 DEF RunCallbackModify, PopCallback, TypeInv, Control, LocalInv
  <1>6. CASE RunStart \/ CheckQuit \/ Dispatch \/ DispatchTimeout \/ DispatchError
             \/ StartProcess \/ EndIteration
    BY <1>6 DEF RunStart, CheckQuit, Dispatch, DispatchTimeout, DispatchError,
                StartProcess, EndIteration, frames, queues, TypeInv, Control, LocalInv
  <1>7. CASE ProcessTask \/ SwapCallbacks \/ RunCallback \/ EndProcess
    BY <1>7 DEF ProcessTask, SwapCallbacks, RunCallback, EndProcess, PopCallback, queues,
                TypeInv, Control, LocalInv
  <1>8. QED
    \* The remaining steps touch neither the control nor taskQ_.
    BY <1>1, <1>2, <1>3, <1>4, <1>5, <1>6, <1>7
    DEF Next, OwnerStep, RemoteStep, ProcessStep, vars, frames, queues,
        RemotePost, PushCallback, Shutdown, TaskWakeup

\* The owner never sleeps on work another thread handed over without a wake-up
\* byte present or on its way, nor on a task of its own.
THEOREM NoWakeupLost == Spec => []NoLostWakeup
  <1>1. Init => WakeInv /\ LocalInv
    BY DEF Init, WakeInv, LocalInv, RemoteTask, RemoteCallback
  <1>2. WakeInv /\ LocalInv => NoLostWakeup
    BY DEF WakeInv, LocalInv, PastTaskSwap, PastCallbackSwap, NoLostWakeup
  <1>3. QED
    BY <1>1, <1>2, WakeStep, LocalStep, TypeInvariant, PTL DEF Spec

-----------------------------------------------------------------------------
\* writeFunc runs only on a channel that is still registered, whatever
\* readFunc made of the map (WriteOnLiveChannel).
THEOREM WriteCallbackLive == Spec => []WriteOnLiveChannel
  <1>1. Init => WriteOnLiveChannel
    BY DEF Init, WriteOnLiveChannel
  <1>2. TypeInv /\ WriteOnLiveChannel /\ [Next]_vars => WriteOnLiveChannel'
    <2> SUFFICES ASSUME TypeInv, WriteOnLiveChannel, [Next]_vars, pc' = "inWrite"
                 PROVE  cur' \in channelMap'
      BY DEF WriteOnLiveChannel
    <2>1. CASE UNCHANGED <<pc, cur, channelMap>>
      BY <2>1 DEF WriteOnLiveChannel
    <2>2. CASE \E f \in Fd : ActiveBegin(f)
      BY <2>2 DEF ActiveBegin
    <2>3. CASE AfterRead
      BY <2>3 DEF AfterRead
    <2>4. CASE ProcessStep
      BY <2>4 DEF ProcessStep, SwapTasks, ProcessTask, SwapCallbacks, RunCallback,
                  RunCallbackModify, PopCallback, EndProcess, TypeInv, Control
    <2>5. QED
      BY <2>1, <2>2, <2>3, <2>4
      DEF Next, OwnerStep, RemoteStep, ActiveStep, vars, RemoteAddTask, RemotePost,
          Shutdown, TaskWakeup, RunStart, CheckQuit, Dispatch, DispatchTimeout,
          DispatchError, StartProcess, EndIteration, ActiveWake, ActiveNotFound,
          ActiveError, CallbackQuiet, CallbackDelete, CallbackModify, CallbackPost,
          InCallback, Returned, AfterWrite
  <1>3. QED
    BY <1>1, <1>2, TypeInvariant, PTL DEF Spec
-----------------------------------------------------------------------------
(* Posted callbacks.                                                        *)

IdsOf(st) == UNION {Ids(st[i]) : i \in 1..Len(st)}
Differ(s) == \A i, j \in 1..Len(s) : i # j => s[i].id # s[j].id

\* No queue of callbacks names one twice.
NoneTwice == Differ(callbackQueue) /\ \A i \in 1..Len(stack) : Differ(stack[i])

\* A push brings a number no queue has and that has not run.
LEMMA PushCallbackOnce ==
    ASSUME TypeInv, CallbackOnce, NoneTwice, NEW t \in Thread, PushCallback(t),
           UNCHANGED <<stack, ran>>
    PROVE  CallbackOnce' /\ NoneTwice'
  <1> DEFINE new == [id |-> nCb + 1, by |-> t, after |-> nTask]
  <1>1. callbackQueue \in Seq(Callback) /\ new \in Callback /\ nCb \in Nat /\ nCb' = nCb + 1
        /\ callbackQueue' = Append(callbackQueue, new)
    BY DEF PushCallback, TypeInv, TypeOK, Callback
  <1>2. /\ Len(callbackQueue') = Len(callbackQueue) + 1 /\ Len(callbackQueue) \in Nat
        /\ \A i \in 1..Len(callbackQueue) : callbackQueue'[i] = callbackQueue[i]
        /\ callbackQueue'[Len(callbackQueue) + 1] = new
    BY <1>1
  <1>3. Ids(callbackQueue') = Ids(callbackQueue) \cup {nCb + 1}
    <2>1. \A i : i \in 1..Len(callbackQueue')
                   <=> i \in 1..Len(callbackQueue) \/ i = Len(callbackQueue) + 1
      BY <1>2
    <2>2. callbackQueue'[Len(callbackQueue) + 1].id = nCb + 1
      BY <1>2
    <2>3. QED
      BY <1>2, <2>1, <2>2, Zenon DEF Ids
  <1>4. StackIds' = StackIds
    BY DEF StackIds, Ids
  <1>5. nCb + 1 \notin Ids(callbackQueue) \cup StackIds \cup ran
    BY <1>1 DEF CallbackOnce
  <1>6. 1..nCb' = (1..nCb) \cup {nCb + 1}
    BY <1>1
  <1>7. CallbackOnce'
    <2>1. Ids(callbackQueue') \cup StackIds' \cup ran' = 1..nCb'
      BY <1>3, <1>4, <1>6 DEF CallbackOnce
    <2>2. /\ Ids(callbackQueue') \cap StackIds' = {}
          /\ (Ids(callbackQueue') \cup StackIds') \cap ran' = {}
      BY <1>3, <1>4, <1>5 DEF CallbackOnce
    <2>3. QED
      BY <2>1, <2>2 DEF CallbackOnce
  <1>8. Differ(callbackQueue')
    <2>1. \A i \in 1..Len(callbackQueue) : callbackQueue[i].id # nCb + 1
      BY <1>5 DEF Ids
    <2>2. QED
      BY <1>1, <1>2, <2>1 DEF NoneTwice, Differ
  <1>9. QED
    BY <1>7, <1>8 DEF NoneTwice

\* What the innermost activation holds, and the activations below it.
LEMMA StackParts ==
    ASSUME NEW s \in Seq(Seq(Callback)), s # <<>>
    PROVE  /\ Len(s) \in Nat \ {0} /\ Tail(s) \in Seq(Seq(Callback))
           /\ Len(Tail(s)) = Len(s) - 1 /\ Head(s) = s[1] /\ s[1] \in Seq(Callback)
           /\ \A i \in 1..Len(Tail(s)) : Tail(s)[i] = s[i + 1]
           /\ IdsOf(s) = Ids(s[1]) \cup IdsOf(Tail(s))
  <1>1. /\ Len(s) \in Nat \ {0} /\ Tail(s) \in Seq(Seq(Callback))
        /\ Len(Tail(s)) = Len(s) - 1 /\ Head(s) = s[1] /\ s[1] \in Seq(Callback)
        /\ \A i \in 1..Len(Tail(s)) : Tail(s)[i] = s[i + 1]
    BY HeadTailProperties, EmptySeq
  <1>2. \A i \in 1..Len(s) : i = 1 \/ i - 1 \in 1..Len(Tail(s))
    BY <1>1
  <1>3. \A i \in 1..Len(s) : i # 1 => s[i] = Tail(s)[i - 1]
    BY <1>1, <1>2
  <1>4. \A i \in 1..Len(Tail(s)) : i + 1 \in 1..Len(s)
    BY <1>1
  <1>5. 1 \in 1..Len(s)
    BY <1>1
  <1>6. IdsOf(s) = Ids(s[1]) \cup IdsOf(Tail(s))
    <2>1. IdsOf(s) \subseteq Ids(s[1]) \cup IdsOf(Tail(s))
      BY <1>2, <1>3 DEF IdsOf
    <2>2. Ids(s[1]) \subseteq IdsOf(s)
      BY <1>5 DEF IdsOf
    <2>3. IdsOf(Tail(s)) \subseteq IdsOf(s)
      BY <1>1, <1>4 DEF IdsOf
    <2>4. QED
      BY <2>1, <2>2, <2>3
  <1>7. QED
    BY <1>1, <1>6

\* A new innermost queue on top of the others.
LEMMA StackPush ==
    ASSUME NEW q \in Seq(Callback), NEW s \in Seq(Seq(Callback))
    PROVE  /\ <<q>> \o s \in Seq(Seq(Callback)) /\ <<q>> \o s # <<>>
           /\ (<<q>> \o s)[1] = q /\ Tail(<<q>> \o s) = s
  <1>1. <<q>> \in Seq(Seq(Callback)) /\ Len(<<q>>) = 1 /\ <<q>>[1] = q /\ Len(s) \in Nat
    OBVIOUS
  <1>2. /\ <<q>> \o s \in Seq(Seq(Callback)) /\ Len(<<q>> \o s) = 1 + Len(s)
        /\ \A i \in 1..(1 + Len(s)) :
              (<<q>> \o s)[i] = IF i <= 1 THEN <<q>>[i] ELSE s[i - 1]
    BY <1>1, ConcatProperties
  <1>3. (<<q>> \o s)[1] = q /\ <<q>> \o s # <<>>
    BY <1>1, <1>2, EmptySeq
  <1>4. /\ Tail(<<q>> \o s) \in Seq(Seq(Callback)) /\ Len(Tail(<<q>> \o s)) = Len(s)
        /\ \A i \in 1..Len(s) : Tail(<<q>> \o s)[i] = (<<q>> \o s)[i + 1]
    BY <1>1, <1>2, <1>3, StackParts
  <1>5. \A i \in 1..Len(s) : Tail(<<q>> \o s)[i] = s[i]
    BY <1>1, <1>2, <1>4
  <1>6. Tail(<<q>> \o s) = s
    BY <1>4, <1>5, SeqEqual
  <1>7. QED
    BY <1>2, <1>3, <1>6

LEMMA CallbackStep == TypeInv /\ CallbackOnce /\ NoneTwice /\ [Next]_vars
                        => CallbackOnce' /\ NoneTwice'
  <1> SUFFICES ASSUME TypeInv, CallbackOnce, NoneTwice, [Next]_vars
               PROVE  CallbackOnce' /\ NoneTwice'
    OBVIOUS
  <1>0. /\ stack \in Seq(Seq(Callback)) /\ callbackQueue \in Seq(Callback)
        /\ StackIds = IdsOf(stack) /\ StackIds' = IdsOf(stack')
    BY DEF TypeInv, TypeOK, StackIds, IdsOf
  <1>1. CASE UNCHANGED <<callbackQueue, stack, ran, nCb>>
    BY <1>0, <1>1 DEF CallbackOnce, NoneTwice
  <1>2. ASSUME NEW r \in Remote, RemotePost(r) PROVE CallbackOnce' /\ NoneTwice'
    BY <1>2, PushCallbackOnce DEF RemotePost, Thread, frames
  <1>3. CASE CallbackPost
    BY <1>3, PushCallbackOnce DEF CallbackPost, Thread, frames
  <1>4. CASE SwapCallbacks
    <2>1. stack' = <<callbackQueue>> \o stack /\ callbackQueue' = <<>> /\ UNCHANGED <<ran, nCb>>
      BY <1>4 DEF SwapCallbacks
    <2>2. /\ stack' \in Seq(Seq(Callback)) /\ stack' # <<>>
          /\ stack'[1] = callbackQueue /\ Tail(stack') = stack
      BY <1>0, <2>1, StackPush
    <2>3. /\ Len(stack') \in Nat \ {0} /\ Len(stack) = Len(stack') - 1
          /\ \A i \in 1..Len(stack) : stack[i] = stack'[i + 1]
          /\ StackIds' = Ids(callbackQueue) \cup StackIds
      BY <1>0, <2>2, StackParts
    <2>4. \A i \in 1..Len(stack') : i = 1 \/ (i - 1 \in 1..Len(stack) /\ stack'[i] = stack[i - 1])
      BY <2>3
    <2>5. Ids(callbackQueue') = {}
      BY <2>1 DEF Ids
    <2>6. \A i \in 1..Len(stack) : Ids(stack[i]) \cap Ids(callbackQueue) = {}
      BY DEF CallbackOnce, StackIds
    <2>7. ASSUME NEW i \in 1..Len(stack'), NEW j \in 1..Len(stack'), i # j
          PROVE  Ids(stack'[i]) \cap Ids(stack'[j]) = {}
      <3>1. CASE i = 1 \/ j = 1
        BY <2>2, <2>4, <2>6, <2>7, <3>1
      <3>2. CASE i # 1 /\ j # 1
        <4>1. i - 1 # j - 1
          BY <2>3, <2>7
        <4>2. QED
          BY <2>4, <3>2, <4>1 DEF CallbackOnce
      <3>3. QED
        BY <3>1, <3>2
    <2>8. CallbackOnce'
      BY <2>1, <2>3, <2>5, <2>7 DEF CallbackOnce
    <2>9. NoneTwice'
      <3>1. Differ(callbackQueue')
        BY <2>1 DEF Differ
      <3>2. \A i \in 1..Len(stack') : Differ(stack'[i])
        BY <2>2, <2>4 DEF NoneTwice
      <3>3. QED
        BY <3>1, <3>2 DEF NoneTwice
    <2>10. QED
      BY <2>8, <2>9
  <1>5. CASE PopCallback /\ UNCHANGED <<callbackQueue, nCb>>
    <2> DEFINE top == Tail(stack[1])
               done == stack[1][1].id
    <2>1. /\ stack # <<>> /\ Head(stack) # <<>>
          /\ stack' = <<Tail(Head(stack))>> \o Tail(stack)
          /\ ran' = ran \cup {Head(Head(stack)).id}
      BY <1>5 DEF PopCallback, TypeInv, Control
    <2>2. /\ Len(stack) \in Nat \ {0} /\ Tail(stack) \in Seq(Seq(Callback))
          /\ Len(Tail(stack)) = Len(stack) - 1 /\ Head(stack) = stack[1]
          /\ stack[1] \in Seq(Callback)
          /\ \A i \in 1..Len(Tail(stack)) : Tail(stack)[i] = stack[i + 1]
          /\ StackIds = Ids(stack[1]) \cup IdsOf(Tail(stack))
      BY <1>0, <2>1, StackParts
    <2>3. /\ top \in Seq(Callback) /\ Len(stack[1]) \in Nat \ {0}
          /\ Len(top) = Len(stack[1]) - 1 /\ Head(stack[1]) = stack[1][1]
          /\ \A i \in 1..Len(top) : top[i] = stack[1][i + 1]
      BY <2>1, <2>2, HeadTailProperties, EmptySeq
    <2>4. 1 \in 1..Len(stack) /\ Differ(stack[1])
      <3>1. 1 \in 1..Len(stack)
        BY <2>2
      <3>2. QED
        BY <3>1 DEF NoneTwice
    <2>5. Ids(stack[1]) = Ids(top) \cup {done} /\ done \notin Ids(top)
      <3>1. \A i \in 1..Len(stack[1]) : i = 1 \/ (i - 1 \in 1..Len(top) /\ top[i - 1] = stack[1][i])
        BY <2>3
      <3>2. \A i \in 1..Len(top) : i + 1 \in 1..Len(stack[1]) /\ i + 1 # 1
        BY <2>3
      <3>3. 1 \in 1..Len(stack[1])
        BY <2>3
      <3>4. done \notin Ids(top)
        BY <2>3, <2>4, <3>2, <3>3 DEF Ids, Differ
      <3>5. Ids(stack[1]) \subseteq Ids(top) \cup {done}
        BY <3>1 DEF Ids
      <3>6. Ids(top) \subseteq Ids(stack[1])
        BY <2>3, <3>2 DEF Ids
      <3>7. done \in Ids(stack[1])
        BY <3>3 DEF Ids
      <3>8. QED
        BY <3>4, <3>5, <3>6, <3>7
    <2>6. Differ(top)
      <3>1. \A i, j \in 1..Len(top) : i # j => i + 1 # j + 1 /\ i + 1 \in 1..Len(stack[1])
                                               /\ j + 1 \in 1..Len(stack[1])
        BY <2>3
      <3>2. QED
        BY <2>3, <2>4, <3>1 DEF Differ
    <2>7. stack' \in Seq(Seq(Callback)) /\ stack' # <<>> /\ stack'[1] = top /\ Tail(stack') = Tail(stack)
      <3>1. stack' = <<top>> \o Tail(stack)
        BY <2>1, <2>2
      <3>2. top \in Seq(Callback) /\ Tail(stack) \in Seq(Seq(Callback))
        BY <2>2, <2>3
      <3>3. QED
        BY <3>1, <3>2, StackPush
    <2>8. /\ Len(stack') \in Nat \ {0} /\ Len(stack') = Len(stack)
          /\ \A i \in 1..Len(Tail(stack)) : Tail(stack)[i] = stack'[i + 1]
          /\ StackIds' = Ids(top) \cup IdsOf(Tail(stack))
      <3>1. /\ Len(stack') \in Nat \ {0} /\ Len(Tail(stack')) = Len(stack') - 1
            /\ \A i \in 1..Len(Tail(stack')) : Tail(stack')[i] = stack'[i + 1]
            /\ IdsOf(stack') = Ids(stack'[1]) \cup IdsOf(Tail(stack'))
        BY <2>7, StackParts
      <3>2. Len(stack') = Len(stack)
        <4>1. Len(stack') - 1 = Len(stack) - 1
          BY <2>2, <2>7, <3>1
        <4>2. Len(stack') \in Nat /\ Len(stack) \in Nat
          BY <2>2, <3>1
        <4>3. QED
          BY ONLY <4>1, <4>2
      <3>3. QED
        BY <1>0, <2>7, <3>1, <3>2
    <2>9. \A i \in 1..Len(stack) : i = 1 \/ stack'[i] = stack[i]
      <3>1. \A i \in 1..Len(stack) : i = 1 \/ (i - 1 \in 1..Len(Tail(stack)) /\ (i - 1) + 1 = i)
        BY <2>2
      <3>2. \A i \in 1..Len(Tail(stack)) : stack'[i + 1] = stack[i + 1]
        BY <2>2, <2>8
      <3>3. QED
        BY <3>1, <3>2
    <2>10. \A i \in 1..Len(stack) : Ids(stack'[i]) \subseteq Ids(stack[i])
      BY <2>5, <2>7, <2>9
    <2>11. done \notin IdsOf(Tail(stack))
      <3>1. \A i \in 1..Len(Tail(stack)) : i + 1 \in 1..Len(stack) /\ i + 1 # 1
        BY <2>2
      <3>2. \A i \in 1..Len(Tail(stack)) : Ids(Tail(stack)[i]) \cap Ids(stack[1]) = {}
        BY <2>2, <2>4, <3>1 DEF CallbackOnce
      <3>3. QED
        BY <2>5, <3>2 DEF IdsOf
    <2>12. StackIds = StackIds' \cup {done} /\ done \notin StackIds'
      BY <2>2, <2>5, <2>8, <2>11
    <2>13. ran' = ran \cup {done} /\ Ids(callbackQueue') = Ids(callbackQueue)
      BY <1>5, <2>1, <2>2, <2>3
    <2>14. \A i, j \in 1..Len(stack') : i # j => Ids(stack'[i]) \cap Ids(stack'[j]) = {}
      BY <2>8, <2>10 DEF CallbackOnce
    <2>15. CallbackOnce'
      <3>1. Ids(callbackQueue') \cup StackIds' \cup ran' = 1..nCb'
        BY <1>5, <2>12, <2>13 DEF CallbackOnce
      <3>2. Ids(callbackQueue') \cap StackIds' = {}
        BY <2>12, <2>13 DEF CallbackOnce
      <3>3. (Ids(callbackQueue') \cup StackIds') \cap ran' = {}
        BY <2>12, <2>13 DEF CallbackOnce
      <3>4. QED
        BY <2>14, <3>1, <3>2, <3>3 DEF CallbackOnce
    <2>16. NoneTwice'
      BY <1>5, <2>6, <2>7, <2>8, <2>9 DEF NoneTwice
    <2>17. QED
      BY <2>15, <2>16
  <1>6. CASE EndProcess
    <2>1. stack # <<>> /\ Head(stack) = <<>> /\ stack' = Tail(stack)
          /\ UNCHANGED <<callbackQueue, ran, nCb>>
      BY <1>6 DEF EndProcess, TypeInv, Control, queues
    <2>2. /\ Len(stack) \in Nat \ {0} /\ Len(stack') = Len(stack) - 1 /\ stack[1] = <<>>
          /\ \A i \in 1..Len(stack') : stack'[i] = stack[i + 1]
          /\ StackIds = Ids(stack[1]) \cup StackIds'
      BY <1>0, <2>1, StackParts
    <2>3. Ids(stack[1]) = {}
      BY <2>2 DEF Ids
    <2>4. StackIds' = StackIds
      BY <2>2, <2>3
    <2>5. \A i, j \in 1..Len(stack') : /\ i + 1 \in 1..Len(stack) /\ j + 1 \in 1..Len(stack)
                                       /\ i # j => i + 1 # j + 1
      BY <2>2
    <2>6. CallbackOnce'
      BY <2>1, <2>2, <2>4, <2>5 DEF CallbackOnce
    <2>7. NoneTwice'
      BY <2>1, <2>2, <2>5 DEF NoneTwice
    <2>8. QED
      BY <2>6, <2>7
  <1>7. QED
    \* No other action touches a callback.
    BY <1>1, <1>2, <1>3, <1>4, <1>5, <1>6
    DEF Next, OwnerStep, RemoteStep, ActiveStep, ProcessStep, vars, frames, queues,
        RemoteAddTask, PushTask, Shutdown, TaskWakeup, RunStart, CheckQuit, Dispatch,
        DispatchTimeout, DispatchError, StartProcess, EndIteration, ActiveWake,
        ActiveNotFound, ActiveError, ActiveBegin, CallbackQuiet, CallbackDelete,
        CallbackModify, AfterRead, AfterWrite, SwapTasks, ProcessTask, RunCallback,
        RunCallbackModify

\* Every posted callback is in exactly one place until it has run, and runs
\* once, whichever callbacks enter processTaskQ() again (CallbackOnce).
THEOREM EachCallbackOnce == Spec => []CallbackOnce
  <1>1. Init => CallbackOnce /\ NoneTwice
    BY DEF Init, CallbackOnce, NoneTwice, StackIds, Ids, Differ
  <1>2. QED
    BY <1>1, CallbackStep, TypeInvariant, PTL DEF Spec
=============================================================================
