----------------------------- MODULE EventLoop -----------------------------
(***************************************************************************)
(* One reactor::core::EventLoop: the owner thread that runs it and the     *)
(* other threads that call addTask, post and shutdown on it.               *)
(*                                                                         *)
(* The two queues guarded by mutex_, the socketpair that wakes the owner,  *)
(* the batch of events one dispatch() returns and the recursive            *)
(* processTaskQ() are kept; a Channel is its descriptor and a callback is  *)
(* its number.  One step of the owner is one critical section, one system  *)
(* call or one user callback.                                              *)
(***************************************************************************)
EXTENDS Naturals, Sequences, FiniteSets

CONSTANTS
    Fd,            \* descriptors a Channel may be registered for
    Remote,        \* threads other than the owner that use the loop
    Owner,         \* the thread that constructed the loop and calls run()
    WakeFd,        \* socketPair_[0], the read end of the wake-up pair
    None,          \* no descriptor
    WakeCap,       \* bytes the socketpair buffers before write() fails
    MaxCalls,      \* bound: addTask and post calls in one behaviour
    EarlyShutdown, \* may shutdown() be called before run() has begun?
    MayFail        \* may the dispatcher refuse an add, a remove, a dispatch?

ASSUME EventLoopAssumption ==
    /\ Owner \notin Remote
    /\ WakeFd \notin Fd /\ None \notin Fd /\ None # WakeFd
    /\ WakeCap \in Nat \ {0}
    /\ MaxCalls \in Nat
    /\ EarlyShutdown \in BOOLEAN
    /\ MayFail \in BOOLEAN

VARIABLES
    pc,            \* where the owner is in run()
    isQuit,        \* isQuit_
    wake,          \* bytes waiting in the socketpair
    taskQ,         \* taskQ_
    callbackQueue, \* callbackQueue_
    localQ,        \* localQ of the innermost processTaskQ() on the stack
    stack,         \* localCbs of every processTaskQ() that runs callbacks
    phase,         \* where the innermost processTaskQ() is
    channelMap,    \* descriptors registered in channelMap_
    batch,         \* events of this dispatch() not yet given to active()
    cur,           \* descriptor whose callback active() is running
    rpc,           \* per remote thread: between its push and its wake-up?
    nTask,         \* tasks accepted so far
    nDone,         \* tasks handled so far
    nCb,           \* callbacks accepted so far
    ran            \* callbacks that have run

queues == <<taskQ, callbackQueue, nTask, nCb>>
frames == <<localQ, stack, phase, nDone, ran>>
vars == <<pc, isQuit, wake, taskQ, callbackQueue, localQ, stack, phase,
          channelMap, batch, cur, rpc, nTask, nDone, nCb, ran>>

Op == {"ADD", "DELETE", "MODIFY"}
Thread == Remote \cup {Owner}
Task == [id : Nat, op : Op, fd : Fd, by : Thread]
\* A posted callback: its number, who posted it, and (history) how many
\* tasks had been accepted when it was posted.
Callback == [id : Nat, by : Thread, after : Nat]

-----------------------------------------------------------------------------
Init ==
    /\ pc = "new" /\ isQuit = TRUE /\ wake = 0
    /\ taskQ = <<>> /\ callbackQueue = <<>>
    /\ localQ = <<>> /\ stack = <<>> /\ phase = "none"
    /\ channelMap = {} /\ batch = {} /\ cur = None
    /\ rpc = [r \in Remote |-> "idle"]
    /\ nTask = 0 /\ nDone = 0 /\ nCb = 0 /\ ran = {}

-----------------------------------------------------------------------------
(* The critical sections of addTask and post, whoever calls them.           *)

MoreCalls == nTask + nCb < MaxCalls

PushTask(op, f, t) ==
    /\ MoreCalls
    /\ nTask' = nTask + 1
    /\ taskQ' = Append(taskQ, [id |-> nTask + 1, op |-> op, fd |-> f, by |-> t])
    /\ UNCHANGED <<callbackQueue, nCb>>

PushCallback(t) ==
    /\ MoreCalls
    /\ nCb' = nCb + 1
    /\ callbackQueue' = Append(callbackQueue,
                               [id |-> nCb + 1, by |-> t, after |-> nTask])
    /\ UNCHANGED <<taskQ, nTask>>

\* addTask from a thread that does not own the loop: push, wake-up to follow.
RemoteAddTask(r) ==
    /\ rpc[r] = "idle"
    /\ \E op \in Op, f \in Fd : PushTask(op, f, r)
    /\ rpc' = [rpc EXCEPT ![r] = "wake"]
    /\ UNCHANGED <<pc, isQuit, wake, frames, channelMap, batch, cur>>

\* Mutant: post of another thread forgets taskWakeup_.
RemotePostSilent(r) ==
    /\ rpc[r] = "idle"
    /\ PushCallback(r)
    /\ UNCHANGED <<pc, isQuit, wake, frames, channelMap, batch, cur, rpc>>

\* post from a thread that does not own the loop.
RemotePost(r) ==
    /\ rpc[r] = "idle"
    /\ PushCallback(r)
    /\ rpc' = [rpc EXCEPT ![r] = "wake"]
    /\ UNCHANGED <<pc, isQuit, wake, frames, channelMap, batch, cur>>

\* Mutant: shutdown sets isQuit_ and leaves the loop asleep.
ShutdownSilent(r) ==
    /\ rpc[r] = "idle"
    /\ EarlyShutdown \/ pc # "new"
    /\ isQuit' = TRUE
    /\ UNCHANGED <<pc, wake, queues, frames, channelMap, batch, cur, rpc>>

\* shutdown: set isQuit_, wake-up to follow.
Shutdown(r) ==
    /\ rpc[r] = "idle"
    /\ EarlyShutdown \/ pc # "new"
    /\ isQuit' = TRUE
    /\ rpc' = [rpc EXCEPT ![r] = "wake"]
    /\ UNCHANGED <<pc, wake, queues, frames, channelMap, batch, cur>>

\* taskWakeup_: one byte into the non-blocking pair, the result is ignored.
TaskWakeup(r) ==
    /\ rpc[r] = "wake"
    /\ wake' = IF wake < WakeCap THEN wake + 1 ELSE wake
    /\ rpc' = [rpc EXCEPT ![r] = "idle"]
    /\ UNCHANGED <<pc, isQuit, queues, frames, channelMap, batch, cur>>

-----------------------------------------------------------------------------
(* run()                                                                   *)

RunStart ==
    /\ pc = "new"
    /\ isQuit' = FALSE
    /\ pc' = "check"
    /\ UNCHANGED <<wake, queues, frames, channelMap, batch, cur, rpc>>

CheckQuit ==
    /\ pc = "check"
    /\ pc' = IF isQuit THEN "exited" ELSE "wait"
    /\ UNCHANGED <<isQuit, wake, queues, frames, channelMap, batch, cur, rpc>>

Ready == channelMap \cup (IF wake > 0 THEN {WakeFd} ELSE {})

\* dispatch() returns because descriptors are ready.
Dispatch ==
    /\ pc = "wait"
    /\ \E b \in SUBSET Ready :
          /\ b # {}
          /\ batch' = b
    /\ pc' = "active"
    /\ UNCHANGED <<isQuit, wake, queues, frames, channelMap, cur, rpc>>

\* dispatch() returns because its time-out of two seconds expired.
DispatchTimeout ==
    /\ pc = "wait"
    /\ pc' = "active"
    /\ UNCHANGED <<isQuit, wake, queues, frames, channelMap, batch, cur, rpc>>

\* dispatch() returns kError and run() returns with it.
DispatchError ==
    /\ MayFail
    /\ pc = "wait"
    /\ pc' = "failed"
    /\ UNCHANGED <<isQuit, wake, queues, frames, channelMap, batch, cur, rpc>>

\* run() calls processTaskQ() once every event of the batch was handled.
StartProcess ==
    /\ pc = "active" /\ batch = {}
    /\ pc' = "process" /\ phase' = "swap"
    /\ UNCHANGED <<isQuit, wake, queues, localQ, stack, nDone, ran,
                   channelMap, batch, cur, rpc>>

\* Mutant: the wake-up pair is drained after processTaskQ().
EndIterationDrains ==
    /\ pc = "process" /\ phase = "none"
    /\ pc' = "check" /\ wake' = 0
    /\ UNCHANGED <<isQuit, queues, frames, channelMap, batch, cur, rpc>>

EndIteration ==
    /\ pc = "process" /\ phase = "none"
    /\ pc' = "check"
    /\ UNCHANGED <<isQuit, wake, queues, frames, channelMap, batch, cur, rpc>>

-----------------------------------------------------------------------------
(* active()                                                                *)

\* readLocalMessage_ empties the pair.
ActiveWake ==
    /\ pc = "active" /\ WakeFd \in batch
    /\ batch' = batch \ {WakeFd}
    /\ wake' = 0
    /\ UNCHANGED <<pc, isQuit, queues, frames, channelMap, cur, rpc>>

\* The channel of the event is gone: kNotFound.
ActiveNotFound(f) ==
    /\ pc = "active" /\ f \in batch \ channelMap
    /\ batch' = batch \ {f}
    /\ UNCHANGED <<pc, isQuit, wake, queues, frames, channelMap, cur, rpc>>

\* remove_: the entry goes only when the dispatcher let the descriptor go.
Remove(f) ==
    \/ channelMap' = channelMap \ {f}
    \/ MayFail /\ channelMap' = channelMap

\* An error event removes the channel at once.
ActiveError(f) ==
    /\ pc = "active" /\ f \in batch \cap channelMap
    /\ batch' = batch \ {f}
    /\ Remove(f)
    /\ UNCHANGED <<pc, isQuit, wake, queues, frames, cur, rpc>>

\* A readable event runs readFunc, an event that is only writable writeFunc.
ActiveBegin(f) ==
    /\ pc = "active" /\ f \in batch \cap channelMap
    /\ batch' = batch \ {f}
    /\ cur' = f
    /\ pc' \in {"inRead", "inWrite"}
    /\ UNCHANGED <<isQuit, wake, queues, frames, channelMap, rpc>>

InCallback == pc \in {"inRead", "inWrite"}
Returned == [inRead |-> "readDone", inWrite |-> "writeDone"]

\* The callback returns without calling into the loop.
CallbackQuiet ==
    /\ InCallback
    /\ pc' = Returned[pc]
    /\ UNCHANGED <<isQuit, wake, queues, frames, channelMap, batch, cur, rpc>>

\* addTask(fd, DELETE) on the owner thread: only queued, no wake-up.
CallbackDelete ==
    /\ InCallback
    /\ PushTask("DELETE", cur, Owner)
    /\ pc' = Returned[pc]
    /\ UNCHANGED <<isQuit, wake, frames, channelMap, batch, cur, rpc>>

\* addTask(fd, MODIFY) on the owner thread: queued and processTaskQ() run
\* before the callback returns.
CallbackModify ==
    /\ InCallback
    /\ PushTask("MODIFY", cur, Owner)
    /\ phase' = "swap"
    /\ pc' = Returned[pc]
    /\ UNCHANGED <<isQuit, wake, localQ, stack, nDone, ran,
                   channelMap, batch, cur, rpc>>

\* post on the owner thread: only queued, no wake-up.
CallbackPost ==
    /\ InCallback
    /\ PushCallback(Owner)
    /\ pc' = Returned[pc]
    /\ UNCHANGED <<isQuit, wake, frames, channelMap, batch, cur, rpc>>

\* Mutant: writeFunc runs on the Channel looked up before readFunc.
AfterReadUnchecked ==
    /\ pc = "readDone" /\ phase = "none"
    /\ \/ pc' = "active" /\ cur' = None
       \/ pc' = "inWrite" /\ UNCHANGED cur
    /\ UNCHANGED <<isQuit, wake, queues, frames, channelMap, batch, rpc>>

\* Mutant: the descriptor is forgotten before writeFunc runs.
AfterReadForgets ==
    /\ pc = "readDone" /\ phase = "none"
    /\ cur' = None
    /\ pc' = "active" \/ (cur \in channelMap /\ pc' = "inWrite")
    /\ UNCHANGED <<isQuit, wake, queues, frames, channelMap, batch, rpc>>

\* Back in active() after readFunc: look the channel up again, and run
\* writeFunc if it is still there and the event was writable too.
AfterRead ==
    /\ pc = "readDone" /\ phase = "none"
    /\ \/ pc' = "active" /\ cur' = None
       \/ cur \in channelMap /\ pc' = "inWrite" /\ UNCHANGED cur
    /\ UNCHANGED <<isQuit, wake, queues, frames, channelMap, batch, rpc>>

AfterWrite ==
    /\ pc = "writeDone" /\ phase = "none"
    /\ pc' = "active" /\ cur' = None
    /\ UNCHANGED <<isQuit, wake, queues, frames, channelMap, batch, rpc>>

-----------------------------------------------------------------------------
(* processTaskQ()                                                          *)

\* Mutant: taskQ_ is copied, not swapped.
SwapTasksCopies ==
    /\ phase = "swap"
    /\ phase' = "tasks"
    /\ localQ' = taskQ
    /\ UNCHANGED <<pc, isQuit, wake, taskQ, callbackQueue, nTask, nCb, stack, nDone,
                   ran, channelMap, batch, cur, rpc>>

\* First critical section: take every queued task.
SwapTasks ==
    /\ phase = "swap"
    /\ phase' = "tasks"
    /\ localQ' = taskQ /\ taskQ' = <<>>
    /\ UNCHANGED <<pc, isQuit, wake, callbackQueue, nTask, nCb, stack, nDone,
                   ran, channelMap, batch, cur, rpc>>

\* add_: a second registration of a descriptor is refused, and so is one the
\* dispatcher cannot take.
Add(f) ==
    \/ f \notin channelMap /\ channelMap' = channelMap \cup {f}
    \/ (f \in channelMap \/ MayFail) /\ channelMap' = channelMap

Handle(t) ==
    \/ t.op = "ADD" /\ Add(t.fd)
    \/ t.op = "DELETE" /\ Remove(t.fd)
    \/ t.op = "MODIFY" /\ channelMap' = channelMap

ProcessTask ==
    /\ phase = "tasks" /\ localQ # <<>>
    /\ Handle(Head(localQ))
    /\ localQ' = Tail(localQ)
    /\ nDone' = nDone + 1
    /\ UNCHANGED <<pc, isQuit, wake, queues, stack, phase, ran, batch, cur, rpc>>

\* Mutant: every activation of processTaskQ() uses the same local queue.
SwapCallbacksShared ==
    /\ phase = "tasks" /\ localQ = <<>>
    /\ phase' = "cbs"
    /\ stack' = <<callbackQueue>> \o [i \in 1..Len(stack) |-> callbackQueue]
    /\ callbackQueue' = <<>>
    /\ UNCHANGED <<pc, isQuit, wake, taskQ, nTask, nCb, localQ, nDone, ran,
                   channelMap, batch, cur, rpc>>

\* Second critical section: take every queued callback.
SwapCallbacks ==
    /\ phase = "tasks" /\ localQ = <<>>
    /\ phase' = "cbs"
    /\ stack' = <<callbackQueue>> \o stack
    /\ callbackQueue' = <<>>
    /\ UNCHANGED <<pc, isQuit, wake, taskQ, nTask, nCb, localQ, nDone, ran,
                   channelMap, batch, cur, rpc>>

PopCallback ==
    /\ phase = "cbs" /\ Head(stack) # <<>>
    /\ stack' = <<Tail(Head(stack))>> \o Tail(stack)
    /\ ran' = ran \cup {Head(Head(stack)).id}

\* A posted callback that does not touch the loop (its connection is gone).
RunCallback ==
    /\ PopCallback
    /\ UNCHANGED <<pc, isQuit, wake, queues, localQ, phase, nDone,
                   channelMap, batch, cur, rpc>>

\* A posted callback that calls sendAsyncResponse, which posts MODIFY on the
\* owner thread: processTaskQ() is entered again below this callback.
RunCallbackModify ==
    /\ PopCallback
    /\ \E f \in channelMap : PushTask("MODIFY", f, Owner)
    /\ phase' = "swap"
    /\ UNCHANGED <<pc, isQuit, wake, localQ, nDone, channelMap, batch, cur, rpc>>

\* processTaskQ() returns, to the callback that entered it or to run().
EndProcess ==
    /\ phase = "cbs" /\ Head(stack) = <<>>
    /\ stack' = Tail(stack)
    /\ phase' = IF Tail(stack) = <<>> THEN "none" ELSE "cbs"
    /\ UNCHANGED <<pc, isQuit, wake, queues, localQ, nDone, ran,
                   channelMap, batch, cur, rpc>>

-----------------------------------------------------------------------------
ActiveStep ==
    \/ ActiveWake
    \/ \E f \in Fd : ActiveNotFound(f) \/ ActiveError(f) \/ ActiveBegin(f)
    \/ CallbackQuiet \/ CallbackDelete \/ CallbackModify \/ CallbackPost
    \/ AfterRead \/ AfterWrite

ProcessStep ==
    \/ SwapTasks \/ ProcessTask \/ SwapCallbacks
    \/ RunCallback \/ RunCallbackModify \/ EndProcess

\* Everything the owner does except returning from dispatch() by time-out.
OwnerStep ==
    \/ RunStart \/ CheckQuit \/ Dispatch \/ StartProcess \/ EndIteration
    \/ ActiveStep \/ ProcessStep

RemoteStep(r) == RemoteAddTask(r) \/ RemotePost(r) \/ Shutdown(r) \/ TaskWakeup(r)

\* The owner has returned from run(): nothing of this loop happens any more
\* but the calls of other threads.
Stopped == pc \in {"exited", "failed"}

Next ==
    \/ OwnerStep \/ DispatchTimeout \/ DispatchError
    \/ \E r \in Remote : RemoteStep(r)

Spec == Init /\ [][Next]_vars

\* The owner thread is scheduled, and a remote thread inside addTask, post or
\* shutdown finishes its call.  Nothing is assumed about the two-second
\* time-out: a call from another thread must not depend on it.
Fairness == WF_vars(OwnerStep) /\ \A r \in Remote : WF_vars(TaskWakeup(r))

FairSpec == Spec /\ Fairness

-----------------------------------------------------------------------------
(* Properties                                                              *)

\* Types of all variables of the loop (EventLoop.hpp:129-144).
TypeOK ==
    /\ pc \in {"new", "check", "wait", "active", "inRead", "inWrite",
               "readDone", "writeDone", "process", "exited", "failed"}
    /\ isQuit \in BOOLEAN
    /\ wake \in 0..WakeCap
    /\ taskQ \in Seq(Task) /\ localQ \in Seq(Task)
    /\ callbackQueue \in Seq(Callback) /\ stack \in Seq(Seq(Callback))
    /\ phase \in {"none", "swap", "tasks", "cbs"}
    /\ channelMap \in SUBSET Fd
    /\ batch \in SUBSET (Fd \cup {WakeFd})
    /\ cur \in Fd \cup {None}
    /\ rpc \in [Remote -> {"idle", "wake"}]
    /\ nTask \in Nat /\ nDone \in Nat /\ nCb \in Nat
    /\ ran \in SUBSET Nat

WakePending == wake > 0 \/ \E r \in Remote : rpc[r] = "wake"
RemoteTask == \E i \in 1..Len(taskQ) : taskQ[i].by \in Remote
RemoteCallback == \E i \in 1..Len(callbackQueue) : callbackQueue[i].by \in Remote

\* The owner never sleeps in dispatch() on outstanding work: whenever it waits
\* and a task, a callback or a shutdown request of another thread is
\* outstanding, a wake-up byte is in the pair or about to be written
\* (taskWakeup_, readLocalMessage_ and the order drain, swap, check); and no
\* task it queued for itself, for which addTask writes no byte, is left.
NoLostWakeup ==
    pc = "wait" =>
        /\ RemoteTask \/ RemoteCallback \/ isQuit => WakePending
        /\ \A i \in 1..Len(taskQ) : taskQ[i].by \in Remote

\* The tasks accepted by addTask and not yet handled are exactly those in the
\* local queue followed by those in taskQ_, in the order of acceptance, also
\* while processTaskQ() runs recursively: none lost, none twice, none early.
TaskFIFO ==
    /\ nTask = nDone + Len(localQ) + Len(taskQ)
    /\ \A i \in 1..Len(localQ) : localQ[i].id = nDone + i
    /\ \A i \in 1..Len(taskQ) : taskQ[i].id = nDone + Len(localQ) + i

Ids(s) == {s[i].id : i \in 1..Len(s)}
StackIds == UNION {Ids(stack[i]) : i \in 1..Len(stack)}

\* A posted callback is in exactly one place: callbackQueue_, the local queue
\* of one activation of processTaskQ(), or among those that have run.
CallbackOnce ==
    /\ Ids(callbackQueue) \cup StackIds \cup ran = 1..nCb
    /\ Ids(callbackQueue) \cap StackIds = {}
    /\ (Ids(callbackQueue) \cup StackIds) \cap ran = {}
    /\ \A i, j \in 1..Len(stack) :
          i # j => Ids(stack[i]) \cap Ids(stack[j]) = {}

\* active() runs writeFunc only for a channel that still is in channelMap_,
\* although readFunc may have destroyed it through a nested processTaskQ().
WriteOnLiveChannel == pc = "inWrite" => cur \in channelMap

\* Accepted tasks are handled and posted callbacks run, or run() returned:
\* under FairSpec, so without the help of the dispatch time-out, also for what
\* the owner posts from a Channel's callback without a wake-up byte.  Tasks are
\* handled in order and MaxCalls bounds them, so it is enough that the loop
\* catches up.
WorkHandled ==
    /\ (nDone < nTask) ~> (nDone = nTask \/ Stopped)
    /\ (ran # 1..nCb) ~> (ran = 1..nCb \/ Stopped)

\* A shutdown() of a running loop makes run() return.
ShutdownStops == (isQuit /\ pc # "new") ~> Stopped

\* A callback runs only after every task accepted before it was posted
\* (EventLoop.hpp:109, EventLoop.cpp:266: the callback queue is handled after
\* the task queue, so that channel changes precede the callback).
CallbackAfterItsTasks ==
    [][ran' # ran => Head(Head(stack)).after <= nDone]_vars

\* While active() runs a callback no channel leaves channelMap_
\* (EventLoop.cpp:193-194: a DELETE is only queued, whatever the thread, so
\* that it never happens while dispatch() is inside active()).
NoDestroyInActive == [][cur # None => channelMap \subseteq channelMap']_vars
=============================================================================
