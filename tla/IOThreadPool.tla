---------------------------- MODULE IOThreadPool ----------------------------
(***************************************************************************)
(* net::IOThreadPool: the main thread that starts, uses and stops the pool *)
(* and one worker thread per EventLoop.  A loop is what run() and          *)
(* shutdown() make of it from the outside: isQuit_, and whether run() has  *)
(* begun and returned; module EventLoop has the inside, where it is shown  *)
(* that a loop whose isQuit_ is set does return.                           *)
(***************************************************************************)
EXTENDS Integers, FiniteSets

CONSTANTS
    MaxThreads,   \* maxThreads_, the number of workers
    MaxGiven,     \* bound: connections handed to loops in one behaviour
    MaxStarts,    \* bound: calls of start() that create threads
    LoopMayFail   \* may run() return kError?

ASSUME IOThreadPoolAssumption ==
    /\ MaxThreads \in Nat \ {0}
    /\ MaxGiven \in Nat
    /\ MaxStarts \in Nat
    /\ LoopMayFail \in BOOLEAN

VARIABLES
    mpc,        \* the main thread: inside which call, at which step
    next,       \* loop index of that step (the for loops of start and stop)
    worker,     \* per index: life of the thread in threads_
    built,      \* per index: loops_[i] is constructed
    quit,       \* per index: isQuit_ of loops_[i]
    latch,      \* latch_; below zero is undefined behaviour
    loopIndex,  \* loopIndex_
    given,      \* history: connections given to each loop
    starts      \* history: calls of start() that created threads

vars == <<mpc, next, worker, built, quit, latch, loopIndex, given, starts>>

Index == 0..MaxThreads - 1

Init ==
    /\ mpc = "idle" /\ next = 0
    /\ worker = [i \in Index |-> "none"]
    /\ built = [i \in Index |-> FALSE]
    /\ quit = [i \in Index |-> TRUE]
    /\ latch = MaxThreads
    /\ loopIndex = 0
    /\ given = [i \in Index |-> 0]
    /\ starts = 0

-----------------------------------------------------------------------------
(* The main thread                                                         *)

\* start() with no threads; with threads it returns at once.
Start ==
    /\ mpc = "idle" /\ starts < MaxStarts
    /\ mpc' = "spawn" /\ next' = 0
    /\ starts' = starts + 1
    /\ UNCHANGED <<worker, built, quit, latch, loopIndex, given>>

Spawn ==
    /\ mpc = "spawn" /\ next < MaxThreads
    /\ worker' = [worker EXCEPT ![next] = "spawned"]
    /\ next' = next + 1
    /\ UNCHANGED <<mpc, built, quit, latch, loopIndex, given, starts>>

\* Mutant: start() does not wait for the loops.
LatchWaitSkipped ==
    /\ mpc = "spawn" /\ next = MaxThreads
    /\ mpc' = "running"
    /\ UNCHANGED <<next, worker, built, quit, latch, loopIndex, given, starts>>

LatchWait ==
    /\ mpc = "spawn" /\ next = MaxThreads
    /\ latch <= 0
    /\ mpc' = "running"
    /\ UNCHANGED <<next, worker, built, quit, latch, loopIndex, given, starts>>

\* Mutant: loopIndex_ runs past the last loop.
GetNextLoopNoWrap ==
    /\ mpc = "running"
    /\ \E i \in Index : i = loopIndex /\ given[i] < MaxGiven
    /\ given' = [given EXCEPT ![loopIndex] = @ + 1]
    /\ loopIndex' = loopIndex + 1
    /\ UNCHANGED <<mpc, next, worker, built, quit, latch, starts>>

\* Mutant: the last loop is never chosen.
GetNextLoopShort ==
    /\ mpc = "running"
    /\ \E i \in Index : i = loopIndex /\ given[i] < MaxGiven
    /\ given' = [given EXCEPT ![loopIndex] = @ + 1]
    /\ loopIndex' = (loopIndex + 1) % (MaxThreads - 1)
    /\ UNCHANGED <<mpc, next, worker, built, quit, latch, starts>>

\* getNextLoop: the loop at loopIndex_, then advance round robin.
GetNextLoop ==
    /\ mpc = "running"
    /\ \E i \in Index : i = loopIndex /\ given[i] < MaxGiven
    /\ given' = [given EXCEPT ![loopIndex] = @ + 1]
    /\ loopIndex' = (loopIndex + 1) % MaxThreads
    /\ UNCHANGED <<mpc, next, worker, built, quit, latch, starts>>

\* stop(), or the destructor: first every shutdown, then every join.
Stop ==
    /\ mpc = "running"
    /\ mpc' = "shutdown" /\ next' = 0
    /\ UNCHANGED <<worker, built, quit, latch, loopIndex, given, starts>>

\* Mutant: stop() spares the first loop.
ShutdownLoopFromOne ==
    /\ mpc = "shutdown" /\ next < MaxThreads
    /\ quit' = IF built[next] /\ next > 0 THEN [quit EXCEPT ![next] = TRUE] ELSE quit
    /\ next' = next + 1
    /\ UNCHANGED <<mpc, worker, built, latch, loopIndex, given, starts>>

ShutdownLoop ==
    /\ mpc = "shutdown" /\ next < MaxThreads
    /\ quit' = IF built[next] THEN [quit EXCEPT ![next] = TRUE] ELSE quit
    /\ next' = next + 1
    /\ UNCHANGED <<mpc, worker, built, latch, loopIndex, given, starts>>

BeginJoin ==
    /\ mpc = "shutdown" /\ next = MaxThreads
    /\ mpc' = "join" /\ next' = 0
    /\ UNCHANGED <<worker, built, quit, latch, loopIndex, given, starts>>

JoinWorker ==
    /\ mpc = "join" /\ next < MaxThreads
    /\ worker[next] = "exited"
    /\ worker' = [worker EXCEPT ![next] = "none"]
    /\ next' = next + 1
    /\ UNCHANGED <<mpc, built, quit, latch, loopIndex, given, starts>>

\* threads_.clear()
EndStop ==
    /\ mpc = "join" /\ next = MaxThreads
    /\ mpc' = "idle"
    /\ UNCHANGED <<next, worker, built, quit, latch, loopIndex, given, starts>>

-----------------------------------------------------------------------------
(* worker_(i)                                                              *)

\* loops_[i] = make_unique<EventLoop>: a new loop has isQuit_ = true.
Construct(i) ==
    /\ worker[i] = "spawned"
    /\ worker' = [worker EXCEPT ![i] = "constructed"]
    /\ built' = [built EXCEPT ![i] = TRUE]
    /\ quit' = [quit EXCEPT ![i] = TRUE]
    /\ UNCHANGED <<mpc, next, latch, loopIndex, given, starts>>

CountDown(i) ==
    /\ worker[i] = "constructed"
    /\ worker' = [worker EXCEPT ![i] = "counted"]
    /\ latch' = latch - 1
    /\ UNCHANGED <<mpc, next, built, quit, loopIndex, given, starts>>

\* The first statement of EventLoop::run().
RunStart(i) ==
    /\ worker[i] = "counted"
    /\ worker' = [worker EXCEPT ![i] = "looping"]
    /\ quit' = [quit EXCEPT ![i] = FALSE]
    /\ UNCHANGED <<mpc, next, built, latch, loopIndex, given, starts>>

\* The loop sees isQuit_, or run() returns kError; worker_ ignores which.
RunReturn(i) ==
    /\ worker[i] = "looping"
    /\ quit[i] \/ LoopMayFail
    /\ worker' = [worker EXCEPT ![i] = "exited"]
    /\ UNCHANGED <<mpc, next, built, quit, latch, loopIndex, given, starts>>

-----------------------------------------------------------------------------
MainStep == Spawn \/ LatchWait \/ ShutdownLoop \/ BeginJoin \/ JoinWorker \/ EndStop
WorkerStep(i) == Construct(i) \/ CountDown(i) \/ RunStart(i)
Quits(i) == quit[i] /\ RunReturn(i)

Next ==
    \/ Start \/ GetNextLoop \/ Stop
    \/ MainStep
    \/ \E i \in Index : WorkerStep(i) \/ RunReturn(i)

Spec == Init /\ [][Next]_vars

\* Threads are scheduled: a call the main thread is in goes on, a worker
\* reaches its loop, and a loop whose isQuit_ stays set returns (property
\* ShutdownStops of EventLoop).  That anyone calls start or stop, or that a
\* dispatch fails, is not assumed.
FairSpec ==
    /\ Spec
    /\ WF_vars(MainStep)
    /\ \A i \in Index : WF_vars(WorkerStep(i)) /\ WF_vars(Quits(i))

-----------------------------------------------------------------------------
(* Properties                                                              *)

\* Types of the pool's state (IOThreadPool.hpp:59-66).
TypeOK ==
    /\ mpc \in {"idle", "spawn", "running", "shutdown", "join"}
    /\ next \in 0..MaxThreads
    /\ worker \in [Index -> {"none", "spawned", "constructed", "counted",
                             "looping", "exited"}]
    /\ built \in [Index -> BOOLEAN]
    /\ quit \in [Index -> BOOLEAN]
    /\ latch \in Int
    /\ loopIndex \in Index
    /\ given \in [Index -> Nat]
    /\ starts \in Nat

\* start() returns only when every loop is constructed, so getNextLoop never
\* hands out a null or half-built loop (IOThreadPool.cpp:25-31).
LoopsReady == mpc \in {"running", "shutdown", "join"} => \A i \in Index : built[i]

\* Round robin: the loops get equally many connections, those before
\* loopIndex_ one more than the others, across restarts of the pool too.
RoundRobin ==
    \A i \in Index :
        given[i] = given[MaxThreads - 1] + (IF i < loopIndex THEN 1 ELSE 0)

\* stop() returns if every loop had entered run() when stop() was called:
\* every loop is told to quit before any thread is joined.
StopReturns ==
    (mpc = "shutdown" /\ next = 0
        /\ \A i \in Index : worker[i] \in {"looping", "exited"})
    ~> mpc = "idle"

\* stop() always returns (IOThreadPool.hpp:42-46: shutdown() wakes every
\* EventLoop and makes it quit, then all threads are joined).
StopAlwaysReturns == (mpc = "shutdown") ~> (mpc = "idle")

\* start() creates threads at most once (IOThreadPool.hpp:39: a second call
\* returns at once), so that latch_ is never counted below zero.
LatchNeverUnderflows == latch >= 0
=============================================================================
