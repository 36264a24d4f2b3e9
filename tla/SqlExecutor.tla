---------------------------- MODULE SqlExecutor ----------------------------
(***************************************************************************)
(* persistence::SqlExecutor with the ThreadLocalSingleConn its worker      *)
(* owns: start, submit and stop on other threads, the condition variable,  *)
(* and for each job the reconnect, ping and query on a database that goes  *)
(* down and comes back.                                                    *)
(*                                                                         *)
(* One thread calls start and stop (main.cpp, the destructor); submit is   *)
(* called by the event loops once start() was called.                      *)
(***************************************************************************)
EXTENDS Naturals, Sequences, FiniteSets

CONSTANTS
    Job,            \* jobs, each submitted at most once
    PingBeforeUse,  \* ThreadLocalConnOptions::pingBeforeUse
    MaxStarts,      \* bound: calls of start()
    MaxOutages      \* bound: times the database goes down

ASSUME SqlExecutorAssumption ==
    PingBeforeUse \in BOOLEAN /\ MaxStarts \in Nat /\ MaxOutages \in Nat

VARIABLES
    main,      \* where the thread that starts and stops is
    starts,    \* how often start() was called
    running,   \* running_
    stopping,  \* stopping_
    jobQueue,  \* jobQueue_
    worker,    \* where the worker thread is
    job,       \* the job it took, as a sequence of at most one
    conn,      \* Slot::conn
    broken,    \* Slot::broken
    age,       \* do created and lastUsed allow another use?
    dbUp,      \* the database answers
    outages,   \* how often it went down
    clean,     \* history: it was up since the job was taken
    failures,  \* history: jobs failed in a row for want of a connection
               \* although the database was up all the time
    accepted,  \* history: jobs submit() accepted
    answered   \* how many of them posted an answer to their loop

mainVars == <<main, starts, running, stopping>>
slot == <<conn, broken, age>>
db == <<dbUp, outages>>
history == <<clean, failures, answered>>
vars == <<main, starts, running, stopping, jobQueue, worker, job, conn, broken,
          age, dbUp, outages, clean, failures, accepted, answered>>

\* steady_clock may have begun so recently that the zero time_points of an
\* unused Slot count as fresh.
Init ==
    /\ main = "new" /\ starts = 0 /\ running = FALSE /\ stopping = FALSE
    /\ jobQueue = <<>> /\ worker = "none" /\ job = <<>>
    /\ conn = "null" /\ broken = FALSE /\ age \in {"fresh", "old"}
    /\ dbUp = TRUE /\ outages = 0
    /\ clean = TRUE /\ failures = 0 /\ accepted = <<>> /\ answered = 0

-----------------------------------------------------------------------------
(* start, stop and submit                                                  *)

\* start: running_.exchange(true).
Start ==
    /\ main \in {"new", "stopped"} /\ starts < MaxStarts
    /\ ~running
    /\ running' = TRUE /\ starts' = starts + 1
    /\ main' = "startReset"
    /\ UNCHANGED <<stopping, jobQueue, worker, job, slot, db, history, accepted>>

StartReset ==
    /\ main = "startReset"
    /\ stopping' = FALSE
    /\ main' = "startThread"
    /\ UNCHANGED <<starts, running, jobQueue, worker, job, slot, db, history, accepted>>

\* The new thread has a Slot of its own.
StartThread ==
    /\ main = "startThread"
    /\ worker' = "check"
    /\ conn' = "null" /\ broken' = FALSE /\ age' \in {"fresh", "old"}
    /\ main' = "started"
    /\ UNCHANGED <<starts, running, stopping, jobQueue, job, db, history, accepted>>

\* stop: running_.exchange(false).
Stop ==
    /\ main = "started" /\ running
    /\ running' = FALSE
    /\ main' = "stopSet"
    /\ UNCHANGED <<starts, stopping, jobQueue, worker, job, slot, db, history, accepted>>

StopSet ==
    /\ main = "stopSet"
    /\ stopping' = TRUE
    /\ main' = "stopNotify"
    /\ UNCHANGED <<starts, running, jobQueue, worker, job, slot, db, history, accepted>>

Notified == IF worker = "asleep" THEN "check" ELSE worker

\* Mutant: stop does not notify the worker.
StopNotifySilent ==
    /\ main = "stopNotify"
    /\ main' = "stopJoin"
    /\ UNCHANGED <<starts, running, stopping, jobQueue, worker, job, slot, db, history,
                   accepted>>

StopNotify ==
    /\ main = "stopNotify"
    /\ worker' = Notified
    /\ main' = "stopJoin"
    /\ UNCHANGED <<starts, running, stopping, jobQueue, job, slot, db, history, accepted>>

\* Mutant: stop returns without joining the worker.
StopDetach ==
    /\ main = "stopJoin"
    /\ main' = "stopped"
    /\ UNCHANGED <<starts, running, stopping, jobQueue, worker, job, slot, db, history,
                   accepted>>

StopJoin ==
    /\ main = "stopJoin" /\ worker = "exited"
    /\ main' = "stopped"
    /\ UNCHANGED <<starts, running, stopping, jobQueue, worker, job, slot, db, history,
                   accepted>>

New(j) == \A k \in 1..Len(accepted) : accepted[k] # j

\* Mutant: submit forgets to notify.
SubmitSilent(j) ==
    /\ starts > 0 /\ New(j)
    /\ ~stopping
    /\ jobQueue' = Append(jobQueue, j)
    /\ accepted' = Append(accepted, j)
    /\ UNCHANGED <<mainVars, worker, job, slot, db, history>>

\* Mutant: submit does not look at stopping_.
SubmitUnchecked(j) ==
    /\ starts > 0 /\ New(j)
    /\ jobQueue' = Append(jobQueue, j)
    /\ accepted' = Append(accepted, j)
    /\ worker' = Notified
    /\ UNCHANGED <<mainVars, job, slot, db, history>>

\* submit: one critical section; the refusal of a stopped executor changes
\* nothing.
Submit(j) ==
    /\ starts > 0 /\ New(j)
    /\ ~stopping
    /\ jobQueue' = Append(jobQueue, j)
    /\ accepted' = Append(accepted, j)
    /\ worker' = Notified
    /\ UNCHANGED <<mainVars, job, slot, db, history>>

-----------------------------------------------------------------------------
(* run_                                                                    *)

\* cv_.wait with its predicate, under mutex_.
Sleep ==
    /\ worker = "check" /\ ~stopping /\ jobQueue = <<>>
    /\ worker' = "asleep"
    /\ UNCHANGED <<mainVars, jobQueue, job, slot, db, history, accepted>>

cleanupCurrentThread == conn' = "null" /\ broken' = FALSE

\* Stopped and drained: leave the loop.
Exit ==
    /\ worker = "check" /\ stopping /\ jobQueue = <<>>
    /\ worker' = "exited"
    /\ cleanupCurrentThread
    /\ UNCHANGED <<mainVars, jobQueue, job, age, db, history, accepted>>

Take ==
    /\ worker = "check" /\ jobQueue # <<>>
    /\ job' = <<Head(jobQueue)>> /\ jobQueue' = Tail(jobQueue)
    /\ worker' = "ensure"
    /\ clean' = dbUp
    /\ UNCHANGED <<mainVars, slot, db, failures, accepted, answered>>

\* Mutant: the worker goes back to the queue with the job in hand.
AnswerKeepsJob ==
    /\ answered' = answered + 1
    /\ worker' = "check"
    /\ UNCHANGED <<mainVars, jobQueue, job, db, accepted, clean>>

\* The job of SqlHandler posts its answer, whatever happened, and the worker
\* goes back to the queue.
Answer ==
    /\ answered' = answered + 1
    /\ job' = <<>>
    /\ worker' = "check"
    /\ UNCHANGED <<mainVars, jobQueue, db, accepted, clean>>

\* The answer for want of a connection, 500.
NoConnection ==
    /\ Answer
    /\ failures' = IF clean THEN failures + 1 ELSE 0

MustConnect == conn = "null" \/ broken \/ age = "old"

\* ensureConnected_: close what is there and connect anew.
Connect ==
    /\ worker = "ensure" /\ MustConnect /\ dbUp
    /\ conn' = "open" /\ broken' = FALSE /\ age' = "fresh"
    /\ worker' = "ping"
    /\ UNCHANGED <<mainVars, jobQueue, job, db, history, accepted>>

\* connect() failed, before there was a session or in setAutoCommit() after:
\* the new object stays in the Slot with the old times and the old broken flag.
ConnectFails ==
    /\ worker = "ensure" /\ MustConnect /\ ~dbUp
    /\ conn' \in {"unconnected", "dropped"}
    /\ NoConnection
    /\ UNCHANGED <<broken, age>>

KeepConnection ==
    /\ worker = "ensure" /\ ~MustConnect
    /\ worker' = "ping"
    /\ UNCHANGED <<mainVars, jobQueue, job, slot, db, history, accepted>>

\* ping(), or none; the driver may reconnect a session the server dropped.
Ping ==
    /\ worker = "ping"
    /\ PingBeforeUse => dbUp /\ conn \in {"open", "dropped"}
    /\ conn' = IF PingBeforeUse THEN "open" ELSE conn
    /\ worker' = "query"
    /\ UNCHANGED <<mainVars, jobQueue, job, broken, age, db, history, accepted>>

\* Mutant: a failed ping is not remembered.
PingFailsForgets ==
    /\ worker = "ping" /\ PingBeforeUse
    /\ ~dbUp \/ conn # "open"
    /\ NoConnection
    /\ UNCHANGED slot

\* A failed ping marks the connection for the next job.
PingFails ==
    /\ worker = "ping" /\ PingBeforeUse
    /\ ~dbUp \/ conn # "open"
    /\ broken' = TRUE
    /\ NoConnection
    /\ UNCHANGED <<conn, age>>

\* query(), which answers rows or an error.
Query ==
    /\ worker = "query"
    /\ Answer
    /\ failures' = IF dbUp /\ conn = "open" THEN 0
                   ELSE IF clean THEN failures + 1 ELSE 0
    /\ UNCHANGED slot

\* The driver (OPT_RECONNECT) may connect again when a statement finds the
\* session dropped.
Reconnect ==
    /\ worker = "query" /\ conn = "dropped" /\ dbUp
    /\ conn' = "open"
    /\ UNCHANGED <<mainVars, jobQueue, worker, job, broken, age, db, history, accepted>>

-----------------------------------------------------------------------------
(* The database and the clock                                              *)

\* The server goes away, and with it the session.
DbDown ==
    /\ dbUp /\ outages < MaxOutages
    /\ dbUp' = FALSE /\ outages' = outages + 1
    /\ conn' = IF conn = "open" THEN "dropped" ELSE conn
    /\ clean' = FALSE
    /\ UNCHANGED <<mainVars, jobQueue, worker, job, broken, age, failures, accepted, answered>>

DbUp ==
    /\ ~dbUp
    /\ dbUp' = TRUE
    /\ UNCHANGED <<mainVars, jobQueue, worker, job, slot, outages, history, accepted>>

\* maxConnLifetimeMs or maxConnIdleMs passes.
Expire ==
    /\ age = "fresh"
    /\ age' = "old"
    /\ UNCHANGED <<mainVars, jobQueue, worker, job, conn, broken, db, history, accepted>>

Control == Start \/ StartReset \/ StartThread \/ Stop \/ StopSet \/ StopNotify \/ StopJoin
Work ==
    \/ Sleep \/ Exit \/ Take
    \/ Connect \/ ConnectFails \/ KeepConnection \/ Ping \/ PingFails \/ Query
Environment == DbDown \/ DbUp \/ Reconnect \/ Expire

Next == Control \/ Work \/ Environment \/ \E j \in Job : Submit(j)

Spec == Init /\ [][Next]_vars

-----------------------------------------------------------------------------
(* Properties                                                              *)

\* Types of all variables.
TypeOK ==
    /\ main \in {"new", "startReset", "startThread", "started",
                 "stopSet", "stopNotify", "stopJoin", "stopped"}
    /\ starts \in Nat /\ running \in BOOLEAN /\ stopping \in BOOLEAN
    /\ jobQueue \in Seq(Job) /\ job \in Seq(Job) /\ accepted \in Seq(Job)
    /\ worker \in {"none", "check", "asleep", "ensure", "ping", "query", "exited"}
    /\ conn \in {"null", "unconnected", "open", "dropped"}
    /\ broken \in BOOLEAN /\ age \in {"fresh", "old"}
    /\ dbUp \in BOOLEAN /\ outages \in Nat
    /\ clean \in BOOLEAN /\ failures \in Nat /\ answered \in Nat
    /\ Len(job) = IF worker \in {"ensure", "ping", "query"} THEN 1 ELSE 0

\* Every accepted job is at exactly one place, in order: answered, with the
\* worker, or in jobQueue_.  When stop() has returned every one has been
\* answered: the loops get their 500 or their rows although the executor is gone
\* (SqlExecutor.cpp:75-116, SqlHandler.cpp:259-266).
JobsInOrder ==
    /\ accepted = SubSeq(accepted, 1, answered) \o job \o jobQueue
    /\ main = "stopped" => answered = Len(accepted)

\* After an outage at most one job fails for want of a connection while the
\* database is up: the failure makes the next job connect
\* (ThreadLocalSqlConn.cpp:71-98).
OneFailurePerOutage == failures <= 1

\* The executor keeps the promise of SqlService.
Service == INSTANCE SqlService WITH open <- ~stopping
Implements == Service!Spec

\* stop() returns, and every accepted job is answered, also with the database
\* down for ever.
StopReturns == main = "stopSet" ~> main = "stopped"
EveryJobAnswered ==
    \A n \in 1..Cardinality(Job) : Len(accepted) >= n ~> answered >= n
=============================================================================
