------------------------ MODULE SqlTransactionProofs ------------------------
(***************************************************************************)
(* Proofs about SqlTransaction and the SqlExecutor inside: for any set of  *)
(* jobs, number of starts, outages and writes.                             *)
(***************************************************************************)
EXTENDS SqlTransaction, SequenceTheorems, TLAPS

\* What the places of the two threads say about each other and about jobQueue_.
Phases ==
    /\ main = "new" => worker = "none"
    /\ main \in {"startReset", "startThread"} => worker \in {"none", "exited"}
    /\ main \in {"started", "stopSet"} => worker \notin {"none", "exited"}
    /\ main = "stopped" => worker = "exited"
    /\ main = "startReset" /\ stopping => worker = "exited"
    /\ stopping => main \in {"stopNotify", "stopJoin", "stopped", "startReset"}
    /\ main \in {"stopNotify", "stopJoin", "stopped"} => stopping
    /\ worker = "exited" /\ stopping => jobQueue = <<>>

\* JobsInOrder, place by place.
Places ==
    /\ answered + Len(job) + Len(jobQueue) = Len(accepted)
    /\ \A k \in 1..Len(job) : accepted[answered + k] = job[k]
    /\ \A k \in 1..Len(jobQueue) : accepted[answered + Len(job) + k] = jobQueue[k]

ExecInv == TypeOK /\ Phases /\ Places

-----------------------------------------------------------------------------
(* The executor                                                            *)

LEMMA ExecInit == TxInit => ExecInv
  <1> SUFFICES ASSUME TxInit
               PROVE  ExecInv
    OBVIOUS
  <1>1. TypeOK
    <2>1. running \in BOOLEAN /\ stopping \in BOOLEAN /\ broken \in BOOLEAN
          /\ dbUp \in BOOLEAN /\ clean \in BOOLEAN
      BY Zenon DEF TxInit, Init
    <2>2. jobQueue \in Seq(Job) /\ job \in Seq(Job) /\ accepted \in Seq(Job) /\ Len(job) = 0
      BY DEF TxInit, Init
    <2>3. QED
      BY <2>1, <2>2 DEF TxInit, Init, TypeOK
  <1>2. Phases
    BY DEF TxInit, Init, Phases
  <1>3. Places
    BY DEF TxInit, Init, Places
  <1>4. QED
    BY <1>1, <1>2, <1>3 DEF ExecInv

\* A call of a job is a stutter of the executor.
LEMMA ExecutorSteps == [TxNext]_allVars => [Next]_vars
  BY DEF TxNext, ExecutorStep, TxStep, Begin, Execute, ExecuteFails, Commit, CommitFails,
         CommitAuto, Rollback, Destructor, RollbackAuto, allVars

LEMMA ControlStep == ExecInv /\ Control => ExecInv'
  <1> SUFFICES ASSUME ExecInv, Control
               PROVE  ExecInv'
    OBVIOUS
  <1> USE DEF ExecInv, TypeOK, Phases, Places, mainVars, slot, db, history
  <1>1. CASE Start
    <2>1. TypeOK'
      BY <1>1 DEF Start
    <2>2. Phases' /\ Places'
      BY <1>1 DEF Start
    <2>3. QED
      BY <2>1, <2>2
  <1>2. CASE StartReset
    <2>1. TypeOK'
      BY <1>2 DEF StartReset
    <2>2. Phases' /\ Places'
      BY <1>2 DEF StartReset
    <2>3. QED
      BY <2>1, <2>2
  <1>3. CASE StartThread
    <2>1. TypeOK'
      BY <1>3 DEF StartThread
    <2>2. Phases' /\ Places'
      BY <1>3 DEF StartThread
    <2>3. QED
      BY <2>1, <2>2
  <1>4. CASE Stop
    <2>1. TypeOK'
      BY <1>4 DEF Stop
    <2>2. Phases' /\ Places'
      BY <1>4 DEF Stop
    <2>3. QED
      BY <2>1, <2>2
  <1>5. CASE StopSet
    <2>1. TypeOK'
      BY <1>5 DEF StopSet
    <2>2. Phases' /\ Places'
      BY <1>5 DEF StopSet
    <2>3. QED
      BY <2>1, <2>2
  <1>6. CASE StopNotify
    <2>1. TypeOK'
      BY <1>6 DEF StopNotify, Notified
    <2>2. Phases' /\ Places'
      BY <1>6 DEF StopNotify, Notified
    <2>3. QED
      BY <2>1, <2>2
  <1>7. CASE StopJoin
    BY <1>7 DEF StopJoin
  <1>8. QED
    BY <1>1, <1>2, <1>3, <1>4, <1>5, <1>6, <1>7 DEF Control

\* The answer leaves the jobs in the queue where they are in "accepted".
LEMMA AnswerStep ==
    ASSUME ExecInv, worker \in {"ensure", "ping", "query"}, Answer,
           conn' \in {"null", "unconnected", "open", "dropped"}, broken' \in BOOLEAN,
           age' \in {"fresh", "old"}, failures' \in Nat
    PROVE  ExecInv'
  <1>1. Len(job) = 1 /\ Len(job') = 0 /\ answered' = answered + 1
    BY DEF ExecInv, TypeOK, Answer
  <1>2. TypeOK'
    BY <1>1 DEF ExecInv, TypeOK, Answer, mainVars, db
  <1>3. Phases'
    BY DEF ExecInv, Phases, Answer, mainVars
  <1>4. Places'
    BY <1>1 DEF ExecInv, TypeOK, Places, Answer
  <1>5. QED
    BY <1>2, <1>3, <1>4 DEF ExecInv

LEMMA TakeStep == ExecInv /\ Take => ExecInv'
  <1> SUFFICES ASSUME ExecInv, Take
               PROVE  ExecInv'
    OBVIOUS
  <1>1. /\ jobQueue \in Seq(Job) /\ jobQueue # <<>> /\ Len(job) = 0
        /\ accepted \in Seq(Job) /\ answered \in Nat
    BY DEF ExecInv, TypeOK, Take
  <1>2. /\ Head(jobQueue) \in Job /\ Tail(jobQueue) \in Seq(Job)
        /\ Len(Tail(jobQueue)) = Len(jobQueue) - 1
        /\ \A k \in 1..Len(Tail(jobQueue)) : Tail(jobQueue)[k] = jobQueue[k + 1]
    BY <1>1, HeadTailProperties
  <1>3. Len(jobQueue) \in Nat \ {0} /\ Head(jobQueue) = jobQueue[1]
    BY <1>1, EmptySeq
  <1>4. job' \in Seq(Job) /\ Len(job') = 1 /\ job'[1] = jobQueue[1]
    BY <1>2, <1>3 DEF Take
  <1>5. TypeOK'
    BY <1>2, <1>4 DEF ExecInv, TypeOK, Take, mainVars, slot, db
  <1>6. Phases'
    BY DEF ExecInv, Phases, Take, mainVars
  <1>7. Places'
    <2>1. answered' = answered /\ accepted' = accepted /\ jobQueue' = Tail(jobQueue)
      BY DEF Take
    <2>2. answered' + Len(job') + Len(jobQueue') = Len(accepted')
      BY <1>1, <1>2, <1>3, <1>4, <2>1 DEF ExecInv, Places
    <2>3. ASSUME NEW k \in 1..Len(job')
          PROVE  accepted'[answered' + k] = job'[k]
      BY <1>1, <1>3, <1>4, <2>1 DEF ExecInv, Places
    <2>4. ASSUME NEW k \in 1..Len(jobQueue')
          PROVE  accepted'[answered' + Len(job') + k] = jobQueue'[k]
      <3>1. k + 1 \in 1..Len(jobQueue)
        BY <1>2, <1>3, <2>1
      <3>2. accepted[answered + Len(job) + (k + 1)] = jobQueue[k + 1]
        BY <3>1 DEF ExecInv, Places
      <3>3. jobQueue'[k] = jobQueue[k + 1]
        BY <1>2, <2>1
      <3>4. answered' + Len(job') + k = answered + Len(job) + (k + 1)
        BY <1>1, <1>4, <2>1
      <3>5. QED
        BY <2>1, <3>2, <3>3, <3>4
    <2>5. QED
      BY <2>2, <2>3, <2>4 DEF Places
  <1>8. QED
    BY <1>5, <1>6, <1>7 DEF ExecInv

LEMMA WorkStep == ExecInv /\ Work => ExecInv'
  <1> SUFFICES ASSUME ExecInv, Work
               PROVE  ExecInv'
    OBVIOUS
  <1>1. CASE Sleep
    BY <1>1 DEF Sleep, ExecInv, TypeOK, Phases, Places, mainVars, slot, db, history
  <1>2. CASE Exit
    BY <1>2 DEF Exit, cleanupCurrentThread, ExecInv, TypeOK, Phases, Places, mainVars, db,
                history
  <1>3. CASE Take
    BY <1>3, TakeStep
  <1>4. CASE Connect
    <2>1. TypeOK'
      BY <1>4 DEF Connect, ExecInv, TypeOK, mainVars, db, history
    <2>2. Phases' /\ Places'
      BY <1>4 DEF Connect, ExecInv, Phases, Places, mainVars, db, history
    <2>3. QED
      BY <2>1, <2>2 DEF ExecInv
  <1>5. CASE ConnectFails
    BY <1>5, AnswerStep DEF ConnectFails, NoConnection, ExecInv, TypeOK
  <1>6. CASE KeepConnection
    <2>1. TypeOK'
      BY <1>6 DEF KeepConnection, ExecInv, TypeOK, mainVars, slot, db, history
    <2>2. Phases' /\ Places'
      BY <1>6 DEF KeepConnection, ExecInv, Phases, Places, mainVars, slot, db, history
    <2>3. QED
      BY <2>1, <2>2 DEF ExecInv
  <1>7. CASE Ping
    <2>1. TypeOK'
      BY <1>7 DEF Ping, ExecInv, TypeOK, mainVars, db, history
    <2>2. Phases' /\ Places'
      BY <1>7 DEF Ping, ExecInv, Phases, Places, mainVars, db, history
    <2>3. QED
      BY <2>1, <2>2 DEF ExecInv
  <1>8. CASE PingFails
    BY <1>8, AnswerStep DEF PingFails, NoConnection, ExecInv, TypeOK
  <1>9. CASE Query
    BY <1>9, AnswerStep DEF Query, slot, ExecInv, TypeOK
  <1>10. QED
    BY <1>1, <1>2, <1>3, <1>4, <1>5, <1>6, <1>7, <1>8, <1>9 DEF Work

LEMMA EnvironmentStep == ExecInv /\ Environment => ExecInv'
  <1> SUFFICES ASSUME ExecInv, Environment
               PROVE  ExecInv'
    OBVIOUS
  <1> USE DEF Environment, DbDown, DbUp, Reconnect, Expire, mainVars, slot, db, history
  <1>1. TypeOK'
    <2>1. CASE DbDown
      <3>1. dbUp' \in BOOLEAN /\ clean' \in BOOLEAN
        BY <2>1, Zenon
      <3>2. QED
        BY <2>1, <3>1 DEF ExecInv, TypeOK
    <2>2. CASE DbUp
      BY <2>2 DEF ExecInv, TypeOK
    <2>3. CASE Reconnect \/ Expire
      BY <2>3 DEF ExecInv, TypeOK
    <2>4. QED
      BY <2>1, <2>2, <2>3
  <1>2. Phases'
    BY DEF ExecInv, Phases
  <1>3. Places'
    BY DEF ExecInv, Places
  <1>4. QED
    BY <1>1, <1>2, <1>3 DEF ExecInv

LEMMA SubmitStep ==
    ASSUME ExecInv, NEW j \in Job, Submit(j)
    PROVE  ExecInv'
  <1>1. jobQueue \in Seq(Job) /\ accepted \in Seq(Job) /\ answered \in Nat /\ job \in Seq(Job)
    BY DEF ExecInv, TypeOK
  <1>2. /\ jobQueue' \in Seq(Job) /\ Len(jobQueue') = Len(jobQueue) + 1
        /\ \A k \in 1..Len(jobQueue) : jobQueue'[k] = jobQueue[k]
        /\ jobQueue'[Len(jobQueue) + 1] = j
    BY <1>1, AppendProperties DEF Submit
  <1>3. /\ accepted' \in Seq(Job) /\ Len(accepted') = Len(accepted) + 1
        /\ \A k \in 1..Len(accepted) : accepted'[k] = accepted[k]
        /\ accepted'[Len(accepted) + 1] = j
    BY <1>1, AppendProperties DEF Submit
  <1>4. job' = job /\ answered' = answered
    BY DEF Submit, history
  <1>5. Len(job) \in Nat /\ Len(jobQueue) \in Nat /\ Len(accepted) \in Nat
    BY <1>1
  <1>6. TypeOK'
    BY <1>2, <1>3 DEF ExecInv, TypeOK, Submit, Notified, mainVars, slot, db, history
  <1>7. Phases'
    BY DEF ExecInv, Phases, Submit, Notified, mainVars
  <1>8. Places'
    <2>0. answered + Len(job) + Len(jobQueue) = Len(accepted)
      BY DEF ExecInv, Places
    <2>1. answered' + Len(job') + Len(jobQueue') = Len(accepted')
      <3>1. Len(job') = Len(job) /\ answered' = answered
            /\ Len(jobQueue') = Len(jobQueue) + 1 /\ Len(accepted') = Len(accepted) + 1
        BY <1>2, <1>3, <1>4
      <3>2. answered + Len(job) + (Len(jobQueue) + 1) = Len(accepted) + 1
        BY <1>1, <1>5, <2>0
      <3>3. QED
        BY <3>1, <3>2
    <2>2. ASSUME NEW k \in 1..Len(job')
          PROVE  accepted'[answered' + k] = job'[k]
      <3>1. k \in 1..Len(job)
        BY <1>4
      <3>2. accepted[answered + k] = job[k]
        BY <3>1 DEF ExecInv, Places
      <3>3. answered + k \in 1..Len(accepted)
        BY <1>1, <1>5, <2>0, <3>1
      <3>4. accepted'[answered + k] = accepted[answered + k]
        BY <1>3, <3>3
      <3>5. QED
        BY <1>4, <3>2, <3>4
    <2>3. ASSUME NEW k \in 1..Len(jobQueue')
          PROVE  accepted'[answered' + Len(job') + k] = jobQueue'[k]
      <3>1. CASE k \in 1..Len(jobQueue)
        <4>1. accepted[answered + Len(job) + k] = jobQueue[k]
          BY <3>1 DEF ExecInv, Places
        <4>2. answered + Len(job) + k \in 1..Len(accepted)
          BY <1>1, <1>5, <2>0, <3>1
        <4>3. QED
          BY <1>2, <1>3, <1>4, <3>1, <4>1, <4>2
      <3>2. CASE k = Len(jobQueue) + 1
        <4>1. answered' + Len(job') + k = Len(accepted) + 1
          BY <1>1, <1>4, <1>5, <2>0, <3>2
        <4>2. QED
          BY <1>2, <1>3, <3>2, <4>1
      <3>3. QED
        BY <1>2, <1>5, <3>1, <3>2
    <2>4. QED
      BY <2>1, <2>2, <2>3 DEF Places
  <1>9. QED
    BY <1>6, <1>7, <1>8 DEF ExecInv

LEMMA ExecStep == ExecInv /\ [Next]_vars => ExecInv'
  <1>1. ExecInv /\ UNCHANGED vars => ExecInv'
    <2> HAVE ExecInv /\ UNCHANGED vars
    <2>1. TypeOK'
      BY DEF ExecInv, TypeOK, vars
    <2>2. Phases'
      BY DEF ExecInv, Phases, vars
    <2>3. Places'
      BY DEF ExecInv, Places, vars
    <2>4. QED
      BY <2>1, <2>2, <2>3 DEF ExecInv
  <1>2. ExecInv /\ Next => ExecInv'
    BY ControlStep, WorkStep, EnvironmentStep, SubmitStep DEF Next
  <1>3. QED
    BY <1>1, <1>2

LEMMA ExecInvariant == TxSpec => []ExecInv
  <1>1. ExecInv /\ [TxNext]_allVars => ExecInv'
    BY ExecutorSteps, ExecStep
  <1>2. QED
    BY ExecInit, <1>1, PTL DEF TxSpec

\* Every variable of the executor, its worker's Slot and the database keeps
\* its type (SqlExecutor.cpp:15-127, ThreadLocalSqlConn.cpp:25-98).
THEOREM TypeCorrect == TxSpec => []TypeOK
  <1>1. ExecInv => TypeOK
    BY DEF ExecInv
  <1>2. QED
    BY ExecInvariant, <1>1, PTL

LEMMA PlacesInOrder == ExecInv => JobsInOrder
  <1> SUFFICES ASSUME ExecInv
               PROVE  JobsInOrder
    OBVIOUS
  <1> DEFINE done == SubSeq(accepted, 1, answered)
             all == done \o job \o jobQueue
  <1>1. /\ job \in Seq(Job) /\ jobQueue \in Seq(Job) /\ accepted \in Seq(Job)
        /\ answered \in Nat /\ answered <= Len(accepted)
    BY DEF ExecInv, TypeOK, Places
  <1>2. \A k \in 1..answered : accepted[k] \in Job
    BY <1>1
  <1>3. /\ done \in Seq(Job) /\ Len(done) = answered
        /\ \A k \in 1..answered : done[k] = accepted[k]
    <2>1. /\ done \in Seq(Job)
          /\ Len(done) = IF 1 <= answered THEN answered - 1 + 1 ELSE 0
          /\ \A k \in 1..answered - 1 + 1 : done[k] = accepted[1 + k - 1]
      BY <1>1, <1>2, SubSeqProperties
    <2>2. QED
      BY <1>1, <2>1
  <1>4. /\ done \o job \in Seq(Job) /\ Len(done \o job) = answered + Len(job)
        /\ \A k \in 1..answered + Len(job) :
              (done \o job)[k] = IF k <= answered THEN done[k] ELSE job[k - answered]
    BY <1>1, <1>3, ConcatProperties
  <1>5. /\ all \in Seq(Job) /\ Len(all) = answered + Len(job) + Len(jobQueue)
        /\ \A k \in 1..answered + Len(job) + Len(jobQueue) :
              all[k] = IF k <= answered + Len(job) THEN (done \o job)[k]
                       ELSE jobQueue[k - (answered + Len(job))]
    BY <1>1, <1>4, ConcatProperties
  <1>6. ASSUME NEW k \in 1..Len(accepted)
        PROVE  accepted[k] = all[k]
    <2>1. Len(accepted) = answered + Len(job) + Len(jobQueue)
          /\ Len(job) \in Nat /\ Len(jobQueue) \in Nat
      BY <1>1 DEF ExecInv, Places
    <2>2. CASE k <= answered
      BY <1>1, <1>3, <1>4, <1>5, <2>1, <2>2
    <2>3. CASE answered < k /\ k <= answered + Len(job)
      <3>1. k - answered \in 1..Len(job) /\ answered + (k - answered) = k
        BY <1>1, <2>1, <2>3
      <3>2. accepted[k] = job[k - answered]
        BY <3>1 DEF ExecInv, Places
      <3>3. QED
        BY <1>1, <1>4, <1>5, <2>1, <2>3, <3>2
    <2>4. CASE answered + Len(job) < k
      <3>1. k - (answered + Len(job)) \in 1..Len(jobQueue)
            /\ answered + Len(job) + (k - (answered + Len(job))) = k
        BY <1>1, <2>1, <2>4
      <3>2. accepted[k] = jobQueue[k - (answered + Len(job))]
        BY <3>1 DEF ExecInv, Places
      <3>3. QED
        BY <1>1, <1>5, <2>1, <2>4, <3>2
    <2>5. QED
      BY <1>1, <2>1, <2>2, <2>3, <2>4
  <1>7. accepted = all
    <2>1. Len(all) = Len(accepted)
      BY <1>5 DEF ExecInv, Places
    <2>2. QED
      BY <1>1, <1>5, <1>6, <2>1, SeqEqual
  <1>8. main = "stopped" => answered = Len(accepted)
    <2> HAVE main = "stopped"
    <2>1. worker = "exited" /\ jobQueue = <<>> /\ Len(job) = 0
      BY DEF ExecInv, TypeOK, Phases
    <2>2. QED
      BY <1>1, <2>1 DEF ExecInv, Places
  <1>9. QED
    BY <1>7, <1>8 DEF JobsInOrder

\* No accepted job is lost, doubled or overtaken, and stop() returns with all
\* of them answered, however starts, stops, submits and the database interleave
\* (SqlExecutor.cpp:29-127).
THEOREM NothingLost == TxSpec => []JobsInOrder
  BY ExecInvariant, PlacesInOrder, PTL

-----------------------------------------------------------------------------
(* The executor implements SqlService                                      *)

LEMMA ServiceInit == TxInit => Service!Init
  BY DEF TxInit, Init, Service!Init

LEMMA ServiceStep == ExecInv /\ [Next]_vars => [Service!Next]_(Service!vars)
  <1> SUFFICES ASSUME ExecInv, [Next]_vars
               PROVE  [Service!Next]_(Service!vars)
    OBVIOUS
  <1> USE DEF Service!vars, mainVars, history
  <1>1. CASE UNCHANGED vars
    BY <1>1 DEF vars
  <1>2. CASE Control
    <2>1. CASE StartReset
      <3>1. accepted' = accepted /\ answered' = answered /\ stopping' = FALSE
        BY <2>1 DEF StartReset
      <3>2. CASE stopping
        <4>1. worker = "exited" /\ jobQueue = <<>> /\ Len(job) = 0
          BY <2>1, <3>2 DEF StartReset, ExecInv, TypeOK, Phases
        <4>2. answered = Len(accepted)
          BY <4>1 DEF ExecInv, TypeOK, Places
        <4>3. Service!Reopen
          BY <3>1, <4>2 DEF Service!Reopen
        <4>4. QED
          BY <4>3 DEF Service!Next
      <3>3. QED
        BY <3>1, <3>2
    <2>2. CASE StopSet
      BY <2>2 DEF StopSet, Service!Next, Service!Close
    <2>3. CASE Start \/ StartThread \/ Stop \/ StopNotify \/ StopJoin
      BY <2>3 DEF Start, StartThread, Stop, StopNotify, StopJoin
    <2>4. QED
      BY <1>2, <2>1, <2>2, <2>3 DEF Control
  <1>3. CASE Work
    <2>1. CASE ConnectFails \/ PingFails \/ Query
      <3>1. worker \in {"ensure", "ping", "query"} /\ Answer
        BY <2>1 DEF ConnectFails, PingFails, Query, NoConnection
      <3>2. answered < Len(accepted)
        BY <3>1 DEF ExecInv, TypeOK, Places
      <3>3. Service!Answer
        BY <3>1, <3>2 DEF Answer, Service!Answer
      <3>4. QED
        BY <3>3 DEF Service!Next
    <2>2. CASE Sleep \/ Exit \/ Take \/ Connect \/ KeepConnection \/ Ping
      BY <2>2 DEF Sleep, Exit, Take, Connect, KeepConnection, Ping
    <2>3. QED
      BY <1>3, <2>1, <2>2 DEF Work
  <1>4. CASE Environment
    BY <1>4 DEF Environment, DbDown, DbUp, Reconnect, Expire
  <1>5. CASE \E j \in Job : Submit(j)
    BY <1>5 DEF Submit, Service!Next, Service!Submit
  <1>6. QED
    BY <1>1, <1>2, <1>3, <1>4, <1>5 DEF Next

\* A job submit() accepted is answered exactly once and in the order of
\* acceptance, across stops and starts (SqlExecutor.cpp:15-127,
\* SqlHandler.cpp:196-266).
THEOREM ServiceKept == TxSpec => Implements
  <1>1. ExecInv /\ [TxNext]_allVars => [Service!Next]_(Service!vars)
    BY ExecutorSteps, ServiceStep
  <1>2. QED
    BY ServiceInit, ExecInvariant, <1>1, PTL DEF TxSpec, Implements, Service!Spec

-----------------------------------------------------------------------------
(* Failures after an outage                                                *)

\* After a failure that an outage does not excuse the next job connects: the
\* Slot is empty or marked, until a job has a session that is younger than the
\* outage.
FailInv ==
    /\ clean => dbUp
    /\ PingBeforeUse =>
          /\ failures <= 1
          /\ worker = "query" /\ clean => conn = "open"
          /\ failures = 1 => IF worker \in {"ping", "query"} THEN clean => conn = "open"
                             ELSE conn = "null" \/ broken

LEMMA FailInit == TxInit => FailInv
  BY DEF TxInit, Init, FailInv

\* A failed job was either not clean, or the session it had was no session.
LEMMA FailStep == ExecInv /\ FailInv /\ [Next]_vars => FailInv'
  <1> SUFFICES ASSUME ExecInv, FailInv, [Next]_vars
               PROVE  FailInv'
    OBVIOUS
  <1> USE DEF FailInv, mainVars, slot, db, history
  <1>0. failures \in Nat
    BY DEF ExecInv, TypeOK
  <1>1. CASE UNCHANGED vars
    BY <1>1 DEF vars
  <1>2. CASE Control
    <2>1. CASE StartThread
      <3>1. worker \in {"none", "exited"}
        BY <2>1 DEF StartThread, ExecInv, Phases
      <3>2. QED
        BY <2>1, <3>1 DEF StartThread
    <2>2. CASE StopNotify
      BY <2>2 DEF StopNotify, Notified
    <2>3. CASE Start \/ StartReset \/ Stop \/ StopSet \/ StopJoin
      BY <2>3 DEF Start, StartReset, Stop, StopSet, StopJoin
    <2>4. QED
      BY <1>2, <2>1, <2>2, <2>3 DEF Control
  <1>3. CASE Work
    <2>1. CASE Sleep \/ Exit \/ Take
      BY <2>1 DEF Sleep, Exit, cleanupCurrentThread, Take
    <2>2. CASE Connect
      BY <2>2 DEF Connect
    <2>3. CASE ConnectFails
      <3>1. ~clean /\ failures' = 0
        BY <2>3 DEF ConnectFails, NoConnection
      <3>2. QED
        BY <2>3, <3>1 DEF ConnectFails, NoConnection, Answer
    <2>4. CASE KeepConnection
      BY <2>4 DEF KeepConnection, MustConnect
    <2>5. CASE Ping
      BY <2>5 DEF Ping
    <2>6. CASE PingFails
      <3>1. failures = 1 => ~clean
        BY <2>6 DEF PingFails
      <3>2. PingBeforeUse => failures' \in {0, 1}
        BY <1>0, <2>6, <3>1 DEF PingFails, NoConnection
      <3>3. QED
        BY <2>6, <3>2 DEF PingFails, NoConnection, Answer
    <2>7. CASE Query
      <3>1. PingBeforeUse => failures' = 0
        BY <2>7 DEF Query
      <3>2. QED
        BY <2>7, <3>1 DEF Query, Answer
    <2>8. QED
      BY <1>3, <2>1, <2>2, <2>3, <2>4, <2>5, <2>6, <2>7 DEF Work
  <1>4. CASE Environment
    <2>1. CASE DbDown
      BY <2>1 DEF DbDown
    <2>2. CASE DbUp
      BY <2>2 DEF DbUp
    <2>3. CASE Reconnect \/ Expire
      BY <2>3 DEF Reconnect, Expire
    <2>4. QED
      BY <1>4, <2>1, <2>2, <2>3 DEF Environment
  <1>5. CASE \E j \in Job : Submit(j)
    BY <1>5 DEF Submit, Notified
  <1>6. QED
    BY <1>1, <1>2, <1>3, <1>4, <1>5 DEF Next

\* With the ping before every use, jobs do not go on failing once the database
\* is back, however outages, expiries and jobs interleave
\* (ThreadLocalSqlConn.cpp:71-98).
THEOREM FailuresBounded == TxSpec => [](PingBeforeUse => OneFailurePerOutage)
  <1>1. ExecInv /\ FailInv /\ [TxNext]_allVars => FailInv'
    BY ExecutorSteps, FailStep
  <1>2. FailInv => (PingBeforeUse => OneFailurePerOutage)
    BY DEF FailInv, OneFailurePerOutage
  <1>3. QED
    BY FailInit, ExecInvariant, <1>1, <1>2, PTL DEF TxSpec

-----------------------------------------------------------------------------
(* Transactions                                                            *)

\* What the session is in, once nobody is going to roll back any more.
Sessions ==
    /\ Live /\ tx \in {"none", "over"} => autocommit /\ pending = 0
    /\ Live /\ tx \in {"commitAuto", "rollbackAuto"} => pending = 0
    /\ Live /\ tx = "leave" /\ finished => autocommit /\ pending = 0

Calls ==
    /\ worker # "query" => tx = "none"
    /\ tx \in {"none", "body", "commitAuto"} => ~finished /\ told = "nothing"
    /\ tx = "none" => written = 0 /\ durable = 0 /\ ~lost

\* Where the writes of the transaction are, while its session lives.
Writes ==
    /\ pending \in Nat /\ written \in Nat /\ durable \in Nat
    /\ tx \in {"body", "leave", "commitAuto", "rollbackAuto"} /\ ~lost => Live
    /\ tx = "body" /\ ~lost => ~autocommit /\ pending = written /\ durable = 0
    /\ tx = "commitAuto" /\ ~lost => durable = written

TxInv == Sessions /\ Calls /\ Writes /\ AllOrNothing

LEMMA TxInitial == TxInit => TxInv
  BY DEF TxInit, Init, TxInv, Sessions, Calls, Writes, AllOrNothing, Live

\* A new session is in autocommit mode, and one that the job does not touch
\* stays as it is.
LEMMA ExecutorKeepsTx == TxInv /\ ExecutorStep => TxInv'
  <1> SUFFICES ASSUME TxInv, ExecutorStep
               PROVE  TxInv'
    OBVIOUS
  <1> USE DEF Live
  <1>1. /\ Live' /\ NewSession => autocommit' /\ pending' = 0
        /\ Live' /\ ~NewSession => Live /\ autocommit' = autocommit /\ pending' = pending
    BY DEF ExecutorStep, NewSession, Forgotten, session
  <1>2. pending' \in Nat
    BY DEF ExecutorStep, Forgotten, session, TxInv, Writes
  <1>3. CASE worker = "query" /\ worker' # "query"
    <2>1. /\ tx \in {"none", "over"}
          /\ tx' = "none" /\ ~finished' /\ told' = "nothing"
          /\ written' = 0 /\ durable' = 0 /\ ~lost'
      BY <1>3 DEF ExecutorStep
    <2>2. Sessions'
      BY <1>1, <2>1 DEF TxInv, Sessions
    <2>3. Calls' /\ Writes' /\ AllOrNothing'
      BY <1>2, <2>1 DEF Calls, Writes, AllOrNothing
    <2>4. QED
      BY <2>2, <2>3 DEF TxInv
  <1>4. CASE ~(worker = "query" /\ worker' # "query")
    <2>1. /\ tx' = tx /\ finished' = finished /\ told' = told
          /\ written' = written /\ durable' = durable
          /\ lost' = (lost \/ (tx # "none" /\ Live /\ conn' # "open"))
      BY <1>4 DEF ExecutorStep
    <2>2. Sessions'
      BY <1>1, <2>1 DEF TxInv, Sessions
    <2>3. Calls'
      BY <1>4, <2>1 DEF TxInv, Calls
    <2>4. ASSUME tx \in {"body", "leave", "commitAuto", "rollbackAuto"}, ~lost'
          PROVE  Live' /\ ~NewSession
      <3>1. Live /\ worker = "query"
        BY <2>1, <2>4 DEF TxInv, Writes, Calls
      <3>2. QED
        BY <2>1, <2>4, <3>1 DEF NewSession
    <2>5. Writes'
      BY <1>1, <1>2, <2>1, <2>4 DEF TxInv, Writes
    <2>6. AllOrNothing'
      BY <2>1 DEF TxInv, AllOrNothing
    <2>7. QED
      BY <2>2, <2>3, <2>5, <2>6 DEF TxInv
  <1>5. QED
    BY <1>3, <1>4

LEMMA CallsKeepTx == TxInv /\ TxStep => TxInv'
  <1> SUFFICES ASSUME TxInv, TxStep
               PROVE  TxInv'
    OBVIOUS
  <1> USE DEF TxInv, Sessions, Calls, Writes, AllOrNothing, Live, vars, ledger
  <1>1. CASE Begin
    BY <1>1 DEF Begin
  <1>2. CASE Execute
    BY <1>2 DEF Execute
  <1>3. CASE ExecuteFails
    BY <1>3 DEF ExecuteFails
  <1>4. CASE Commit
    BY <1>4 DEF Commit
  <1>5. CASE CommitFails
    BY <1>5 DEF CommitFails, Forgotten
  <1>6. CASE CommitAuto
    BY <1>6 DEF CommitAuto
  <1>7. CASE Rollback
    BY <1>7 DEF Rollback, RollbackCall, Forgotten
  <1>8. CASE Destructor
    BY <1>8 DEF Destructor, RollbackCall, Forgotten
  <1>9. CASE RollbackAuto
    BY <1>9 DEF RollbackAuto
  <1>10. QED
    BY <1>1, <1>2, <1>3, <1>4, <1>5, <1>6, <1>7, <1>8, <1>9 DEF TxStep

LEMMA TxInvariant == TxSpec => []TxInv
  <1>1. TxInv /\ UNCHANGED allVars => TxInv'
    BY DEF TxInv, Sessions, Calls, Writes, AllOrNothing, Live, allVars, vars, txVars
  <1>2. TxInv /\ [TxNext]_allVars => TxInv'
    BY <1>1, ExecutorKeepsTx, CallsKeepTx DEF TxNext
  <1>3. QED
    BY TxInitial, <1>2, PTL DEF TxSpec

\* Every job finds the worker's session in autocommit mode with nothing pending,
\* for any number of writes, failures, outages and reconnections before it
\* (SqlTransaction.cpp:32-55, MySqlConnection.cpp:408-458).
THEOREM SessionsClean == TxSpec => []SessionClean
  <1>1. TxInv => SessionClean
    BY DEF TxInv, Sessions, SessionClean
  <1>2. QED
    BY TxInvariant, <1>1, PTL

\* A transaction whose session lives is kept as a whole exactly if commit() said
\* so (SqlTransaction.hpp:12-13, 40-45).
THEOREM Atomic == TxSpec => []AllOrNothing
  <1>1. TxInv => AllOrNothing
    BY DEF TxInv
  <1>2. QED
    BY TxInvariant, <1>1, PTL
=============================================================================
