------------------------- MODULE IOThreadPoolProofs -------------------------
(***************************************************************************)
(* Proofs about IOThreadPool, for any number of worker threads, starts and *)
(* connections.                                                            *)
(***************************************************************************)
EXTENDS IOThreadPool, FiniteSetTheorems, TLAPS

USE IOThreadPoolAssumption

\* Advancing round robin, without the modulus.
LEMMA NextIndex ==
    ASSUME NEW a \in Index
    PROVE  (a + 1) % MaxThreads = IF a = MaxThreads - 1 THEN 0 ELSE a + 1
  BY DEF Index

LEMMA TypeStep == TypeOK /\ [Next]_vars => TypeOK'
  <1> SUFFICES ASSUME TypeOK, [Next]_vars PROVE TypeOK'
    OBVIOUS
  <1> USE DEF TypeOK, Index
  <1>1. CASE GetNextLoop
    <2>1. loopIndex' \in Index
      BY <1>1, NextIndex DEF GetNextLoop
    <2>2. QED
      BY <1>1, <2>1 DEF GetNextLoop
  <1>2. CASE Start \/ Stop \/ MainStep
    <2>1. CASE ShutdownLoop
      <3>1. quit' \in [Index -> BOOLEAN]
        BY <2>1 DEF ShutdownLoop
      <3>2. QED
        BY <2>1, <3>1 DEF ShutdownLoop
    <2>2. CASE Spawn \/ JoinWorker
      BY SMTT(30), <2>2 DEF Spawn, JoinWorker
    <2>3. CASE Start \/ Stop \/ LatchWait \/ BeginJoin \/ EndStop
      BY <2>3 DEF Start, Stop, LatchWait, BeginJoin, EndStop
    <2>4. QED
      BY <1>2, <2>1, <2>2, <2>3 DEF MainStep
  <1>3. ASSUME NEW i \in Index, WorkerStep(i) \/ RunReturn(i) PROVE TypeOK'
    <2>1. worker' \in [Index -> {"none", "spawned", "constructed", "counted", "looping", "exited"}]
      BY <1>3 DEF WorkerStep, Construct, CountDown, RunStart, RunReturn
    <2>2. built' \in [Index -> BOOLEAN] /\ quit' \in [Index -> BOOLEAN]
      BY <1>3 DEF WorkerStep, Construct, CountDown, RunStart, RunReturn
    <2>3. latch' \in Int
      BY <1>3 DEF WorkerStep, Construct, CountDown, RunStart, RunReturn
    <2>4. UNCHANGED <<mpc, next, loopIndex, given, starts>>
      BY <1>3 DEF WorkerStep, Construct, CountDown, RunStart, RunReturn
    <2>5. QED
      BY <2>1, <2>2, <2>3, <2>4
  <1>4. CASE UNCHANGED vars
    BY <1>4 DEF vars
  <1>5. QED
    BY <1>1, <1>2, <1>3, <1>4 DEF Next

\* Every variable of the pool keeps its type.
THEOREM TypeCorrect == Spec => []TypeOK
  <1>1. Init => TypeOK
    BY DEF Init, TypeOK, Index
  <1>2. QED
    BY <1>1, TypeStep, PTL DEF Spec

\* The loops get equally many connections, those before loopIndex_ one more
\* (RoundRobin, IOThreadPool::getNextLoop).
THEOREM Balanced == Spec => []RoundRobin
  <1>1. Init => RoundRobin
    BY DEF Init, RoundRobin, Index
  <1>2. TypeOK /\ RoundRobin /\ [Next]_vars => RoundRobin'
    <2> SUFFICES ASSUME TypeOK, RoundRobin, [Next]_vars PROVE RoundRobin'
      OBVIOUS
    <2>1. CASE GetNextLoop
      <3> DEFINE last == MaxThreads - 1
      <3>1. loopIndex \in Index /\ last \in Index /\ given \in [Index -> Nat]
        BY DEF TypeOK, Index
      <3>2. loopIndex' = IF loopIndex = last THEN 0 ELSE loopIndex + 1
        BY <2>1, <3>1, NextIndex DEF GetNextLoop
      <3>3. \A i \in Index : given'[i] = IF i = loopIndex THEN given[i] + 1 ELSE given[i]
        BY <2>1, <3>1 DEF GetNextLoop
      <3>4. \A i \in Index : given[i] = given[last] + (IF i < loopIndex THEN 1 ELSE 0)
        BY DEF RoundRobin
      <3>5. CASE loopIndex = last
        \* Every loop before the last had one more; now the last caught up.
        BY <3>1, <3>2, <3>3, <3>4, <3>5 DEF RoundRobin, Index
      <3>6. CASE loopIndex # last
        BY <3>1, <3>2, <3>3, <3>4, <3>6 DEF RoundRobin, Index
      <3>7. QED
        BY <3>5, <3>6
    <2>2. CASE UNCHANGED <<given, loopIndex>>
      BY <2>2 DEF RoundRobin
    <2>3. QED
      BY <2>1, <2>2 DEF Next, vars, Start, Stop, MainStep, Spawn, LatchWait, ShutdownLoop,
                        BeginJoin, JoinWorker, EndStop, WorkerStep, Construct, CountDown,
                        RunStart, RunReturn
  <1>3. QED
    BY <1>1, <1>2, TypeCorrect, PTL DEF Spec

-----------------------------------------------------------------------------
\* Workers that have constructed their loop and counted the latch down.
Counted == {i \in Index : built[i] /\ worker[i] # "constructed"}

\* In the first start() the latch counts exactly the workers still missing;
\* later ones find every loop built already.
LatchInv ==
    /\ starts = 0 => mpc = "idle"
    /\ starts <= 1 => latch = MaxThreads - Cardinality(Counted)
    /\ starts <= 1 => \A i \in Index : worker[i] \in {"none", "spawned"} /\ mpc = "spawn"
                                       => ~built[i]
    /\ starts = 0 => \A i \in Index : worker[i] = "none" /\ ~built[i]
    /\ \A i \in Index : worker[i] = "constructed" => built[i]
    /\ starts = 1 /\ mpc = "spawn" => \A i \in Index : i >= next => worker[i] = "none"
    /\ (starts >= 1 /\ mpc # "spawn") \/ starts >= 2 => \A i \in Index : built[i]
    /\ starts = 1 /\ mpc # "spawn" => \A i \in Index : worker[i] \notin {"spawned", "constructed"}

LEMMA CountedFinite ==
    /\ IsFiniteSet(Index) /\ Cardinality(Index) = MaxThreads
    /\ IsFiniteSet(Counted) /\ Cardinality(Counted) \in Nat
  <1>1. IsFiniteSet(Index) /\ Cardinality(Index) = MaxThreads
    BY FS_Interval DEF Index
  <1>2. Counted \subseteq Index
    BY DEF Counted
  <1>3. QED
    BY <1>1, <1>2, FS_Subset, FS_CardinalityType

LEMMA LatchStep == TypeOK /\ LatchInv /\ [Next]_vars => LatchInv'
  <1> SUFFICES ASSUME TypeOK, LatchInv, [Next]_vars PROVE LatchInv'
    OBVIOUS
  <1>0. CASE UNCHANGED vars
    <2>1. Counted' = Counted
      BY <1>0 DEF vars, Counted
    <2>2. QED
      BY <1>0, <2>1 DEF vars, LatchInv
  <1>1. CASE Start
    <2>1. Counted' = Counted
      BY <1>1 DEF Start, Counted
    <2>2. QED
      BY <1>1, <2>1 DEF Start, LatchInv, TypeOK, Index
  <1>2. CASE Spawn
    <2>1. next \in Index /\ worker' = [worker EXCEPT ![next] = "spawned"]
      BY <1>2 DEF Spawn, TypeOK, Index
    <2>2. starts <= 1 => Counted' = Counted
      BY <1>2, <2>1 DEF Spawn, LatchInv, Counted, TypeOK
    <2>3. QED
      BY <1>2, <2>1, <2>2 DEF Spawn, LatchInv, TypeOK, Index
  <1>3. CASE LatchWait
    <2>1. Counted' = Counted
      BY <1>3 DEF LatchWait, Counted
    <2>2. ASSUME starts = 1 PROVE Counted = Index
      <3>1. Cardinality(Counted) >= Cardinality(Index)
        BY <1>3, <2>2, CountedFinite DEF LatchWait, LatchInv, TypeOK
      <3>2. Counted \subseteq Index
        BY DEF Counted
      <3>3. QED
        BY <3>1, <3>2, CountedFinite, FS_Subset
    <2>3. starts = 1 => \A i \in Index : built[i] /\ worker[i] \notin {"spawned", "constructed"}
      BY <1>3, <2>2 DEF Counted, LatchWait, LatchInv
    <2>4. starts >= 1
      BY <1>3 DEF LatchWait, LatchInv, TypeOK
    <2>5. QED
      BY <1>3, <2>1, <2>3, <2>4 DEF LatchWait, LatchInv, TypeOK
  <1>4. CASE GetNextLoop \/ Stop \/ BeginJoin \/ EndStop \/ ShutdownLoop
    <2>1. Counted' = Counted
      BY <1>4 DEF GetNextLoop, Stop, BeginJoin, EndStop, ShutdownLoop, Counted
    <2>2. QED
      BY <1>4, <2>1 DEF GetNextLoop, Stop, BeginJoin, EndStop, ShutdownLoop, LatchInv, TypeOK
  <1>5. CASE JoinWorker
    <2>1. Counted' = Counted
      BY <1>5 DEF JoinWorker, Counted, TypeOK
    <2>2. QED
      BY <1>5, <2>1 DEF JoinWorker, LatchInv, TypeOK, Index
  <1>6. ASSUME NEW i \in Index, Construct(i) PROVE LatchInv'
    <2>1. starts <= 1 => Counted' = Counted
      BY <1>6 DEF Construct, LatchInv, Counted, TypeOK
    <2>2. QED
      BY <1>6, <2>1 DEF Construct, LatchInv, TypeOK, Index
  <1>7. ASSUME NEW i \in Index, CountDown(i) PROVE LatchInv'
    <2>1. i \notin Counted /\ Counted' = Counted \cup {i}
      BY <1>7 DEF CountDown, LatchInv, Counted, TypeOK
    <2>2. Cardinality(Counted') = Cardinality(Counted) + 1
      BY <2>1, CountedFinite, FS_AddElement
    <2>3. QED
      BY <1>7, <2>2, CountedFinite DEF CountDown, LatchInv, TypeOK, Index
  <1>8. ASSUME NEW i \in Index, RunStart(i) \/ RunReturn(i) PROVE LatchInv'
    <2>1. Counted' = Counted
      BY <1>8 DEF RunStart, RunReturn, Counted, TypeOK
    <2>2. QED
      BY SMTT(30), <1>8, <2>1 DEF RunStart, RunReturn, LatchInv, TypeOK, Index
  <1>9. QED
    BY <1>0, <1>1, <1>2, <1>3, <1>4, <1>5, <1>6, <1>7, <1>8 DEF Next, MainStep, WorkerStep

\* getNextLoop never hands out a loop that is not constructed (LoopsReady).
THEOREM LoopsBuilt == Spec => []LoopsReady
  <1>1. Init => LatchInv
    <2> SUFFICES ASSUME Init PROVE LatchInv
      OBVIOUS
    <2>1. Counted = {}
      BY DEF Init, Counted
    <2>2. Cardinality(Counted) = 0
      BY <2>1, FS_EmptySet
    <2>3. QED
      BY <2>2 DEF Init, LatchInv
  <1>2. TypeOK /\ LatchInv => LoopsReady
    BY DEF TypeOK, LatchInv, LoopsReady
  <1>3. QED
    BY <1>1, <1>2, LatchStep, TypeCorrect, PTL DEF Spec
=============================================================================
