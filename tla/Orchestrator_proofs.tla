------------------------ MODULE Orchestrator_proofs ------------------------
(***************************************************************************)
(* Theorems about Orchestrator, for every plan and every configuration.    *)
(***************************************************************************)
EXTENDS Orchestrator, FiniteSetTheorems, TLAPS

\* What the proofs use of a plan.
LEMMA PlanFacts ==
    /\ Task \subseteq Nat \ {0} /\ IsFiniteSet(Task)
    /\ DependsOn \in [Task -> SUBSET Task]
    /\ MaxRetries \in [Task -> Nat]
    /\ PlanStatus \subseteq TaskStatus /\ PlanRetries \subseteq Nat
  BY PlanAssumption DEF WellFormedPlan

\* Counting result lines gives a natural number.
LEMMA SpentType == ASSUME TypeOK PROVE Spent \in Nat
<1>1. Credited \subseteq Worker
  BY DEF Credited
<1>2. IsFiniteSet(Credited)
  BY <1>1, ConfigAssumption, FS_Subset
<1> QED BY <1>2, FS_CardinalityType DEF Spent

\* _maybe_retry_task keeps the types of what it changes.
LEMMA RetryTypes ==
    ASSUME TypeOK, NEW t \in Task, MaybeRetryTask(t)
    PROVE  /\ status' \in [Task -> TaskStatus]
           /\ retries' \in [Task -> Nat]
           /\ cooling' \subseteq Task
           /\ exitCode' \in {0, 1, 130}
  BY DEF MaybeRetryTask, TypeOK, TaskStatus

\* The program starts with every variable of its type.
LEMMA TypeInit == ASSUME Init PROVE TypeOK
<1> USE ConfigAssumption DEF NoWorker, NoTask, TaskStatus
<1>1. status \in [Task -> TaskStatus]
  <2>1. status \in [Task -> PlanStatus]
    BY DEF Init
  <2> QED BY <2>1, PlanFacts
<1>2. /\ pc \in SupervisorPlace
      /\ ready \subseteq Task /\ toPoll \subseteq Worker /\ completed \subseteq Worker
      /\ cur \in Worker \cup {NoWorker} /\ active \subseteq Worker
      /\ haltEvent \in BOOLEAN /\ exitCode \in {0, 1, 130} /\ signalled \subseteq Signals
      /\ diskRun = "initializing" /\ diskTask = status /\ diskUsd = 0
  BY DEF Init, SupervisorPlace
<1>0. retries \in [Task -> Nat]
  <2>1. retries \in [Task -> PlanRetries]
    BY DEF Init
  <2> QED BY <2>1, PlanFacts
<1>3. /\ cooling \subseteq Task
      /\ taskWorker \in [Task -> Worker \cup {NoWorker}]
  BY DEF Init
<1>4. /\ taskOf \in [Worker -> Task \cup {NoTask}]
      /\ proc \in [Worker -> {"unborn", "live", "exited", "reaped"}]
      /\ rc \in [Worker -> {0, 1}]
      /\ result \in [Worker -> {"none", "piped", "credited", "drained"}]
      /\ sig \in [Worker -> 0 .. 3]
      /\ diskWorker \in [Worker -> {"absent", "running", "done", "failed"}]
  BY DEF Init
<1> QED BY <1>0, <1>1, <1>2, <1>3, <1>4 DEF TypeOK

\* Every step keeps every variable in its type.
LEMMA TypeStep == ASSUME IInv, [Next]_vars PROVE TypeOK'
<1> TypeOK BY DEF IInv
<1> USE ConfigAssumption DEF NoWorker, NoTask, TaskStatus
<1> USE DEF TypeOK, SupervisorPlace, loopVars, taskVars, mapVars, haltVars, procVars,
            diskVars
<1>1. CASE Start BY <1>1 DEF Start, Written
<1>2. CASE Finalize BY <1>2 DEF Finalize, Written, FinalStatus
<1>3. CASE BeginSpawning BY <1>3 DEF BeginSpawning, GetReadyTasks
<1>4. ASSUME NEW t \in Task, NEW w \in Worker, SpawnWorker(t, w) PROVE TypeOK'
  BY <1>4 DEF SpawnWorker
<1>5. ASSUME NEW t \in Task, SpawnFails(t) PROVE TypeOK'
  <2>1. MaybeRetryTask(t)
    BY <1>5 DEF SpawnFails
  <2> QED BY <1>5, <2>1, RetryTypes DEF SpawnFails
<1>6. CASE WriteSpawnedWorker BY <1>6 DEF WriteSpawnedWorker, Written
<1>7. CASE WriteSpawnedTask BY <1>7 DEF WriteSpawnedTask, Written, TaskRow
<1>8. CASE BeginPolling BY <1>8 DEF BeginPolling
<1>9. ASSUME NEW w \in Worker, PollOnce(w) PROVE TypeOK'
  BY <1>9 DEF PollOnce, EscalateIf
<1>10. CASE CheckWorker
  <2>1. sig' \in [Worker -> 0 .. 3]
    BY <1>10 DEF CheckWorker, SupervisorEscalates, EscalateIf
  <2>2. cur \in Worker
    BY <1>10 DEF CheckWorker, IInv, LoopInv
  <2>3. CASE UNCHANGED <<proc, completed>>
    BY <1>10, <2>1, <2>3 DEF CheckWorker
  <2>4. CASE /\ proc' = [proc EXCEPT ![cur] = "reaped"]
             /\ completed' = completed \cup {cur}
    <3>1. /\ proc' \in [Worker -> {"unborn", "live", "exited", "reaped"}]
          /\ completed' \subseteq Worker
      BY <2>2, <2>4
    <3> QED BY <1>10, <2>1, <3>1 DEF CheckWorker
  <2> QED BY <1>10, <2>3, <2>4 DEF CheckWorker
<1>11. CASE EndPolling BY <1>11 DEF EndPolling
<1>12. ASSUME NEW w \in Worker, ProcessWorkerExit(w) PROVE TypeOK'
  <2>1. result' \in [Worker -> {"none", "piped", "credited", "drained"}]
    BY <1>12 DEF ProcessWorkerExit, Drained
  <2>0. taskOf[w] \in Task
    BY <1>12 DEF ProcessWorkerExit, IsFirst, IInv, LoopInv, HandlesInv
  <2>2. /\ status' \in [Task -> TaskStatus]
        /\ retries' \in [Task -> Nat]
        /\ cooling' \subseteq Task
        /\ exitCode' \in {0, 1, 130}
    <3>1. CASE rc[w] = 0 BY <1>12, <2>0, <3>1 DEF ProcessWorkerExit
    <3>2. CASE rc[w] # 0
      <4>1. MaybeRetryTask(taskOf[w]) BY <1>12, <3>2 DEF ProcessWorkerExit
      <4> QED BY <2>0, <4>1, RetryTypes
    <3> QED BY <3>1, <3>2
  <2>3. taskWorker' \in [Task -> Worker \cup {NoWorker}]
    BY <1>12, <2>0 DEF ProcessWorkerExit, Unmapped
  <2> QED BY <1>12, <2>1, <2>2, <2>3 DEF ProcessWorkerExit
<1>13. CASE WriteExitTask BY <1>13 DEF WriteExitTask, Written, TaskRow
<1>14. CASE WriteExitWorker BY <1>14 DEF WriteExitWorker, Written
<1>15. CASE WriteExitCost BY <1>15, SpentType DEF WriteExitCost, Written
<1>16. CASE Sleep BY <1>16 DEF Sleep
<1>17. CASE BeginHalt BY <1>17 DEF BeginHalt, Written
<1>18. CASE HaltInterrupt BY <1>18 DEF HaltInterrupt, Signal
<1>19. CASE HaltWait BY <1>19 DEF HaltWait, Reap
<1>20. CASE HaltTerminate BY <1>20 DEF HaltTerminate, Reap, Signal
<1>21. ASSUME NEW w \in Worker, HaltClose(w) PROVE TypeOK'
  BY <1>21 DEF HaltClose, Reap, Drained
<1>22. CASE EndHalt BY <1>22 DEF EndHalt, Written
<1>23. CASE Return BY <1>23 DEF Return
<1>24. ASSUME NEW s \in Signals, HandleSignal(s) PROVE TypeOK'
  BY <1>24 DEF HandleSignal
<1>25. ASSUME NEW w \in Worker, WorkerReports(w) PROVE TypeOK'
  BY <1>25 DEF WorkerReports
<1>26. ASSUME NEW w \in Worker, WorkerExits(w) PROVE TypeOK'
  BY <1>26 DEF WorkerExits
<1>27. ASSUME NEW t \in Task, BackoffElapses(t) PROVE TypeOK'
  BY <1>27 DEF BackoffElapses
<1>28. CASE Die BY <1>28 DEF Die
<1>29. CASE UNCHANGED vars BY <1>29 DEF vars
<1> QED
  BY <1>1, <1>2, <1>3, <1>4, <1>5, <1>6, <1>7, <1>8, <1>9, <1>10, <1>11, <1>12,
     <1>13, <1>14, <1>15, <1>16, <1>17, <1>18, <1>19, <1>20, <1>21, <1>22, <1>23,
     <1>24, <1>25, <1>26, <1>27, <1>28, <1>29
  DEF Next, Supervisor, SpawnStep, Environment, Terminated

\* A task waits only for tasks of the plan.
LEMMA DepsInPlan == ASSUME NEW t \in Task PROVE DependsOn[t] \subseteq Task
<1>1. DependsOn \in [Task -> SUBSET Task]
  BY PlanFacts
<1> QED BY <1>1

\* The supervisor's maps, its loop variables and the processes agree.
Agreement == ReadyInv /\ HandlesInv /\ LoopInv /\ DepsDoneBeforeRun

\* Every step keeps them in agreement.
LEMMA AgreementStep == ASSUME IInv, [Next]_vars PROVE Agreement'
<1> TypeOK' BY TypeStep
<1> USE ConfigAssumption, DepsInPlan
    DEF NoWorker, NoTask, loopVars, taskVars, mapVars, haltVars, procVars, diskVars,
        SpawnPlace, PollPlace, ExitPlace, Stopped
<1> TypeOK /\ Agreement BY DEF IInv, Agreement
<1>1. CASE Start
  BY <1>1 DEF Agreement, TypeOK, ReadyInv, HandlesInv, LoopInv, DepsDoneBeforeRun, Start
<1>2. CASE Finalize
  <2>1. active = {}
    BY <1>2 DEF Agreement, HandlesInv, Finalize, AllTasksTerminal
  <2> QED BY <1>2, <2>1 DEF Agreement, TypeOK, ReadyInv, HandlesInv, LoopInv,
       DepsDoneBeforeRun, Finalize
<1>3. CASE BeginSpawning
  BY <1>3 DEF Agreement, TypeOK, ReadyInv, HandlesInv, LoopInv, DepsDoneBeforeRun,
       BeginSpawning, GetReadyTasks
<1>4. ASSUME NEW t \in Task, NEW w \in Worker, SpawnWorker(t, w) PROVE Agreement'
  <2>1. /\ pc = "spawn" /\ t \in ready /\ status[t] = "pending"
        /\ \A d \in DependsOn[t] : status[d] = "done"
        /\ proc[w] = "unborn" /\ taskOf[w] = NoTask /\ w \notin active
    BY <1>4, PlanFacts DEF Agreement, ReadyInv, HandlesInv, SpawnWorker,
         DispatchedFirst, IsFirst
  <2>2. /\ ready' = ready \ {t} /\ active' = active \cup {w}
        /\ taskOf' = [taskOf EXCEPT ![w] = t]
        /\ proc' = [proc EXCEPT ![w] = "live"]
        /\ status' = [status EXCEPT ![t] = "running"]
        /\ taskWorker' = [taskWorker EXCEPT ![t] = w]
        /\ pc' = "spawnWorkerRow"
        /\ UNCHANGED <<toPoll, completed>>
    BY <1>4 DEF SpawnWorker
  <2>3. ReadyInv'
    BY <2>1, <2>2 DEF Agreement, ReadyInv, TypeOK
  <2>4. HandlesInv'
    <3>1. \A v \in active : v # w /\ taskOf[v] \in Task \ {t}
      BY <2>1 DEF Agreement, HandlesInv
    <3>2. \A v \in active : /\ taskWorker'[taskOf'[v]] = v
                            /\ status'[taskOf'[v]] = "running"
      BY <2>2, <3>1 DEF Agreement, HandlesInv, TypeOK
    <3>3. t # NoTask
      BY PlanFacts
    <3> QED BY <2>1, <2>2, <3>1, <3>2, <3>3 DEF Agreement, HandlesInv, TypeOK
  <2>5. LoopInv'
    BY <2>1, <2>2 DEF Agreement, LoopInv, TypeOK
  <2>6. DepsDoneBeforeRun'
    BY <2>1, <2>2 DEF Agreement, DepsDoneBeforeRun, TypeOK
  <2> QED BY <2>3, <2>4, <2>5, <2>6 DEF Agreement
<1>5. ASSUME NEW t \in Task, SpawnFails(t) PROVE Agreement'
  <2>1. t \in ready /\ status[t] = "pending"
    BY <1>5 DEF Agreement, ReadyInv, SpawnFails, DispatchedFirst
  <2>2. \A u \in Task \ {t} : status'[u] = status[u]
    BY <1>5 DEF SpawnFails, MaybeRetryTask, TypeOK
  <2>3. ReadyInv'
    BY <1>5, <2>1, <2>2 DEF Agreement, ReadyInv, SpawnFails, TypeOK
  <2>4. HandlesInv'
    <3>1. UNCHANGED <<active, taskOf, taskWorker, proc>>
      BY <1>5 DEF SpawnFails
    <3>2. \A v \in active : taskOf[v] \in Task \ {t}
      BY <2>1 DEF Agreement, HandlesInv
    <3> QED BY <2>2, <3>1, <3>2 DEF Agreement, HandlesInv
  <2>5. LoopInv'
    BY <1>5 DEF Agreement, LoopInv, SpawnFails
  <2>6. DepsDoneBeforeRun'
    BY <1>5, <2>1, <2>2 DEF Agreement, DepsDoneBeforeRun, SpawnFails, TypeOK
  <2> QED BY <2>3, <2>4, <2>5, <2>6 DEF Agreement
<1>6. CASE WriteSpawnedWorker
  BY <1>6 DEF Agreement, TypeOK, ReadyInv, HandlesInv, LoopInv, DepsDoneBeforeRun,
       WriteSpawnedWorker
<1>7. CASE WriteSpawnedTask
  BY <1>7 DEF Agreement, TypeOK, ReadyInv, HandlesInv, LoopInv, DepsDoneBeforeRun,
       WriteSpawnedTask
<1>8. CASE BeginPolling
  BY <1>8 DEF Agreement, TypeOK, ReadyInv, HandlesInv, LoopInv, DepsDoneBeforeRun,
       BeginPolling
<1>9. ASSUME NEW w \in Worker, PollOnce(w) PROVE Agreement'
  BY <1>9 DEF Agreement, TypeOK, ReadyInv, HandlesInv, LoopInv, DepsDoneBeforeRun,
       PollOnce, IsFirst
<1>10. CASE CheckWorker
  BY <1>10 DEF Agreement, TypeOK, ReadyInv, HandlesInv, LoopInv, DepsDoneBeforeRun,
       CheckWorker
<1>11. CASE EndPolling
  BY <1>11 DEF Agreement, TypeOK, ReadyInv, HandlesInv, LoopInv, DepsDoneBeforeRun,
       EndPolling
<1>12. ASSUME NEW w \in Worker, ProcessWorkerExit(w) PROVE Agreement'
  <2>1. /\ w \in completed /\ w \in active /\ pc = "exits" /\ proc[w] = "reaped"
        /\ taskOf[w] \in Task /\ status[taskOf[w]] = "running"
        /\ taskWorker[taskOf[w]] = w
    BY <1>12 DEF Agreement, HandlesInv, LoopInv, ProcessWorkerExit, IsFirst
  <2>2. \A u \in Task \ {taskOf[w]} : status'[u] = status[u]
    BY <1>12, <2>1 DEF ProcessWorkerExit, MaybeRetryTask, TypeOK
  <2>3. ReadyInv'
    BY <1>12, <2>1 DEF Agreement, ReadyInv, ProcessWorkerExit
  <2>4. HandlesInv'
    <3>1. /\ active' = active \ {w}
          /\ taskWorker' = [taskWorker EXCEPT ![taskOf[w]] = NoWorker]
          /\ UNCHANGED <<taskOf, proc>>
      BY <1>12 DEF ProcessWorkerExit, Unmapped
    <3>2. \A v \in active' : taskOf[v] \in Task \ {taskOf[w]}
      BY <2>1, <3>1 DEF Agreement, HandlesInv
    <3>3. \A v \in active' : taskWorker'[taskOf[v]] = taskWorker[taskOf[v]]
      BY <3>1, <3>2 DEF TypeOK
    <3> QED BY <2>1, <2>2, <3>1, <3>2, <3>3 DEF Agreement, HandlesInv
  <2>5. LoopInv'
    BY <1>12, <2>1 DEF Agreement, LoopInv, ProcessWorkerExit, TypeOK
  <2>6. DepsDoneBeforeRun'
    <3>1. UNCHANGED taskOf
      BY <1>12 DEF ProcessWorkerExit
    <3> QED BY <2>1, <2>2, <3>1 DEF Agreement, DepsDoneBeforeRun, TypeOK
  <2> QED BY <2>3, <2>4, <2>5, <2>6 DEF Agreement
<1>13. CASE WriteExitTask
  BY <1>13 DEF Agreement, TypeOK, ReadyInv, HandlesInv, LoopInv, DepsDoneBeforeRun,
       WriteExitTask
<1>14. CASE WriteExitWorker
  BY <1>14 DEF Agreement, TypeOK, ReadyInv, HandlesInv, LoopInv, DepsDoneBeforeRun,
       WriteExitWorker
<1>15. CASE WriteExitCost
  BY <1>15 DEF Agreement, TypeOK, ReadyInv, HandlesInv, LoopInv, DepsDoneBeforeRun,
       WriteExitCost
<1>16. CASE Sleep
  BY <1>16 DEF Agreement, TypeOK, ReadyInv, HandlesInv, LoopInv, DepsDoneBeforeRun, Sleep
<1>17. CASE BeginHalt
  BY <1>17 DEF Agreement, TypeOK, ReadyInv, HandlesInv, LoopInv, DepsDoneBeforeRun,
       BeginHalt
<1>18. CASE HaltInterrupt
  BY <1>18 DEF Agreement, TypeOK, ReadyInv, HandlesInv, LoopInv, DepsDoneBeforeRun,
       HaltInterrupt
<1>19. CASE HaltWait
  BY <1>19 DEF Agreement, TypeOK, ReadyInv, HandlesInv, LoopInv, DepsDoneBeforeRun,
       HaltWait, Reap
<1>20. CASE HaltTerminate
  BY <1>20 DEF Agreement, TypeOK, ReadyInv, HandlesInv, LoopInv, DepsDoneBeforeRun,
       HaltTerminate, Reap
<1>21. ASSUME NEW w \in Worker, HaltClose(w) PROVE Agreement'
  BY <1>21 DEF Agreement, TypeOK, ReadyInv, HandlesInv, LoopInv, DepsDoneBeforeRun,
       HaltClose, IsFirst, CloseReturns, Reap
<1>22. CASE EndHalt
  BY <1>22 DEF Agreement, TypeOK, ReadyInv, HandlesInv, LoopInv, DepsDoneBeforeRun,
       EndHalt
<1>23. CASE Return
  BY <1>23 DEF Agreement, TypeOK, ReadyInv, HandlesInv, LoopInv, DepsDoneBeforeRun, Return
<1>24. ASSUME NEW s \in Signals, HandleSignal(s) PROVE Agreement'
  BY <1>24 DEF Agreement, TypeOK, ReadyInv, HandlesInv, LoopInv, DepsDoneBeforeRun,
       HandleSignal
<1>25. ASSUME NEW w \in Worker, WorkerReports(w) PROVE Agreement'
  BY <1>25 DEF Agreement, TypeOK, ReadyInv, HandlesInv, LoopInv, DepsDoneBeforeRun,
       WorkerReports
<1>26. ASSUME NEW w \in Worker, WorkerExits(w) PROVE Agreement'
  BY <1>26 DEF Agreement, TypeOK, ReadyInv, HandlesInv, LoopInv, DepsDoneBeforeRun,
       WorkerExits
<1>27. ASSUME NEW t \in Task, BackoffElapses(t) PROVE Agreement'
  BY <1>27 DEF Agreement, TypeOK, ReadyInv, HandlesInv, LoopInv, DepsDoneBeforeRun,
       BackoffElapses
<1>28. CASE Die
  BY <1>28 DEF Agreement, TypeOK, ReadyInv, HandlesInv, LoopInv, DepsDoneBeforeRun, Die
<1>29. CASE UNCHANGED vars
  BY <1>29 DEF Agreement, ReadyInv, HandlesInv, LoopInv, DepsDoneBeforeRun, vars
<1> QED
  BY <1>1, <1>2, <1>3, <1>4, <1>5, <1>6, <1>7, <1>8, <1>9, <1>10, <1>11, <1>12, <1>13,
       <1>14, <1>15, <1>16, <1>17, <1>18, <1>19, <1>20, <1>21, <1>22, <1>23, <1>24,
            <1>25, <1>26, <1>27, <1>28, <1>29
  DEF Next, Supervisor, SpawnStep, Environment, Terminated

\* One more element makes a finite set at most one larger.
LEMMA AddElement ==
    ASSUME NEW S, IsFiniteSet(S), NEW x
    PROVE  /\ Cardinality(S) \in Nat
           /\ Cardinality(S \cup {x}) \in Nat
           /\ Cardinality(S \cup {x}) <= Cardinality(S) + 1
<1>1. Cardinality(S) \in Nat
  BY FS_CardinalityType
<1>2. Cardinality(S \cup {x}) =
        IF x \in S THEN Cardinality(S) ELSE Cardinality(S) + 1
  BY FS_AddElement
<1> QED BY <1>1, <1>2

\* Only a spawn adds a handle.
LEMMA OnlySpawnAddsHandles ==
    ASSUME [Next]_vars
    PROVE  \/ active' \subseteq active
           \/ \E t \in Task, w \in Worker : SpawnWorker(t, w)
  BY DEF Next, Supervisor, SpawnStep, Environment, Terminated, vars, loopVars, taskVars,
      mapVars, haltVars, procVars, diskVars, Start, Finalize, BeginSpawning, SpawnFails,
      WriteSpawnedWorker, WriteSpawnedTask, BeginPolling, PollOnce, CheckWorker,
      EndPolling, ProcessWorkerExit, WriteExitTask, WriteExitWorker, WriteExitCost,
      Sleep, BeginHalt, HaltInterrupt, HaltWait, HaltTerminate, HaltClose, EndHalt,
      Return, HandleSignal, WorkerReports, WorkerExits, BackoffElapses, Die

\* A handle is added only below the limit.
LEMMA LimitStep == ASSUME IInv, [Next]_vars PROVE LimitInv'
<1>1. active \subseteq Worker /\ LimitInv
  BY DEF IInv, TypeOK
<1>2. IsFiniteSet(active) /\ Cardinality(active) \in Nat
  BY <1>1, ConfigAssumption, FS_Subset, FS_CardinalityType
<1>3. CASE active' \subseteq active
  <2>1. Cardinality(active') <= Cardinality(active) /\ Cardinality(active') \in Nat
    BY <1>2, <1>3, FS_Subset, FS_CardinalityType
  <2> QED BY <1>1, <1>2, <1>3, <2>1, ConfigAssumption DEF LimitInv
<1>4. ASSUME NEW t \in Task, NEW w \in Worker, SpawnWorker(t, w) PROVE LimitInv'
  <2>1. ~(Cardinality(active) >= MaxParallel) /\ active' = active \cup {w}
    BY <1>4 DEF SpawnWorker, AtLimit
  <2>2. /\ Cardinality(active \cup {w}) <= Cardinality(active) + 1
        /\ Cardinality(active \cup {w}) \in Nat
    BY <1>2, AddElement
  <2> QED BY <1>2, <2>1, <2>2, ConfigAssumption DEF LimitInv
<1> QED BY <1>3, <1>4, OnlySpawnAddsHandles
\* Only a spawn, a failed spawn and the exit of a worker touch the tasks.
LEMMA OnlyThreeTouchTasks ==
    ASSUME [Next]_vars
    PROVE  \/ UNCHANGED <<status, retries, taskOf>>
           \/ \E t \in Task, w \in Worker : SpawnWorker(t, w)
           \/ \E t \in Task : SpawnFails(t)
           \/ \E w \in Worker : ProcessWorkerExit(w)
  BY DEF Next, Supervisor, SpawnStep, Environment, Terminated, vars, loopVars, taskVars,
      mapVars, haltVars, procVars, diskVars, Start, Finalize, BeginSpawning,
      WriteSpawnedWorker, WriteSpawnedTask, BeginPolling, PollOnce, CheckWorker,
      EndPolling, WriteExitTask, WriteExitWorker, WriteExitCost,
      Sleep, BeginHalt, HaltInterrupt, HaltWait, HaltTerminate, HaltClose, EndHalt,
      Return, HandleSignal, WorkerReports, WorkerExits, BackoffElapses, Die

\* The worker whose exit is processed ran the task it was started for.
LEMMA ExitOfRunningTask ==
    ASSUME IInv, NEW w \in Worker, ProcessWorkerExit(w)
    PROVE  /\ taskOf[w] \in Task
           /\ status[taskOf[w]] = "running"
           /\ \A d \in DependsOn[taskOf[w]] : status[d] = "done"
<1>1. w \in completed
  BY DEF ProcessWorkerExit, IsFirst
<1>2. taskOf[w] \in Task /\ status[taskOf[w]] = "running"
  BY <1>1 DEF IInv, LoopInv, HandlesInv
<1>3. taskOf[w] # NoTask
  BY <1>2, PlanFacts DEF NoTask
<1> QED BY <1>2, <1>3 DEF IInv, DepsDoneBeforeRun

\* A task left to dispatch is pending, and nothing it waits for is missing.
LEMMA DispatchOfReadyTask ==
    ASSUME IInv, NEW t \in Task, DispatchedFirst(t, ready)
    PROVE  /\ status[t] = "pending"
           /\ \A d \in DependsOn[t] : status[d] = "done"
  BY DEF IInv, ReadyInv, DispatchedFirst

\* The supervisor goes on waiting only for what can come.
LEMMA WaitStep == ASSUME IInv, [Next]_vars PROVE WaitInv'
<1> TypeOK /\ HandlesInv /\ LoopInv /\ WaitInv BY DEF IInv
<1> USE ConfigAssumption
    DEF WaitInv, TypeOK, NoWorker, Halting, Stopped, loopVars, taskVars, mapVars,
        haltVars, procVars, diskVars
<1>1. CASE Start
  BY <1>1 DEF Start
<1>2. CASE Finalize
  BY <1>2 DEF Finalize
<1>3. CASE BeginSpawning
  BY <1>3 DEF BeginSpawning
<1>4. ASSUME NEW t \in Task, NEW w \in Worker, SpawnWorker(t, w) PROVE WaitInv'
  <2>1. taskOf[w] = NoTask /\ w \notin active
    BY <1>4, PlanFacts DEF SpawnWorker, IsFirst, HandlesInv, NoTask
  <2>2. \A u \in Task : taskWorker[u] # NoWorker =>
            taskWorker[u] \in active \ {w} /\ taskOf[taskWorker[u]] = u
    BY <1>4, <2>1 DEF SpawnWorker
  <2> QED BY <1>4, <2>2 DEF SpawnWorker
<1>5. ASSUME NEW t \in Task, SpawnFails(t) PROVE WaitInv'
  BY <1>5 DEF SpawnFails
<1>6. CASE WriteSpawnedWorker
  BY <1>6 DEF WriteSpawnedWorker
<1>7. CASE WriteSpawnedTask
  BY <1>7 DEF WriteSpawnedTask
<1>8. CASE BeginPolling
  BY <1>8 DEF BeginPolling
<1>9. ASSUME NEW w \in Worker, PollOnce(w) PROVE WaitInv'
  BY <1>9 DEF PollOnce, IsFirst
<1>10. CASE CheckWorker
  BY <1>10 DEF CheckWorker
<1>11. CASE EndPolling
  BY <1>11 DEF EndPolling
<1>12. ASSUME NEW w \in Worker, ProcessWorkerExit(w) PROVE WaitInv'
  <2>1. taskOf[w] \in Task /\ taskWorker[taskOf[w]] = w
    BY <1>12, ExitOfRunningTask DEF ProcessWorkerExit, IsFirst, LoopInv, HandlesInv
  <2> QED BY <1>12, <2>1 DEF ProcessWorkerExit, Unmapped
<1>13. CASE WriteExitTask
  BY <1>13 DEF WriteExitTask
<1>14. CASE WriteExitWorker
  BY <1>14 DEF WriteExitWorker
<1>15. CASE WriteExitCost
  BY <1>15 DEF WriteExitCost
<1>16. CASE Sleep
  BY <1>16 DEF Sleep
<1>17. CASE BeginHalt
  BY <1>17 DEF BeginHalt
<1>18. CASE HaltInterrupt
  BY <1>18 DEF HaltInterrupt
<1>19. CASE HaltWait
  BY <1>19 DEF HaltWait, Reap
<1>20. CASE HaltTerminate
  BY <1>20 DEF HaltTerminate, Reap, Signal, StillAlive
<1>21. ASSUME NEW w \in Worker, HaltClose(w) PROVE WaitInv'
  BY <1>21 DEF HaltClose, Reap, IsFirst
<1>22. CASE EndHalt
  BY <1>22 DEF EndHalt
<1>23. CASE Return
  BY <1>23 DEF Return
<1>24. ASSUME NEW s \in Signals, HandleSignal(s) PROVE WaitInv'
  BY <1>24 DEF HandleSignal
<1>25. ASSUME NEW w \in Worker, WorkerReports(w) PROVE WaitInv'
  BY <1>25 DEF WorkerReports
<1>26. ASSUME NEW w \in Worker, WorkerExits(w) PROVE WaitInv'
  BY <1>26 DEF WorkerExits
<1>27. ASSUME NEW t \in Task, BackoffElapses(t) PROVE WaitInv'
  BY <1>27 DEF BackoffElapses
<1>28. CASE Die
  BY <1>28 DEF Die
<1>29. CASE UNCHANGED vars
  BY <1>29 DEF vars
<1> QED
  BY <1>1, <1>2, <1>3, <1>4, <1>5, <1>6, <1>7, <1>8, <1>9, <1>10, <1>11, <1>12,
     <1>13, <1>14, <1>15, <1>16, <1>17, <1>18, <1>19, <1>20, <1>21, <1>22, <1>23,
     <1>24, <1>25, <1>26, <1>27, <1>28, <1>29
  DEF Next, Supervisor, SpawnStep, Environment, Terminated

\* The workers of a task are finitely many.
LEMMA AttemptsFinite ==
    ASSUME NEW t PROVE IsFiniteSet(Attempts(t)) /\ Cardinality(Attempts(t)) \in Nat
<1>1. Attempts(t) \subseteq Worker
  BY DEF Attempts
<1> QED BY <1>1, ConfigAssumption, FS_Subset, FS_CardinalityType

\* Giving a task another try, or giving it up, keeps the account of its workers.
LEMMA RetryKeepsAccount ==
    ASSUME TypeOK, AttemptsInv, NEW t \in Task, MaybeRetryTask(t), UNCHANGED taskOf,
           status[t] \in {"pending", "running"}
    PROVE  AttemptsInv'
<1> SUFFICES ASSUME NEW u \in Task
             PROVE  Covers(retries[u], u)' /\ Covers(MaxRetries[u], u)'
  BY DEF AttemptsInv
<1>1. /\ retries[u] \in Nat /\ MaxRetries[u] \in Nat
      /\ Cardinality(Attempts(u)) \in Nat
  BY PlanFacts, AttemptsFinite DEF TypeOK
<1>2. Attempts(u)' = Attempts(u)
  BY DEF Attempts
<1>3. Covers(retries[u], u) /\ Covers(MaxRetries[u], u)
  BY DEF AttemptsInv
<1>4. CASE u # t
  <2>1. status'[u] = status[u] /\ retries'[u] = retries[u]
    BY <1>4 DEF MaybeRetryTask, TypeOK
  <2> QED BY <1>2, <1>3, <2>1 DEF Covers
<1>5. CASE u = t /\ retries' = [retries EXCEPT ![t] = @ + 1] /\ retries[t] < MaxRetries[t]
  <2>1. retries'[u] = retries[u] + 1 /\ retries[u] + 1 <= MaxRetries[u]
    BY <1>1, <1>5 DEF TypeOK
  <2>2. Cardinality(Attempts(u)) <= retries[u] + 1
    BY <1>1, <1>3 DEF Covers
  <2> QED BY <1>1, <1>2, <2>1, <2>2 DEF Covers
<1>6. CASE u = t /\ retries' = retries /\ status' = [status EXCEPT ![t] = "terminal"]
  <2>1. status'[u] = "terminal"
    BY <1>6 DEF TypeOK
  <2>2. /\ Cardinality(Attempts(u)) <= retries[u] + 1
        /\ Cardinality(Attempts(u)) <= MaxRetries[u] + 1
    BY <1>1, <1>3 DEF Covers
  <2> QED BY <1>2, <1>6, <2>1, <2>2 DEF Covers
<1> QED BY <1>4, <1>5, <1>6 DEF MaybeRetryTask

\* Every step keeps the account of the workers each task was given.
LEMMA AttemptsStep == ASSUME IInv, [Next]_vars PROVE AttemptsInv'
<1> TypeOK /\ AttemptsInv BY DEF IInv
<1>1. CASE UNCHANGED <<status, retries, taskOf>>
  BY <1>1 DEF AttemptsInv, Covers, Attempts
<1>2. ASSUME NEW t \in Task, NEW w \in Worker, SpawnWorker(t, w) PROVE AttemptsInv'
  <2> SUFFICES ASSUME NEW u \in Task
               PROVE  Covers(retries[u], u)' /\ Covers(MaxRetries[u], u)'
    BY DEF AttemptsInv
  <2>1. /\ retries' = retries /\ status' = [status EXCEPT ![t] = "running"]
        /\ taskOf' = [taskOf EXCEPT ![w] = t]
    BY <1>2 DEF SpawnWorker
  <2>2. /\ retries[u] \in Nat /\ MaxRetries[u] \in Nat
        /\ Cardinality(Attempts(u)) \in Nat
    BY PlanFacts, AttemptsFinite DEF TypeOK
  <2>3. Covers(retries[u], u) /\ Covers(MaxRetries[u], u)
    BY DEF AttemptsInv
  <2>4. CASE u = t
    <3>1. status[t] = "pending"
      BY <1>2, DispatchOfReadyTask DEF SpawnWorker
    <3>2. /\ Cardinality(Attempts(t)) <= retries[t]
          /\ Cardinality(Attempts(t)) <= MaxRetries[t]
      BY <2>3, <2>4, <3>1 DEF Covers
    <3>3. Attempts(t)' = Attempts(t) \cup {w}
      BY <2>1 DEF Attempts, TypeOK
    <3>4. /\ Cardinality(Attempts(t) \cup {w}) <= Cardinality(Attempts(t)) + 1
          /\ Cardinality(Attempts(t) \cup {w}) \in Nat
      BY AttemptsFinite, AddElement
    <3>5. /\ Cardinality(Attempts(t)') <= retries[t] + 1
          /\ Cardinality(Attempts(t)') <= MaxRetries[t] + 1
      <4> DEFINE n == Cardinality(Attempts(t))
      <4>1. n \in Nat /\ retries[t] \in Nat /\ MaxRetries[t] \in Nat
        BY <2>2, <2>4
      <4> HIDE DEF n
      <4>2. /\ Cardinality(Attempts(t) \cup {w}) <= n + 1
            /\ n <= retries[t] /\ n <= MaxRetries[t]
        BY <3>2, <3>4 DEF n
      <4>3. Cardinality(Attempts(t)') = Cardinality(Attempts(t) \cup {w})
        BY <3>3
      <4> QED BY <3>4, <4>1, <4>2, <4>3
    <3>6. status'[t] = "running"
      BY <2>1 DEF TypeOK
    <3> QED BY <2>1, <2>4, <3>5, <3>6 DEF Covers
  <2>5. CASE u # t
    <3>1. taskOf[w] = NoTask
      BY <1>2 DEF SpawnWorker, IsFirst, IInv, HandlesInv
    <3>2. Attempts(u)' = Attempts(u)
      BY <2>1, <2>5, <3>1, PlanFacts DEF Attempts, TypeOK, NoTask
    <3>3. status'[u] = status[u]
      BY <2>1, <2>5 DEF TypeOK
    <3> QED BY <2>1, <2>3, <3>2, <3>3 DEF Covers
  <2> QED BY <2>4, <2>5
<1>3. ASSUME NEW t \in Task, SpawnFails(t) PROVE AttemptsInv'
  <2>1. status[t] = "pending"
    BY <1>3, DispatchOfReadyTask DEF SpawnFails
  <2>2. MaybeRetryTask(t) /\ UNCHANGED taskOf
    BY <1>3 DEF SpawnFails, procVars
  <2> QED BY <2>1, <2>2, RetryKeepsAccount
<1>4. ASSUME NEW w \in Worker, ProcessWorkerExit(w) PROVE AttemptsInv'
  <2>1. taskOf[w] \in Task /\ status[taskOf[w]] = "running"
    BY <1>4, ExitOfRunningTask
  <2>2. UNCHANGED taskOf
    BY <1>4 DEF ProcessWorkerExit
  <2>3. CASE MaybeRetryTask(taskOf[w])
    BY <2>1, <2>2, <2>3, RetryKeepsAccount
  <2>4. CASE status' = [status EXCEPT ![taskOf[w]] = "done"] /\ UNCHANGED retries
    <3>1. \A u \in Task :
             (status[u] = "running" /\ status'[u] = "done") \/ status'[u] = status[u]
      BY <2>1, <2>4 DEF TypeOK
    <3>2. \A u \in Task : Attempts(u)' = Attempts(u)
      BY <2>2 DEF Attempts
    <3> QED BY <2>4, <3>1, <3>2 DEF AttemptsInv, Covers
  <2> QED BY <1>4, <2>3, <2>4 DEF ProcessWorkerExit
<1> QED BY <1>1, <1>2, <1>3, <1>4, OnlyThreeTouchTasks

\* Until a signal comes the supervisor does not halt, and leaves its loop only when
\* every task has ended.
LEMMA HaltOnlyOnSignal ==
    ASSUME IInv, [Next]_vars, signalled' = {}
    PROVE  /\ ~haltEvent' /\ pc' \notin Halting
           /\ pc' \in {"return", "exited"} => AllTasksTerminal'
<1>1. \/ /\ UNCHANGED <<signalled, haltEvent>>
         /\ pc' \in Halting => pc \in Halting \/ haltEvent
         /\ pc' \in {"return", "exited"} =>
               Finalize \/ pc \in Halting \cup {"return", "exited"}
      \/ \E s \in Signals : HandleSignal(s)
  BY DEF Next, Supervisor, SpawnStep, Environment, Terminated, vars, loopVars,
      taskVars, mapVars, haltVars, procVars, diskVars, Start, Finalize, BeginSpawning,
      SpawnWorker, SpawnFails, WriteSpawnedWorker, WriteSpawnedTask, BeginPolling,
      PollOnce, CheckWorker, EndPolling, ProcessWorkerExit, WriteExitTask,
      WriteExitWorker, WriteExitCost, Sleep, BeginHalt, HaltInterrupt, HaltWait,
      HaltTerminate, HaltClose, EndHalt, Return, WorkerReports, WorkerExits,
      BackoffElapses, Die, Halting
<1>2. UNCHANGED <<signalled, haltEvent>>
  BY <1>1 DEF HandleSignal
<1>3. ~haltEvent /\ pc \notin Halting
  BY <1>2 DEF IInv, ExitInv
<1>4. pc' \notin Halting
  BY <1>1, <1>3 DEF HandleSignal
<1>5. ASSUME pc' \in {"return", "exited"} PROVE AllTasksTerminal'
  <2>1. Finalize \/ pc \in {"return", "exited"}
    BY <1>1, <1>3, <1>5 DEF HandleSignal
  <2>2. CASE Finalize
    BY <2>2 DEF Finalize, AllTasksTerminal, taskVars
  <2>3. CASE pc \in {"return", "exited"}
    <3>1. AllTasksTerminal
      BY <1>2, <2>3 DEF IInv, ExitInv
    <3>2. UNCHANGED status
      BY <2>3, OnlyThreeTouchTasks DEF SpawnWorker, SpawnFails, ProcessWorkerExit
    <3> QED BY <3>1, <3>2 DEF AllTasksTerminal
  <2> QED BY <2>1, <2>2, <2>3
<1> QED BY <1>2, <1>3, <1>4, <1>5
\* Giving up a task is the only thing that sets the exit code, but for a signal.
LEMMA OnlyTerminalSetsExitCode ==
    ASSUME IInv, [Next]_vars, signalled' = {}, "terminal" \notin PlanStatus
    PROVE  exitCode' = 0 <=> \A t \in Task : status'[t] # "terminal"
<1> TypeOK BY DEF IInv
<1> USE DEF loopVars, taskVars, mapVars, haltVars, procVars, diskVars
<1>1. signalled = {} /\ (UNCHANGED <<status, exitCode>>
         \/ (\E t \in Task, w \in Worker : SpawnWorker(t, w))
         \/ (\E t \in Task : SpawnFails(t))
         \/ (\E w \in Worker : ProcessWorkerExit(w)))
  BY DEF Next, Supervisor, SpawnStep, Environment, Terminated, vars, Start, Finalize,
      BeginSpawning, WriteSpawnedWorker, WriteSpawnedTask, BeginPolling, PollOnce,
      CheckWorker, EndPolling, WriteExitTask, WriteExitWorker, WriteExitCost, Sleep,
      BeginHalt, HaltInterrupt, HaltWait, HaltTerminate, HaltClose, EndHalt, Return,
      HandleSignal, WorkerReports, WorkerExits, BackoffElapses, Die, SpawnWorker,
      SpawnFails, ProcessWorkerExit
<1>2. exitCode = 0 <=> \A t \in Task : status[t] # "terminal"
  BY <1>1 DEF IInv, ExitInv
<1>3. CASE UNCHANGED <<status, exitCode>>
  BY <1>2, <1>3
<1>4. ASSUME NEW t \in Task, status[t] # "terminal", UNCHANGED exitCode,
             NEW new \in {"running", "done"}, status' = [status EXCEPT ![t] = new]
      PROVE  exitCode' = 0 <=> \A u \in Task : status'[u] # "terminal"
  BY <1>2, <1>4 DEF TypeOK
<1>5. ASSUME NEW t \in Task, status[t] # "terminal", MaybeRetryTask(t)
      PROVE  exitCode' = 0 <=> \A u \in Task : status'[u] # "terminal"
  <2>1. CASE status' = [status EXCEPT ![t] = "pending"] /\ UNCHANGED exitCode
    BY <1>2, <1>5, <2>1 DEF TypeOK
  <2>2. CASE status' = [status EXCEPT ![t] = "terminal"] /\ exitCode' = 1
    BY <2>2 DEF TypeOK
  <2> QED BY <1>5, <2>1, <2>2 DEF MaybeRetryTask
<1>6. ASSUME NEW t \in Task, NEW w \in Worker, SpawnWorker(t, w)
      PROVE  exitCode' = 0 <=> \A u \in Task : status'[u] # "terminal"
  <2>1. status[t] = "pending"
    BY <1>6, DispatchOfReadyTask DEF SpawnWorker
  <2> QED BY <1>4, <1>6, <2>1 DEF SpawnWorker
<1>7. ASSUME NEW t \in Task, SpawnFails(t)
      PROVE  exitCode' = 0 <=> \A u \in Task : status'[u] # "terminal"
  <2>1. status[t] = "pending"
    BY <1>7, DispatchOfReadyTask DEF SpawnFails
  <2> QED BY <1>5, <1>7, <2>1 DEF SpawnFails
<1>8. ASSUME NEW w \in Worker, ProcessWorkerExit(w)
      PROVE  exitCode' = 0 <=> \A u \in Task : status'[u] # "terminal"
  <2>1. taskOf[w] \in Task /\ status[taskOf[w]] = "running"
    BY <1>8, ExitOfRunningTask
  <2>2. \/ status' = [status EXCEPT ![taskOf[w]] = "done"] /\ UNCHANGED exitCode
        \/ MaybeRetryTask(taskOf[w])
    BY <1>8 DEF ProcessWorkerExit
  <2> QED BY <1>4, <1>5, <2>1, <2>2
<1> QED BY <1>1, <1>3, <1>6, <1>7, <1>8

\* The invariant holds at the start ...
LEMMA InvInit == ASSUME Init PROVE IInv
<1> USE DEF NoWorker, NoTask
<1>1. TypeOK
  BY TypeInit
<1>2. ReadyInv /\ HandlesInv /\ LoopInv /\ WaitInv /\ DepsDoneBeforeRun /\ LimitInv
  BY DEF Init, ReadyInv, HandlesInv, LoopInv, WaitInv, DepsDoneBeforeRun, LimitInv, SpawnPlace,
         PollPlace, ExitPlace, Stopped
<1>3. AttemptsInv
  <2> SUFFICES ASSUME NEW t \in Task
               PROVE  /\ Cardinality(Attempts(t)) <= retries[t]
                      /\ Cardinality(Attempts(t)) <= MaxRetries[t]
    BY DEF AttemptsInv, Covers
  <2>1. retries[t] \in Nat /\ MaxRetries[t] \in Nat
    BY <1>1, PlanFacts DEF TypeOK
  <2>2. Attempts(t) = {}
    BY PlanFacts DEF Init, Attempts
  <2> QED BY <2>1, <2>2, FS_EmptySet
<1>4. ExitInv
  <2>1. \A t \in Task : status[t] \in PlanStatus
    BY DEF Init
  <2> QED BY <2>1 DEF Init, ExitInv, Halting
<1> QED BY <1>1, <1>2, <1>3, <1>4 DEF IInv

\* ... and every step keeps it.
LEMMA InvStep == ASSUME IInv, [Next]_vars PROVE IInv'
<1>1. TypeOK'
  BY TypeStep
<1>2. Agreement'
  BY AgreementStep
<1>3. LimitInv' /\ AttemptsInv' /\ WaitInv'
  BY LimitStep, AttemptsStep, WaitStep
<1>4. ExitInv'
  <2> SUFFICES ASSUME signalled' = {} PROVE ExitInv'
    BY DEF ExitInv
  <2>1. /\ ~haltEvent' /\ pc' \notin Halting
        /\ pc' \in {"return", "exited"} => AllTasksTerminal'
    BY HaltOnlyOnSignal
  <2>2. "terminal" \notin PlanStatus =>
          (exitCode' = 0 <=> \A t \in Task : status'[t] # "terminal")
    BY OnlyTerminalSetsExitCode
  <2> QED BY <2>1, <2>2 DEF ExitInv
<1> QED BY <1>1, <1>2, <1>3, <1>4 DEF IInv, Agreement

-----------------------------------------------------------------------------
(* The theorems. *)

\* The inductive invariant of the supervisor holds in every run.
THEOREM Invariance == Spec => []IInv
<1>1. Init => IInv
  BY InvInit
<1>2. IInv /\ [Next]_vars => IInv'
  BY InvStep
<1> QED BY <1>1, <1>2, PTL DEF Spec

\* Every variable keeps its type: in particular no step writes a status that the
\* schema of state.json does not list.
THEOREM TypeCorrect == Spec => []TypeOK
<1>1. IInv => TypeOK
  BY DEF IInv
<1> QED BY <1>1, Invariance, PTL

\* No task ever has two processes that were not waited for.
THEOREM NeverRunTwice == Spec => []NoDoubleRun
<1>1. IInv => NoDoubleRun
  <2> SUFFICES ASSUME IInv, NEW v \in Unreaped, NEW w \in Unreaped,
                      taskOf[v] = taskOf[w]
               PROVE  v = w
    BY DEF NoDoubleRun
  <2>1. v \in active /\ w \in active
    BY DEF IInv, HandlesInv, Unreaped
  <2> QED BY <2>1 DEF IInv, HandlesInv
<1> QED BY <1>1, Invariance, PTL

\* No worker is started before everything its task depends on is done.
THEOREM DependenciesRespected == Spec => []DepsDoneBeforeRun
<1>1. IInv => DepsDoneBeforeRun
  BY DEF IInv
<1> QED BY <1>1, Invariance, PTL

\* max_parallel, whatever its value, bounds the processes that exist, where each of them
\* has its handle: a spawn fails in Popen or before it, as SpawnFails says.  Where an
\* OSError comes after Popen, StraysBounded of Conductor_proofs is what is left of it.
THEOREM LimitRespected == Spec => []ParallelLimit
<1>1. IInv => ParallelLimit
  <2> SUFFICES ASSUME IInv PROVE ParallelLimit
    OBVIOUS
  <2>1. Unreaped \subseteq active /\ active \subseteq Worker
    BY DEF IInv, HandlesInv, TypeOK, Unreaped
  <2>2. /\ IsFiniteSet(active) /\ Cardinality(active) \in Nat
        /\ Cardinality(Unreaped) \in Nat
        /\ Cardinality(Unreaped) <= Cardinality(active)
    BY <2>1, ConfigAssumption, FS_Subset, FS_CardinalityType
  <2>3. active = {} \/ Cardinality(active) <= MaxParallel
    BY DEF IInv, LimitInv
  <2>4. CASE active = {}
    BY <2>1, <2>4 DEF ParallelLimit
  <2>5. CASE Cardinality(active) <= MaxParallel
    BY <2>2, <2>5, ConfigAssumption DEF ParallelLimit
  <2> QED BY <2>3, <2>4, <2>5
<1> QED BY <1>1, Invariance, PTL

\* A task gets at most max_retries + 1 workers in a run.
THEOREM BudgetRespected == Spec => []RetryBudget
<1>1. IInv => RetryBudget
  <2> SUFFICES ASSUME IInv, NEW t \in Task
               PROVE  Cardinality(Attempts(t)) <= MaxRetries[t] + 1
    BY DEF RetryBudget
  <2>1. MaxRetries[t] \in Nat /\ Cardinality(Attempts(t)) \in Nat
    BY PlanFacts, AttemptsFinite
  <2> QED BY <2>1 DEF IInv, AttemptsInv, Covers
<1> QED BY <1>1, Invariance, PTL

\* run() does not return before every process it started was waited for.
THEOREM NoOrphans == Spec => []NobodyLeftBehind
<1>1. IInv => NobodyLeftBehind
  BY DEF IInv, LoopInv, HandlesInv, NobodyLeftBehind, Unreaped
<1> QED BY <1>1, Invariance, PTL

\* Without a signal the exit code tells whether every task is done, for every plan
\* that does not itself call a task terminal.
THEOREM ExitCodeTells ==
    ASSUME "terminal" \notin PlanStatus PROVE Spec => []ExitCodeHonest
<1>1. IInv => ExitCodeHonest
  <2> SUFFICES ASSUME IInv, pc = "exited", signalled = {}
               PROVE  exitCode = 0 <=> AllDone
    BY DEF ExitCodeHonest
  <2>1. AllTasksTerminal
    BY DEF IInv, ExitInv
  <2>2. exitCode = 0 <=> \A t \in Task : status[t] # "terminal"
    BY DEF IInv, ExitInv
  <2> QED BY <2>1, <2>2 DEF AllTasksTerminal, AllDone
<1> QED BY <1>1, Invariance, PTL

\* When no worker runs and no backoff is pending, an acyclic plan has a task to start.
LEMMA SomeTaskIsReady ==
    ASSUME IInv, pc = "head", ~AllTasksTerminal, ~Starved, active = {}, cooling = {}
    PROVE  GetReadyTasks # {}
<1> DEFINE S == {t \in Task : status[t] \notin {"done", "terminal"}}
<1>1. S # {}
  BY DEF AllTasksTerminal
<1>2. \A t \in S : status[t] = "pending" /\ taskWorker[t] = NoWorker
  <2> SUFFICES ASSUME NEW t \in S
               PROVE  status[t] = "pending" /\ taskWorker[t] = NoWorker
    OBVIOUS
  <2>1. taskWorker[t] = NoWorker
    BY DEF IInv, WaitInv, Halting, Stopped
  <2>2. status[t] \in {"pending", "ready", "assigned", "running", "failed"}
    BY DEF IInv, TypeOK, TaskStatus
  <2> QED BY <2>1, <2>2 DEF Starved
<1>3. PICK t \in S : DependsOn[t] \cap S = {}
  BY <1>1, PlanAssumption DEF WellFormedPlan, Acyclic
<1>4. \A d \in DependsOn[t] : status[d] = "done"
  <2>1. \A d \in DependsOn[t] : d \in Task \ S
    BY <1>3, PlanFacts
  <2>2. \A d \in DependsOn[t] : status[d] # "terminal"
    BY <1>2, <1>3 DEF Starved
  <2> QED BY <2>1, <2>2
<1> QED BY <1>2, <1>3, <1>4 DEF GetReadyTasks

\* In every run on an acyclic plan, what the supervisor waits for can come.
THEOREM NothingStuck == Spec => []NeverStuck
<1>1. IInv => NeverStuck
  <2>1. active = {} /\ ~NothingMayStart => ~AtLimit
    BY ConfigAssumption, FS_EmptySet DEF AtLimit, NothingMayStart
  <2> QED BY <2>1, SomeTaskIsReady DEF IInv, WaitInv, NeverStuck
<1> QED BY <1>1, Invariance, PTL

\* A signal goes only to a process group whose leader was not waited for.
THEOREM SignalsStayInside == Spec => SignalsHitOnlyWorkers
<1> DEFINE Hit == \A w \in Worker : sig'[w] # sig[w] => proc[w] \in {"live", "exited"}
<1>1. ASSUME IInv, [Next]_vars PROVE Hit
  <2> USE DEF loopVars, taskVars, mapVars, haltVars, procVars, diskVars
  <2> TypeOK /\ HandlesInv /\ LoopInv BY <1>1 DEF IInv
  <2>0. \A w \in active : w \in Worker /\ taskOf[w] # NoTask /\ proc[w] # "unborn"
    BY PlanFacts DEF HandlesInv, TypeOK, NoTask
  <2>1. ASSUME NEW w \in Worker, PollOnce(w) PROVE Hit
    <3>1. w \in active /\ proc[w] \in {"live", "exited"}
      BY <2>0, <2>1 DEF PollOnce, IsFirst, LoopInv, TypeOK, Stopped
    <3>2. \A v \in Worker \ {w} : sig'[v] = sig[v]
      BY <2>1 DEF PollOnce, EscalateIf, TypeOK
    <3> QED BY <3>1, <3>2
  <2>2. CASE CheckWorker
    <3>1. proc[cur] \in {"live", "exited"}
      BY <2>2 DEF CheckWorker
    <3>2. \A v \in Worker \ {cur} : sig'[v] = sig[v]
      BY <2>2 DEF CheckWorker, SupervisorEscalates, EscalateIf, TypeOK
    <3> QED BY <3>1, <3>2
  <2>3. CASE HaltInterrupt
    <3>1. \A w \in active : proc[w] \in {"live", "exited"}
      BY <2>0, <2>3 DEF HaltInterrupt, LoopInv, TypeOK, PollPlace, ExitPlace, Stopped
    <3> QED BY <2>3, <3>1 DEF HaltInterrupt, Signal, TypeOK
  <2>4. CASE HaltTerminate
    BY <2>4 DEF HaltTerminate, Signal, StillAlive, TypeOK
  <2>5. CASE UNCHANGED sig
    BY <2>5
  <2> QED
    BY <1>1, <2>1, <2>2, <2>3, <2>4, <2>5
    DEF Next, Supervisor, SpawnStep, Environment, Terminated, vars, Start, Finalize,
      BeginSpawning, SpawnWorker, SpawnFails, WriteSpawnedWorker, WriteSpawnedTask,
      BeginPolling, EndPolling, ProcessWorkerExit, WriteExitTask, WriteExitWorker,
      WriteExitCost, Sleep, BeginHalt, HaltWait, HaltClose, EndHalt, Return,
      HandleSignal, WorkerReports, WorkerExits, BackoffElapses, Die
<1>2. IInv /\ [Next]_vars => [Hit]_vars
  BY <1>1
<1> QED BY <1>2, Invariance, PTL DEF Spec, SignalsHitOnlyWorkers

\* The supervisor implements the task lifecycle: whatever it does to the status and
\* the retries of the tasks is a start, a success or a failure of one of them.
THEOREM Refinement == Spec => ImplementsLifecycle
<1>1. Init => Lifecycle!Init
  BY DEF Init, Lifecycle!Init
<1>2. ASSUME IInv, [Next]_vars PROVE [Lifecycle!Next]_(Lifecycle!vars)
  <2>1. ASSUME NEW t \in Task, NEW w \in Worker, SpawnWorker(t, w) PROVE Lifecycle!Next
    <3>1. status[t] = "pending" /\ \A d \in DependsOn[t] : status[d] = "done"
      BY <1>2, <2>1, DispatchOfReadyTask DEF SpawnWorker
    <3>2. Lifecycle!StartTask(t)
      BY <2>1, <3>1 DEF SpawnWorker, Lifecycle!StartTask
    <3> QED BY <3>2 DEF Lifecycle!Next
  <2>2. ASSUME NEW t \in Task, SpawnFails(t) PROVE Lifecycle!Next
    <3>1. status[t] = "pending" /\ \A d \in DependsOn[t] : status[d] = "done"
      BY <1>2, <2>2, DispatchOfReadyTask DEF SpawnFails
    <3>2. Lifecycle!FailTask(t)
      BY <2>2, <3>1 DEF SpawnFails, MaybeRetryTask, Lifecycle!FailTask
    <3> QED BY <3>2 DEF Lifecycle!Next
  <2>3. ASSUME NEW w \in Worker, ProcessWorkerExit(w) PROVE Lifecycle!Next
    <3> DEFINE t == taskOf[w]
    <3>1. /\ t \in Task /\ status[t] = "running"
          /\ \A d \in DependsOn[t] : status[d] = "done"
      BY <1>2, <2>3, ExitOfRunningTask
    <3>2. CASE rc[w] = 0
      <4>1. Lifecycle!Succeed(t)
        BY <2>3, <3>1, <3>2 DEF ProcessWorkerExit, Lifecycle!Succeed
      <4> QED BY <3>1, <4>1 DEF Lifecycle!Next
    <3>3. CASE MaybeRetryTask(t)
      <4>1. Lifecycle!FailTask(t)
        BY <3>1, <3>3 DEF MaybeRetryTask, Lifecycle!FailTask
      <4> QED BY <3>1, <4>1 DEF Lifecycle!Next
    <3> QED BY <2>3, <3>2, <3>3 DEF ProcessWorkerExit
  <2> QED BY <1>2, <2>1, <2>2, <2>3, OnlyThreeTouchTasks DEF Lifecycle!vars
<1> QED BY <1>1, <1>2, Invariance, PTL DEF Spec, ImplementsLifecycle, Lifecycle!Spec
=============================================================================
