--------------------------- MODULE Record_proofs ---------------------------
(***************************************************************************)
(* Theorems about the record the supervisor keeps: what state.json may say *)
(* and what it may lack, for every plan and every configuration.           *)
(***************************************************************************)
EXTENDS Orchestrator_proofs

\* The parts of DiskNeverAhead and of what carries it.
TasksBehind ==
    \A t \in Task : diskTask[t] \in {"done", "terminal"} => status[t] = diskTask[t]
WorkersBehind ==
    /\ \A w \in Worker : diskWorker[w] = "done" => proc[w] = "reaped" /\ rc[w] = 0
    /\ pc \in ExitRow => cur \in Worker /\ proc[cur] = "reaped"
RunBehind ==
    /\ diskRun = "completed" => AllDone
    /\ diskRun = "failed" => AllTasksTerminal /\ ~AllDone
    /\ diskRun \in {"completed", "failed", "halted"} =>
          pc \in Over \cup {"dead"} /\ active = {}

\* No step puts a task's end on disk before it has happened, or takes it back after.
LEMMA TasksStayBehind == ASSUME IInv, TasksBehind, [Next]_vars PROVE TasksBehind'
<1> TypeOK BY DEF IInv
<1> USE DEF TasksBehind, TypeOK, taskVars, procVars, diskVars
<1>1. CASE Start
  BY <1>1 DEF Start, Written
<1>2. CASE Finalize
  BY <1>2 DEF Finalize, Written
<1>3. CASE BeginSpawning
  BY <1>3 DEF BeginSpawning
<1>4. ASSUME NEW t \in Task, NEW w \in Worker, SpawnWorker(t, w) PROVE TasksBehind'
  <2>1. status[t] = "pending"
    BY <1>4, DispatchOfReadyTask DEF SpawnWorker
  <2> QED BY <1>4, <2>1 DEF SpawnWorker
<1>5. ASSUME NEW t \in Task, SpawnFails(t) PROVE TasksBehind'
  <2>1. status[t] = "pending"
    BY <1>5, DispatchOfReadyTask DEF SpawnFails
  <2> QED BY <1>5, <2>1 DEF SpawnFails, MaybeRetryTask
<1>6. CASE WriteSpawnedWorker
  BY <1>6 DEF WriteSpawnedWorker, Written
<1>7. CASE WriteSpawnedTask
  BY <1>7 DEF WriteSpawnedTask, Written, TaskRow
<1>8. CASE BeginPolling
  BY <1>8 DEF BeginPolling
<1>9. ASSUME NEW w \in Worker, PollOnce(w) PROVE TasksBehind'
  BY <1>9 DEF PollOnce
<1>10. CASE CheckWorker
  BY <1>10 DEF CheckWorker
<1>11. CASE EndPolling
  BY <1>11 DEF EndPolling
<1>12. ASSUME NEW w \in Worker, ProcessWorkerExit(w) PROVE TasksBehind'
  <2>1. status[taskOf[w]] = "running"
    BY <1>12, ExitOfRunningTask
  <2> QED BY <1>12, <2>1 DEF ProcessWorkerExit, MaybeRetryTask
<1>13. CASE WriteExitTask
  BY <1>13 DEF WriteExitTask, Written, TaskRow
<1>14. CASE WriteExitWorker
  BY <1>14 DEF WriteExitWorker, Written
<1>15. CASE WriteExitCost
  BY <1>15 DEF WriteExitCost, Written
<1>16. CASE Sleep
  BY <1>16 DEF Sleep
<1>17. CASE BeginHalt
  BY <1>17 DEF BeginHalt, Written
<1>18. CASE HaltInterrupt
  BY <1>18 DEF HaltInterrupt
<1>19. CASE HaltWait
  BY <1>19 DEF HaltWait
<1>20. CASE HaltTerminate
  BY <1>20 DEF HaltTerminate
<1>21. ASSUME NEW w \in Worker, HaltClose(w) PROVE TasksBehind'
  BY <1>21 DEF HaltClose
<1>22. CASE EndHalt
  BY <1>22 DEF EndHalt, Written
<1>23. CASE Return
  BY <1>23 DEF Return
<1>24. ASSUME NEW s \in Signals, HandleSignal(s) PROVE TasksBehind'
  BY <1>24 DEF HandleSignal
<1>25. ASSUME NEW w \in Worker, WorkerReports(w) PROVE TasksBehind'
  BY <1>25 DEF WorkerReports
<1>26. ASSUME NEW w \in Worker, WorkerExits(w) PROVE TasksBehind'
  BY <1>26 DEF WorkerExits
<1>27. ASSUME NEW t \in Task, BackoffElapses(t) PROVE TasksBehind'
  BY <1>27 DEF BackoffElapses
<1>28. CASE Die
  BY <1>28 DEF Die
<1>29. CASE UNCHANGED vars
  BY <1>29 DEF vars
<1> QED
  BY <1>1, <1>2, <1>3, <1>4, <1>5, <1>6, <1>7, <1>8, <1>9, <1>10, <1>11, <1>12,
     <1>13, <1>14, <1>15, <1>16, <1>17, <1>18, <1>19, <1>20, <1>21, <1>22, <1>23,
     <1>24, <1>25, <1>26, <1>27, <1>28, <1>29
  DEF Next, Supervisor, SpawnStep, Environment, Terminated

\* Likewise for the ends of workers.
LEMMA WorkersStayBehind == ASSUME IInv, WorkersBehind, [Next]_vars PROVE WorkersBehind'
<1> TypeOK /\ LoopInv BY DEF IInv
<1> USE DEF WorkersBehind, ExitRow, TypeOK, loopVars, procVars, diskVars
<1>1. CASE Start
  BY <1>1 DEF Start, Written
<1>2. CASE Finalize
  BY <1>2 DEF Finalize, Written
<1>3. CASE BeginSpawning
  BY <1>3 DEF BeginSpawning
<1>4. ASSUME NEW t \in Task, NEW w \in Worker, SpawnWorker(t, w) PROVE WorkersBehind'
  BY <1>4 DEF SpawnWorker, IsFirst
<1>5. ASSUME NEW t \in Task, SpawnFails(t) PROVE WorkersBehind'
  BY <1>5 DEF SpawnFails
<1>6. CASE WriteSpawnedWorker
  BY <1>6 DEF WriteSpawnedWorker, Written
<1>7. CASE WriteSpawnedTask
  BY <1>7 DEF WriteSpawnedTask, Written
<1>8. CASE BeginPolling
  BY <1>8 DEF BeginPolling
<1>9. ASSUME NEW w \in Worker, PollOnce(w) PROVE WorkersBehind'
  BY <1>9 DEF PollOnce, IsFirst
<1>10. CASE CheckWorker
  BY <1>10 DEF CheckWorker
<1>11. CASE EndPolling
  BY <1>11 DEF EndPolling
<1>12. ASSUME NEW w \in Worker, ProcessWorkerExit(w) PROVE WorkersBehind'
  <2>1. proc[w] = "reaped"
    BY <1>12 DEF ProcessWorkerExit, IsFirst, LoopInv
  <2> QED BY <1>12, <2>1 DEF ProcessWorkerExit
<1>13. CASE WriteExitTask
  BY <1>13 DEF WriteExitTask, Written
<1>14. CASE WriteExitWorker
  BY <1>14 DEF WriteExitWorker, Written
<1>15. CASE WriteExitCost
  BY <1>15 DEF WriteExitCost, Written
<1>16. CASE Sleep
  BY <1>16 DEF Sleep
<1>17. CASE BeginHalt
  BY <1>17 DEF BeginHalt, Written
<1>18. CASE HaltInterrupt
  BY <1>18 DEF HaltInterrupt
<1>19. CASE HaltWait
  BY <1>19 DEF HaltWait, Reap
<1>20. CASE HaltTerminate
  BY <1>20 DEF HaltTerminate, Reap
<1>21. ASSUME NEW w \in Worker, HaltClose(w) PROVE WorkersBehind'
  BY <1>21 DEF HaltClose, Reap
<1>22. CASE EndHalt
  BY <1>22 DEF EndHalt, Written
<1>23. CASE Return
  BY <1>23 DEF Return
<1>24. ASSUME NEW s \in Signals, HandleSignal(s) PROVE WorkersBehind'
  BY <1>24 DEF HandleSignal
<1>25. ASSUME NEW w \in Worker, WorkerReports(w) PROVE WorkersBehind'
  BY <1>25 DEF WorkerReports
<1>26. ASSUME NEW w \in Worker, WorkerExits(w) PROVE WorkersBehind'
  BY <1>26 DEF WorkerExits
<1>27. ASSUME NEW t \in Task, BackoffElapses(t) PROVE WorkersBehind'
  BY <1>27 DEF BackoffElapses
<1>28. CASE Die
  BY <1>28 DEF Die
<1>29. CASE UNCHANGED vars
  BY <1>29 DEF vars
<1> QED
  BY <1>1, <1>2, <1>3, <1>4, <1>5, <1>6, <1>7, <1>8, <1>9, <1>10, <1>11, <1>12,
     <1>13, <1>14, <1>15, <1>16, <1>17, <1>18, <1>19, <1>20, <1>21, <1>22, <1>23,
     <1>24, <1>25, <1>26, <1>27, <1>28, <1>29
  DEF Next, Supervisor, SpawnStep, Environment, Terminated

\* Likewise for the end of the run.
LEMMA RunStaysBehind == ASSUME IInv, RunBehind, [Next]_vars PROVE RunBehind'
<1> TypeOK /\ HandlesInv BY DEF IInv
<1> USE DEF RunBehind, Over, AllDone, AllTasksTerminal, TypeOK, taskVars, mapVars, procVars, diskVars
<1>1. CASE Start
  BY <1>1 DEF Start, Written
<1>2. CASE Finalize
  <2>1. AllTasksTerminal /\ status' = status /\ active' = active
    BY <1>2 DEF Finalize
  <2>2. active = {}
    BY <2>1 DEF AllTasksTerminal, HandlesInv
  <2>3. AllTasksTerminal'
    BY <2>1 DEF AllTasksTerminal
  <2> QED BY <1>2, <2>1, <2>2, <2>3 DEF Finalize, Written, FinalStatus
<1>3. CASE BeginSpawning
  BY <1>3 DEF BeginSpawning
<1>4. ASSUME NEW t \in Task, NEW w \in Worker, SpawnWorker(t, w) PROVE RunBehind'
  BY <1>4 DEF SpawnWorker
<1>5. ASSUME NEW t \in Task, SpawnFails(t) PROVE RunBehind'
  BY <1>5 DEF SpawnFails
<1>6. CASE WriteSpawnedWorker
  BY <1>6 DEF WriteSpawnedWorker, Written
<1>7. CASE WriteSpawnedTask
  BY <1>7 DEF WriteSpawnedTask, Written
<1>8. CASE BeginPolling
  BY <1>8 DEF BeginPolling
<1>9. ASSUME NEW w \in Worker, PollOnce(w) PROVE RunBehind'
  BY <1>9 DEF PollOnce
<1>10. CASE CheckWorker
  BY <1>10 DEF CheckWorker
<1>11. CASE EndPolling
  BY <1>11 DEF EndPolling
<1>12. ASSUME NEW w \in Worker, ProcessWorkerExit(w) PROVE RunBehind'
  BY <1>12 DEF ProcessWorkerExit
<1>13. CASE WriteExitTask
  BY <1>13 DEF WriteExitTask, Written
<1>14. CASE WriteExitWorker
  BY <1>14 DEF WriteExitWorker, Written
<1>15. CASE WriteExitCost
  BY <1>15 DEF WriteExitCost, Written
<1>16. CASE Sleep
  BY <1>16 DEF Sleep
<1>17. CASE BeginHalt
  BY <1>17 DEF BeginHalt, Written
<1>18. CASE HaltInterrupt
  BY <1>18 DEF HaltInterrupt
<1>19. CASE HaltWait
  BY <1>19 DEF HaltWait
<1>20. CASE HaltTerminate
  BY <1>20 DEF HaltTerminate
<1>21. ASSUME NEW w \in Worker, HaltClose(w) PROVE RunBehind'
  BY <1>21 DEF HaltClose
<1>22. CASE EndHalt
  BY <1>22 DEF EndHalt, Written
<1>23. CASE Return
  BY <1>23 DEF Return
<1>24. ASSUME NEW s \in Signals, HandleSignal(s) PROVE RunBehind'
  BY <1>24 DEF HandleSignal, Stopped
<1>25. ASSUME NEW w \in Worker, WorkerReports(w) PROVE RunBehind'
  BY <1>25 DEF WorkerReports
<1>26. ASSUME NEW w \in Worker, WorkerExits(w) PROVE RunBehind'
  BY <1>26 DEF WorkerExits
<1>27. ASSUME NEW t \in Task, BackoffElapses(t) PROVE RunBehind'
  BY <1>27 DEF BackoffElapses
<1>28. CASE Die
  BY <1>28 DEF Die, Stopped
<1>29. CASE UNCHANGED vars
  BY <1>29 DEF vars
<1> QED
  BY <1>1, <1>2, <1>3, <1>4, <1>5, <1>6, <1>7, <1>8, <1>9, <1>10, <1>11, <1>12,
     <1>13, <1>14, <1>15, <1>16, <1>17, <1>18, <1>19, <1>20, <1>21, <1>22, <1>23,
     <1>24, <1>25, <1>26, <1>27, <1>28, <1>29
  DEF Next, Supervisor, SpawnStep, Environment, Terminated

\* AheadInv is the three of them, and no halted run has a process left.
LEMMA AheadParts == ASSUME IInv
                    PROVE  AheadInv <=> TasksBehind /\ WorkersBehind /\ RunBehind
<1>1. active = {} => Unreaped = {}
  BY DEF IInv, HandlesInv, Unreaped
<1> QED BY <1>1 DEF AheadInv, DiskNeverAhead, TasksBehind, WorkersBehind, RunBehind, Over

\* What the record says has happened, under every fault.
LEMMA AheadInitStep == /\ Init => AheadInv
                       /\ IInv /\ AheadInv /\ [Next]_vars => AheadInv'
<1>1. Init => AheadInv
  <2> SUFFICES ASSUME Init PROVE TasksBehind /\ WorkersBehind /\ RunBehind
    BY InvInit, AheadParts
  <2> QED BY DEF Init, TasksBehind, WorkersBehind, RunBehind, ExitRow
<1>2. ASSUME IInv, AheadInv, [Next]_vars PROVE AheadInv'
  <2>1. TasksBehind /\ WorkersBehind /\ RunBehind
    BY <1>2, AheadParts
  <2>2. TasksBehind' /\ WorkersBehind' /\ RunBehind'
    BY <1>2, <2>1, TasksStayBehind, WorkersStayBehind, RunStaysBehind
  <2>3. IInv'
    BY <1>2, InvStep
  <2>4. (AheadInv <=> TasksBehind /\ WorkersBehind /\ RunBehind)'
    BY <2>3, AheadParts, PTL
  <2> QED BY <2>2, <2>4
<1> QED BY <1>1, <1>2

-----------------------------------------------------------------------------
(* What the record lacks, when nothing fails. *)

\* Only the worker just started has no row.
LEMMA RowStep == ASSUME IInv, ~UpdatesMayFail, RowInv, [Next]_vars PROVE RowInv'
<1> TypeOK BY DEF IInv
<1> USE DEF RowInv, TypeOK, Written, loopVars, procVars, diskVars
<1>1. CASE Start
  BY <1>1 DEF Start
<1>2. CASE Finalize
  BY <1>2 DEF Finalize
<1>3. CASE BeginSpawning
  BY <1>3 DEF BeginSpawning
<1>4. ASSUME NEW t \in Task, NEW w \in Worker, SpawnWorker(t, w) PROVE RowInv'
  BY <1>4 DEF SpawnWorker, IsFirst
<1>5. ASSUME NEW t \in Task, SpawnFails(t) PROVE RowInv'
  BY <1>5 DEF SpawnFails
<1>6. CASE WriteSpawnedWorker
  BY <1>6 DEF WriteSpawnedWorker
<1>7. CASE WriteSpawnedTask
  BY <1>7 DEF WriteSpawnedTask
<1>8. CASE BeginPolling
  BY <1>8 DEF BeginPolling
<1>9. ASSUME NEW w \in Worker, PollOnce(w) PROVE RowInv'
  BY <1>9 DEF PollOnce, IsFirst
<1>10. CASE CheckWorker
  BY <1>10 DEF CheckWorker
<1>11. CASE EndPolling
  BY <1>11 DEF EndPolling
<1>12. ASSUME NEW w \in Worker, ProcessWorkerExit(w) PROVE RowInv'
  BY <1>12 DEF ProcessWorkerExit, IsFirst
<1>13. CASE WriteExitTask
  BY <1>13 DEF WriteExitTask
<1>14. CASE WriteExitWorker
  BY <1>14 DEF WriteExitWorker
<1>15. CASE WriteExitCost
  BY <1>15 DEF WriteExitCost
<1>16. CASE Sleep
  BY <1>16 DEF Sleep
<1>17. CASE BeginHalt
  BY <1>17 DEF BeginHalt
<1>18. CASE HaltInterrupt
  BY <1>18 DEF HaltInterrupt
<1>19. CASE HaltWait
  BY <1>19 DEF HaltWait, Reap
<1>20. CASE HaltTerminate
  BY <1>20 DEF HaltTerminate, Reap
<1>21. ASSUME NEW w \in Worker, HaltClose(w) PROVE RowInv'
  BY <1>21 DEF HaltClose, Reap
<1>22. CASE EndHalt
  BY <1>22 DEF EndHalt
<1>23. CASE Return
  BY <1>23 DEF Return
<1>24. ASSUME NEW s \in Signals, HandleSignal(s) PROVE RowInv'
  BY <1>24 DEF HandleSignal
<1>25. ASSUME NEW w \in Worker, WorkerReports(w) PROVE RowInv'
  BY <1>25 DEF WorkerReports
<1>26. ASSUME NEW w \in Worker, WorkerExits(w) PROVE RowInv'
  BY <1>26 DEF WorkerExits
<1>27. ASSUME NEW t \in Task, BackoffElapses(t) PROVE RowInv'
  BY <1>27 DEF BackoffElapses
<1>28. CASE Die
  BY <1>28 DEF Die
<1>29. CASE UNCHANGED vars
  BY <1>29 DEF vars
<1> QED
  BY <1>1, <1>2, <1>3, <1>4, <1>5, <1>6, <1>7, <1>8, <1>9, <1>10, <1>11, <1>12,
     <1>13, <1>14, <1>15, <1>16, <1>17, <1>18, <1>19, <1>20, <1>21, <1>22, <1>23,
     <1>24, <1>25, <1>26, <1>27, <1>28, <1>29
  DEF Next, Supervisor, SpawnStep, Environment, Terminated

\* Only the task of the worker at hand may differ from its row.
LEMMA TaskRowStep ==
    ASSUME IInv, ~UpdatesMayFail, ~SpawnMayFail, TaskRowInv, [Next]_vars
    PROVE  TaskRowInv'
<1> TypeOK BY DEF IInv
<1> USE DEF TaskRowInv, TypeOK, Written, loopVars, taskVars, procVars, diskVars
<1>1. CASE Start
  BY <1>1 DEF Start
<1>2. CASE Finalize
  BY <1>2 DEF Finalize
<1>3. CASE BeginSpawning
  BY <1>3 DEF BeginSpawning
<1>4. ASSUME NEW t \in Task, NEW w \in Worker, SpawnWorker(t, w) PROVE TaskRowInv'
  BY <1>4 DEF SpawnWorker
<1>5. ASSUME NEW t \in Task, SpawnFails(t) PROVE TaskRowInv'
  BY <1>5 DEF SpawnFails
<1>6. CASE WriteSpawnedWorker
  BY <1>6 DEF WriteSpawnedWorker
<1>7. CASE WriteSpawnedTask
  BY <1>7 DEF WriteSpawnedTask, TaskRow
<1>8. CASE BeginPolling
  BY <1>8 DEF BeginPolling
<1>9. ASSUME NEW w \in Worker, PollOnce(w) PROVE TaskRowInv'
  BY <1>9 DEF PollOnce, IsFirst
<1>10. CASE CheckWorker
  BY <1>10 DEF CheckWorker
<1>11. CASE EndPolling
  BY <1>11 DEF EndPolling
<1>12. ASSUME NEW w \in Worker, ProcessWorkerExit(w) PROVE TaskRowInv'
  <2>1. taskOf[w] \in Task
    BY <1>12, ExitOfRunningTask
  <2>2. \A t \in Task \ {taskOf[w]} : status'[t] = status[t]
    BY <1>12, <2>1 DEF ProcessWorkerExit, MaybeRetryTask
  <2> QED BY <1>12, <2>1, <2>2 DEF ProcessWorkerExit
<1>13. CASE WriteExitTask
  BY <1>13 DEF WriteExitTask, TaskRow
<1>14. CASE WriteExitWorker
  BY <1>14 DEF WriteExitWorker
<1>15. CASE WriteExitCost
  BY <1>15 DEF WriteExitCost
<1>16. CASE Sleep
  BY <1>16 DEF Sleep
<1>17. CASE BeginHalt
  BY <1>17 DEF BeginHalt
<1>18. CASE HaltInterrupt
  BY <1>18 DEF HaltInterrupt
<1>19. CASE HaltWait
  BY <1>19 DEF HaltWait
<1>20. CASE HaltTerminate
  BY <1>20 DEF HaltTerminate
<1>21. ASSUME NEW w \in Worker, HaltClose(w) PROVE TaskRowInv'
  BY <1>21 DEF HaltClose, IsFirst
<1>22. CASE EndHalt
  BY <1>22 DEF EndHalt
<1>23. CASE Return
  BY <1>23 DEF Return
<1>24. ASSUME NEW s \in Signals, HandleSignal(s) PROVE TaskRowInv'
  BY <1>24 DEF HandleSignal
<1>25. ASSUME NEW w \in Worker, WorkerReports(w) PROVE TaskRowInv'
  BY <1>25 DEF WorkerReports
<1>26. ASSUME NEW w \in Worker, WorkerExits(w) PROVE TaskRowInv'
  BY <1>26 DEF WorkerExits
<1>27. ASSUME NEW t \in Task, BackoffElapses(t) PROVE TaskRowInv'
  BY <1>27 DEF BackoffElapses
<1>28. CASE Die
  BY <1>28 DEF Die
<1>29. CASE UNCHANGED vars
  BY <1>29 DEF vars
<1> QED
  BY <1>1, <1>2, <1>3, <1>4, <1>5, <1>6, <1>7, <1>8, <1>9, <1>10, <1>11, <1>12,
     <1>13, <1>14, <1>15, <1>16, <1>17, <1>18, <1>19, <1>20, <1>21, <1>22, <1>23,
     <1>24, <1>25, <1>26, <1>27, <1>28, <1>29
  DEF Next, Supervisor, SpawnStep, Environment, Terminated

\* A spawn adds the new worker to the map, and nobody leaves it.
LEMMA SpawnMaps ==
    ASSUME TypeOK, NEW t \in Task, NEW w \in Worker, SpawnWorker(t, w), t # NoTask,
           \A v \in Worker : Mapped(v) => taskOf[v] # t /\ v # w
    PROVE  \A v \in Worker : Mapped(v)' <=> Mapped(v) \/ v = w
<1>1. /\ taskOf' = [taskOf EXCEPT ![w] = t] /\ taskOf \in [Worker -> Task \cup {NoTask}]
      /\ taskWorker' = [taskWorker EXCEPT ![t] = w]
      /\ taskWorker \in [Task -> Worker \cup {NoWorker}]
  BY DEF SpawnWorker, TypeOK
<1>2. Mapped(w)'
  BY <1>1 DEF Mapped
<1>3. ASSUME NEW v \in Worker, v # w PROVE Mapped(v)' <=> Mapped(v)
  <2>1. taskOf'[v] = taskOf[v]
    BY <1>1, <1>3
  <2>2. CASE taskOf[v] = t
    <3>1. ~Mapped(v)
      BY <2>2
    <3>2. taskWorker'[t] = w
      BY <1>1
    <3> QED BY <1>3, <2>1, <2>2, <3>1, <3>2 DEF Mapped
  <2>3. CASE taskOf[v] # t
    <3>1. taskOf[v] # NoTask => taskWorker'[taskOf[v]] = taskWorker[taskOf[v]]
      BY <1>1, <2>3
    <3> QED BY <2>1, <3>1 DEF Mapped
  <2> QED BY <2>2, <2>3
<1> QED BY <1>2, <1>3

\* The rows that say running follow the map.
LEMMA WorkerRowStep ==
    ASSUME IInv, AheadInv, ~UpdatesMayFail, WorkerRowInv, [Next]_vars
    PROVE  WorkerRowInv'
<1> TypeOK /\ HandlesInv /\ LoopInv BY DEF IInv
<1> USE ConfigAssumption
    DEF WorkerRowInv, Mapped, TypeOK, Written, NoWorker, NoTask, Halting, Over, ExitRow,
        loopVars, taskVars, mapVars, procVars, diskVars
<1>1. CASE Start
  BY <1>1 DEF Start
<1>2. CASE Finalize
  <2>1. active = {}
    BY <1>2 DEF Finalize, AllTasksTerminal, HandlesInv
  <2> QED BY <1>2, <2>1 DEF Finalize
<1>3. CASE BeginSpawning
  BY <1>3 DEF BeginSpawning
<1>4. ASSUME NEW t \in Task, NEW w \in Worker, SpawnWorker(t, w) PROVE WorkerRowInv'
  <2>1. /\ status[t] = "pending" /\ proc[w] = "unborn" /\ taskOf[w] = NoTask
        /\ t # NoTask /\ w # NoWorker /\ pc = "spawn"
    BY <1>4, DispatchOfReadyTask, PlanFacts DEF SpawnWorker, IsFirst, HandlesInv
  <2>2. \A v \in Worker : Mapped(v) => taskOf[v] # t /\ v # w
    BY <2>1 DEF HandlesInv
  <2>3. \A v \in Worker : Mapped(v)' <=> Mapped(v) \/ v = w
    BY ONLY TypeOK, <1>4, <2>1, <2>2, SpawnMaps
  <2>4. diskRun \notin {"completed", "failed"}
    BY <2>1 DEF AheadInv
  <2>5. \A v \in Worker : diskWorker[v] = "running" <=> Mapped(v)
    BY <2>1
  <2> QED BY <1>4, <2>1, <2>2, <2>3, <2>4, <2>5 DEF SpawnWorker
<1>5. ASSUME NEW t \in Task, SpawnFails(t) PROVE WorkerRowInv'
  BY <1>5 DEF SpawnFails
<1>6. CASE WriteSpawnedWorker
  <2>1. Mapped(cur) /\ cur \in Worker /\ diskRun \notin {"completed", "failed"}
    BY <1>6, PlanFacts DEF WriteSpawnedWorker, HandlesInv, AheadInv
  <2> QED BY <1>6, <2>1 DEF WriteSpawnedWorker
<1>7. CASE WriteSpawnedTask
  BY <1>7 DEF WriteSpawnedTask
<1>8. CASE BeginPolling
  BY <1>8 DEF BeginPolling
<1>9. ASSUME NEW w \in Worker, PollOnce(w) PROVE WorkerRowInv'
  BY <1>9 DEF PollOnce, IsFirst
<1>10. CASE CheckWorker
  BY <1>10 DEF CheckWorker
<1>11. CASE EndPolling
  BY <1>11 DEF EndPolling
<1>12. ASSUME NEW w \in Worker, ProcessWorkerExit(w) PROVE WorkerRowInv'
  <2>1. /\ w \in active /\ proc[w] = "reaped" /\ pc = "exits" /\ Mapped(w)
        /\ taskOf[w] \in Task
    BY <1>12, PlanFacts DEF ProcessWorkerExit, IsFirst, LoopInv, HandlesInv
  <2>2. \A v \in Worker : Mapped(v)' <=> Mapped(v) /\ v # w
    BY <1>12, <2>1 DEF ProcessWorkerExit, Unmapped
  <2>3. \A v \in Worker : diskWorker[v] = "running" <=> Mapped(v)
    BY <2>1
  <2> QED BY <1>12, <2>1, <2>2, <2>3 DEF ProcessWorkerExit
<1>13. CASE WriteExitTask
  BY <1>13 DEF WriteExitTask
<1>14. CASE WriteExitWorker
  BY <1>14 DEF WriteExitWorker
<1>15. CASE WriteExitCost
  BY <1>15 DEF WriteExitCost
<1>16. CASE Sleep
  BY <1>16 DEF Sleep
<1>17. CASE BeginHalt
  BY <1>17 DEF BeginHalt
<1>18. CASE HaltInterrupt
  BY <1>18 DEF HaltInterrupt
<1>19. CASE HaltWait
  BY <1>19 DEF HaltWait, Reap
<1>20. CASE HaltTerminate
  BY <1>20 DEF HaltTerminate, Reap
<1>21. ASSUME NEW w \in Worker, HaltClose(w) PROVE WorkerRowInv'
  <2>1. w \in active /\ pc = "haltClose" /\ proc[w] \in {"exited", "reaped"}
    BY <1>21, PlanFacts DEF HaltClose, IsFirst, CloseReturns, HandlesInv
  <2>2. proc'[w] = "reaped" /\ \A v \in Worker \ {w} : proc'[v] = proc[v]
    BY <1>21, <2>1 DEF HaltClose, Reap
  <2> QED BY <1>21, <2>1, <2>2 DEF HaltClose
<1>22. CASE EndHalt
  BY <1>22 DEF EndHalt
<1>23. CASE Return
  BY <1>23 DEF Return
<1>24. ASSUME NEW s \in Signals, HandleSignal(s) PROVE WorkerRowInv'
  BY <1>24 DEF HandleSignal
<1>25. ASSUME NEW w \in Worker, WorkerReports(w) PROVE WorkerRowInv'
  BY <1>25 DEF WorkerReports
<1>26. ASSUME NEW w \in Worker, WorkerExits(w) PROVE WorkerRowInv'
  <2>1. w \in active
    BY <1>26 DEF WorkerExits, HandlesInv
  <2> QED BY <1>26, <2>1 DEF WorkerExits
<1>27. ASSUME NEW t \in Task, BackoffElapses(t) PROVE WorkerRowInv'
  BY <1>27 DEF BackoffElapses
<1>28. CASE Die
  BY <1>28 DEF Die
<1>29. CASE UNCHANGED vars
  BY <1>29 DEF vars
<1> QED
  BY <1>1, <1>2, <1>3, <1>4, <1>5, <1>6, <1>7, <1>8, <1>9, <1>10, <1>11, <1>12,
     <1>13, <1>14, <1>15, <1>16, <1>17, <1>18, <1>19, <1>20, <1>21, <1>22, <1>23,
     <1>24, <1>25, <1>26, <1>27, <1>28, <1>29
  DEF Next, Supervisor, SpawnStep, Environment, Terminated

\* The cost on disk follows the guard's, but for the workers still held.
LEMMA CostRowStep ==
    ASSUME IInv, AheadInv, ~UpdatesMayFail, CostRowInv, [Next]_vars
    PROVE  CostRowInv'
<1> TypeOK /\ HandlesInv /\ LoopInv BY DEF IInv
<1> USE DEF CostRowInv, Spent, Credited, TypeOK, Written, Halting, Over, ExitRow,
        loopVars, taskVars, mapVars, procVars, diskVars
<1>1. CASE Start
  BY <1>1 DEF Start
<1>2. CASE Finalize
  <2>1. active = {}
    BY <1>2 DEF Finalize, AllTasksTerminal, HandlesInv
  <2> QED BY <1>2, <2>1 DEF Finalize
<1>3. CASE BeginSpawning
  BY <1>3 DEF BeginSpawning
<1>4. ASSUME NEW t \in Task, NEW w \in Worker, SpawnWorker(t, w) PROVE CostRowInv'
  BY <1>4 DEF SpawnWorker
<1>5. ASSUME NEW t \in Task, SpawnFails(t) PROVE CostRowInv'
  BY <1>5 DEF SpawnFails
<1>6. CASE WriteSpawnedWorker
  BY <1>6 DEF WriteSpawnedWorker
<1>7. CASE WriteSpawnedTask
  BY <1>7 DEF WriteSpawnedTask
<1>8. CASE BeginPolling
  BY <1>8 DEF BeginPolling
<1>9. ASSUME NEW w \in Worker, PollOnce(w) PROVE CostRowInv'
  <2>1. w \in active /\ pc = "poll" /\ diskRun \notin {"completed", "failed"}
    BY <1>9 DEF PollOnce, IsFirst, LoopInv, AheadInv
  <2>2. UNCHANGED <<active, diskRun, diskUsd>> /\ pc' = "check"
    BY <1>9 DEF PollOnce
  <2>3. CASE result' = result
    <3>1. Spent' = Spent
      BY <2>3
    <3> QED BY <2>1, <2>2, <2>3, <3>1
  <2>4. CASE result' = [result EXCEPT ![w] = "credited"]
    <3>1. result'[w] = "credited"
      BY <2>4
    <3> QED BY <2>1, <2>2, <3>1
  <2> QED BY <1>9, <2>3, <2>4 DEF PollOnce
<1>10. CASE CheckWorker
  BY <1>10 DEF CheckWorker
<1>11. CASE EndPolling
  BY <1>11 DEF EndPolling
<1>12. ASSUME NEW w \in Worker, ProcessWorkerExit(w) PROVE CostRowInv'
  <2>1. diskRun \notin {"completed", "failed"}
    BY <1>12 DEF ProcessWorkerExit, AheadInv
  <2> QED BY <1>12, <2>1 DEF ProcessWorkerExit
<1>13. CASE WriteExitTask
  BY <1>13 DEF WriteExitTask
<1>14. CASE WriteExitWorker
  BY <1>14 DEF WriteExitWorker
<1>15. CASE WriteExitCost
  BY <1>15 DEF WriteExitCost
<1>16. CASE Sleep
  BY <1>16 DEF Sleep
<1>17. CASE BeginHalt
  BY <1>17 DEF BeginHalt
<1>18. CASE HaltInterrupt
  BY <1>18 DEF HaltInterrupt
<1>19. CASE HaltWait
  BY <1>19 DEF HaltWait, Reap
<1>20. CASE HaltTerminate
  BY <1>20 DEF HaltTerminate, Reap
<1>21. ASSUME NEW w \in Worker, HaltClose(w) PROVE CostRowInv'
  <2>1. diskRun \notin {"completed", "failed"}
    BY <1>21 DEF HaltClose, AheadInv
  <2> QED BY <1>21, <2>1 DEF HaltClose
<1>22. CASE EndHalt
  BY <1>22 DEF EndHalt
<1>23. CASE Return
  BY <1>23 DEF Return
<1>24. ASSUME NEW s \in Signals, HandleSignal(s) PROVE CostRowInv'
  BY <1>24 DEF HandleSignal
<1>25. ASSUME NEW w \in Worker, WorkerReports(w) PROVE CostRowInv'
  <2>1. \A v \in Worker : result'[v] = "credited" <=> result[v] = "credited"
    BY <1>25 DEF WorkerReports
  <2>2. Credited' = Credited
    BY <2>1
  <2>3. Spent' = Spent
    BY <2>2 DEF Spent
  <2> QED BY <1>25, <2>1, <2>3 DEF WorkerReports
<1>26. ASSUME NEW w \in Worker, WorkerExits(w) PROVE CostRowInv'
  BY <1>26 DEF WorkerExits
<1>27. ASSUME NEW t \in Task, BackoffElapses(t) PROVE CostRowInv'
  BY <1>27 DEF BackoffElapses
<1>28. CASE Die
  BY <1>28 DEF Die
<1>29. CASE UNCHANGED vars
  BY <1>29 DEF vars
<1> QED
  BY <1>1, <1>2, <1>3, <1>4, <1>5, <1>6, <1>7, <1>8, <1>9, <1>10, <1>11, <1>12,
     <1>13, <1>14, <1>15, <1>16, <1>17, <1>18, <1>19, <1>20, <1>21, <1>22, <1>23,
     <1>24, <1>25, <1>26, <1>27, <1>28, <1>29
  DEF Next, Supervisor, SpawnStep, Environment, Terminated

\* RecordInv holds at the start and in every step.
LEMMA RecordInit == ASSUME Init PROVE RecordInv
<1>1. AheadInv
  BY AheadInitStep
<1>2. RowInv /\ TaskRowInv
  BY DEF Init, RowInv, TaskRowInv
<1>3. WorkerRowInv
  BY ConfigAssumption
     DEF Init, WorkerRowInv, Mapped, NoTask, NoWorker, Halting, Over, ExitRow
<1>4. CostRowInv
  <2>1. Credited = {}
    BY DEF Init, Credited
  <2>2. Spent = 0
    BY <2>1, FS_EmptySet DEF Spent
  <2> QED BY <2>2 DEF Init, CostRowInv
<1> QED BY <1>1, <1>2, <1>3, <1>4 DEF RecordInv

LEMMA RecordStep == ASSUME IInv, RecordInv, [Next]_vars PROVE RecordInv'
  BY AheadInitStep, RowStep, TaskRowStep, WorkerRowStep, CostRowStep DEF RecordInv

-----------------------------------------------------------------------------
(* The theorems. *)

\* The invariant of the record holds in every run.
THEOREM RecordInvariance == Spec => []RecordInv
<1>1. Init => RecordInv
  BY RecordInit
<1>2. IInv /\ RecordInv /\ [Next]_vars => RecordInv'
  BY RecordStep
<1> QED BY <1>1, <1>2, Invariance, PTL DEF Spec

\* Whatever updates fail and wherever the supervisor dies, state.json claims nothing
\* that has not happened.
THEOREM NeverAhead == Spec => []DiskNeverAhead
<1>1. RecordInv => DiskNeverAhead
  BY DEF RecordInv, AheadInv
<1> QED BY <1>1, RecordInvariance, PTL

\* If updates succeed, at most one process that was not waited for has no row,
\* wherever the supervisor dies.
THEOREM OneUnrecorded == ASSUME ~UpdatesMayFail PROVE Spec => []AtMostOneUnrecorded
<1>1. RecordInv => AtMostOneUnrecorded
  <2> SUFFICES ASSUME RowInv PROVE AtMostOneUnrecorded
    BY DEF RecordInv
  <2> DEFINE S == {w \in Unreaped : diskWorker[w] = "absent"}
  <2>1. S \subseteq {cur}
    BY DEF RowInv, Unreaped
  <2>2. IsFiniteSet({cur}) /\ Cardinality({cur}) = 1
    BY FS_Singleton
  <2>3. Cardinality(S) <= Cardinality({cur}) /\ Cardinality(S) \in Nat
    BY <2>1, <2>2, FS_Subset, FS_CardinalityType
  <2> QED BY <2>2, <2>3 DEF AtMostOneUnrecorded
<1> QED BY <1>1, RecordInvariance, PTL

\* If updates and spawns succeed, the record of a run that ended by itself is exact.
THEOREM FinalRecord ==
    ASSUME ~UpdatesMayFail, ~SpawnMayFail PROVE Spec => []FinalRecordExact
<1>1. IInv /\ RecordInv => FinalRecordExact
  BY DEF RecordInv, TaskRowInv, WorkerRowInv, CostRowInv, FinalRecordExact, IInv, TypeOK
<1> QED BY <1>1, Invariance, RecordInvariance, PTL

\* If updates and spawns succeed, what the record of a halted run gets wrong is exactly
\* the workers the halt closed.
THEOREM HaltedRecord ==
    ASSUME ~UpdatesMayFail, ~SpawnMayFail PROVE Spec => []HaltedRecordExact
<1>1. IInv /\ RecordInv => HaltedRecordExact
  BY DEF RecordInv, AheadInv, TaskRowInv, WorkerRowInv, HaltedRecordExact, IInv, TypeOK
<1> QED BY <1>1, Invariance, RecordInvariance, PTL
=============================================================================
