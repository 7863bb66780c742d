-------------------------- MODULE Conductor_proofs --------------------------
(***************************************************************************)
(* Theorems about Conductor: what holds of the supervisor although workers *)
(* run without a handle and `tab-conductor kill` goes by a document that   *)
(* is out of date, for every plan and every configuration.                 *)
(*                                                                         *)
(* V is the supervisor with the processes without a handle taken for       *)
(* ended.  Each step the supervisor takes is a step of V, so the lemmas    *)
(* about Orchestrator hold of V; the steps of kill and the handle that is  *)
(* not made are looked at one by one.                                      *)
(***************************************************************************)
EXTENDS Conductor, Orchestrator_proofs

V == INSTANCE Record_proofs WITH proc <- HeldProc

\* An instance has a name of its own for the library's operator.
LEMMA SameCardinality ==
    ASSUME NEW S
    PROVE  Held!Cardinality(S) = Cardinality(S) /\ V!Cardinality(S) = Cardinality(S)
<1>1. Held!Cardinality(S) = Cardinality(S)
  BY Zenon DEF Held!Cardinality, Cardinality
<1>2. V!Cardinality(S) = Cardinality(S)
  BY Zenon DEF V!Cardinality, Cardinality
<1> QED BY <1>1, <1>2

\* The assumptions on the constants, in the names of V.
LEMMA ViewAssumptions ==
    /\ V!IsFiniteSet(Worker)
    /\ V!WellFormedPlan(Task, DependsOn, Priority, MaxRetries, PlanStatus, PlanRetries)
<1>1. \A S : V!IsFiniteSet(S) <=> IsFiniteSet(S)
  BY DEF V!IsFiniteSet, IsFiniteSet
<1> QED
  BY <1>1, PlanAssumption, ConfigAssumption
  DEF V!WellFormedPlan, WellFormedPlan, V!Acyclic, Acyclic, V!TaskStatus, TaskStatus

\* What TLC checks of Held is what the lemmas say of V.
LEMMA HeldIsView == (Held!IInv <=> V!IInv) /\ (Held!AheadInv <=> V!AheadInv)
<1>1. Held!IInv <=> V!IInv
  <2>1. Held!TypeOK <=> V!TypeOK
    BY DEF Held!TypeOK, V!TypeOK, Held!NoTask, V!NoTask, Held!NoWorker, V!NoWorker,
        Held!TaskStatus, V!TaskStatus, Held!SupervisorPlace, V!SupervisorPlace
  <2>2. Held!ReadyInv <=> V!ReadyInv
    BY DEF Held!ReadyInv, V!ReadyInv, Held!SpawnPlace, V!SpawnPlace
  <2>3. Held!HandlesInv <=> V!HandlesInv
    BY DEF Held!HandlesInv, V!HandlesInv, Held!NoTask, V!NoTask
  <2>4. Held!LoopInv <=> V!LoopInv
    BY DEF Held!LoopInv, V!LoopInv, Held!PollPlace, V!PollPlace, Held!ExitPlace,
        V!ExitPlace, Held!Stopped, V!Stopped
  <2>5. Held!DepsDoneBeforeRun <=> V!DepsDoneBeforeRun
    BY DEF Held!DepsDoneBeforeRun, V!DepsDoneBeforeRun, Held!NoTask, V!NoTask
  <2>6. Held!LimitInv <=> V!LimitInv
    BY SameCardinality DEF Held!LimitInv, V!LimitInv
  <2>7. Held!AttemptsInv <=> V!AttemptsInv
    <3>1. \A n, t : Held!Covers(n, t) <=> V!Covers(n, t)
      BY SameCardinality
         DEF Held!Covers, V!Covers, Held!Attempts, V!Attempts
    <3> QED BY <3>1 DEF Held!AttemptsInv, V!AttemptsInv
  <2>8. Held!ExitInv <=> V!ExitInv
    BY DEF Held!ExitInv, V!ExitInv, Held!Halting, V!Halting, Held!AllTasksTerminal,
        V!AllTasksTerminal
  <2>9. Held!WaitInv <=> V!WaitInv
    BY DEF Held!WaitInv, V!WaitInv, Held!Halting, V!Halting, Held!Stopped, V!Stopped,
        Held!NoWorker, V!NoWorker
  <2> QED
    BY <2>1, <2>2, <2>3, <2>4, <2>5, <2>6, <2>7, <2>8, <2>9 DEF Held!IInv, V!IInv
<1>2. Held!AheadInv <=> V!AheadInv
  BY DEF Held!AheadInv, V!AheadInv, Held!DiskNeverAhead, V!DiskNeverAhead, Held!ExitRow,
      V!ExitRow, Held!Over, V!Over, Held!AllDone, V!AllDone, Held!AllTasksTerminal,
      V!AllTasksTerminal, Held!Unreaped, V!Unreaped
<1> QED BY <1>1, <1>2

\* V shares every variable with the supervisor but the processes.
LEMMA SharedOperators ==
    /\ V!Spent = Spent /\ V!OverGlobal = OverGlobal /\ V!AtLimit = AtLimit
    /\ V!GetReadyTasks = GetReadyTasks /\ V!TaskRow = TaskRow
    /\ V!AllTasksTerminal = AllTasksTerminal /\ V!FinalStatus = FinalStatus
    /\ V!StuckVerdicts = StuckVerdicts
    /\ \A w, S : V!IsFirst(w, S) <=> IsFirst(w, S)
    /\ \A t, S : V!DispatchedFirst(t, S) <=> DispatchedFirst(t, S)
    /\ \A w : V!Drained(w) = Drained(w)
<1>1. V!Spent = Spent /\ V!OverGlobal = OverGlobal
  BY SameCardinality DEF V!Spent, Spent, V!Credited, Credited, V!OverGlobal, OverGlobal
<1>2. V!AtLimit = AtLimit /\ V!StuckVerdicts = StuckVerdicts
  BY SameCardinality DEF V!AtLimit, AtLimit, V!StuckVerdicts, StuckVerdicts
<1>3. V!GetReadyTasks = GetReadyTasks /\ V!TaskRow = TaskRow
  BY DEF V!GetReadyTasks, GetReadyTasks, V!TaskRow, TaskRow, V!NoWorker, NoWorker
<1>4. V!AllTasksTerminal = AllTasksTerminal /\ V!FinalStatus = FinalStatus
  BY DEF V!AllTasksTerminal, AllTasksTerminal, V!FinalStatus, FinalStatus, V!AllDone,
      AllDone
<1>5. \A w, t, S : /\ V!IsFirst(w, S) <=> IsFirst(w, S)
                   /\ V!DispatchedFirst(t, S) <=> DispatchedFirst(t, S)
                   /\ V!Drained(w) = Drained(w)
  BY DEF V!IsFirst, IsFirst, V!DispatchedFirst, DispatchedFirst, V!Drained, Drained
<1> QED BY <1>1, <1>2, <1>3, <1>4, <1>5

\* Each step of the supervisor and its surroundings is one of V, unless it is the end
\* of a process without a handle.
LEMMA ViewStep ==
    ASSUME LostInv, V!IInv, [Next]_vars, UNCHANGED lost
    PROVE  [V!Next]_(V!vars) \/ \E w \in lost : WorkerExits(w)
<1> V!TypeOK /\ V!HandlesInv /\ V!LoopInv BY DEF V!IInv
<1> USE SharedOperators
    DEF vars, loopVars, taskVars, mapVars, haltVars, procVars, diskVars, V!loopVars,
        V!taskVars, V!mapVars, V!haltVars, V!procVars, V!diskVars, V!NoWorker, NoWorker
<1>0. /\ UNCHANGED proc => UNCHANGED HeldProc
      /\ \A w \in Worker \ lost : HeldProc[w] = proc[w]
      /\ \A w \in Worker \ lost : HeldProc'[w] = proc'[w]
      /\ \A w \in lost : HeldProc[w] = "reaped"
      /\ active \cap lost = {} /\ active \subseteq Worker
  BY DEF HeldProc, LostInv, V!TypeOK
<1>a. ASSUME NEW S, S \subseteq active, Reap(S) PROVE V!Reap(S)
  BY <1>0, <1>a DEF Reap, V!Reap, HeldProc, LostInv
<1>1. ASSUME Start PROVE V!Start
  BY <1>0, <1>1 DEF Start, V!Start, Written, V!Written
<1>2. ASSUME Finalize PROVE V!Finalize
  BY <1>0, <1>2 DEF Finalize, V!Finalize, Written, V!Written
<1>3. ASSUME BeginSpawning PROVE V!BeginSpawning
  BY <1>0, <1>3 DEF BeginSpawning, V!BeginSpawning
<1>4. ASSUME NEW t \in Task, NEW w \in Worker, SpawnWorker(t, w)
      PROVE  V!SpawnWorker(t, w)
  <2>1. w \in Worker \ lost /\ proc[w] = "unborn"
    BY <1>4 DEF SpawnWorker, IsFirst, LostInv
  <2>2. {v \in Worker : HeldProc[v] = "unborn"} = {v \in Worker : proc[v] = "unborn"}
    BY <1>0 DEF LostInv
  <2>3. HeldProc' = [HeldProc EXCEPT ![w] = "live"]
    BY <1>0, <1>4, <2>1 DEF SpawnWorker, HeldProc, LostInv
  <2> QED BY <1>4, <2>2, <2>3 DEF SpawnWorker, V!SpawnWorker
<1>5. ASSUME NEW t \in Task, SpawnFails(t)
      PROVE  V!SpawnFails(t)
  BY <1>0, <1>5 DEF SpawnFails, V!SpawnFails, MaybeRetryTask, V!MaybeRetryTask
<1>6. ASSUME WriteSpawnedWorker PROVE V!WriteSpawnedWorker
  BY <1>0, <1>6 DEF WriteSpawnedWorker, V!WriteSpawnedWorker, Written, V!Written
<1>7. ASSUME WriteSpawnedTask PROVE V!WriteSpawnedTask
  BY <1>0, <1>7 DEF WriteSpawnedTask, V!WriteSpawnedTask, Written, V!Written
<1>8. ASSUME BeginPolling PROVE V!BeginPolling
  BY <1>0, <1>8 DEF BeginPolling, V!BeginPolling
<1>9. ASSUME NEW w \in Worker, PollOnce(w)
      PROVE  V!PollOnce(w)
  <2>1. /\ V!OverGlobal' = OverGlobal' /\ V!OverWorker(w)' = OverWorker(w)'
        /\ HeldProc' = HeldProc
    BY <1>0, <1>9, SameCardinality
       DEF PollOnce, V!OverGlobal, OverGlobal, V!Spent, Spent, V!Credited, Credited,
           V!OverWorker, OverWorker
  <2>2. \A over : V!EscalateIf(w, over) <=> EscalateIf(w, over)
    BY DEF V!EscalateIf, EscalateIf
  <2> QED BY <1>9, <2>1, <2>2 DEF PollOnce, V!PollOnce
<1>10. ASSUME CheckWorker PROVE V!CheckWorker
  <2>1. cur \in Worker \ lost
    BY <1>0, <1>10 DEF CheckWorker, V!LoopInv
  <2>2. V!SupervisorEscalates <=> SupervisorEscalates
    BY DEF V!SupervisorEscalates, SupervisorEscalates, V!EscalateIf, EscalateIf
  <2>3. CASE proc[cur] = "live" /\ UNCHANGED proc
    BY <1>0, <1>10, <2>1, <2>2, <2>3 DEF CheckWorker, V!CheckWorker
  <2>4. CASE proc[cur] = "exited" /\ proc' = [proc EXCEPT ![cur] = "reaped"]
    <3>1. HeldProc' = [HeldProc EXCEPT ![cur] = "reaped"]
      BY <2>1, <2>4 DEF HeldProc, LostInv
    <3> QED BY <1>0, <1>10, <2>1, <2>2, <2>4, <3>1 DEF CheckWorker, V!CheckWorker
  <2> QED BY <1>10, <2>3, <2>4 DEF CheckWorker
<1>11. ASSUME EndPolling PROVE V!EndPolling
  BY <1>0, <1>11 DEF EndPolling, V!EndPolling
<1>12. ASSUME NEW w \in Worker, ProcessWorkerExit(w)
      PROVE  V!ProcessWorkerExit(w)
  BY <1>0, <1>12
     DEF ProcessWorkerExit, V!ProcessWorkerExit, MaybeRetryTask, V!MaybeRetryTask,
         Unmapped, V!Unmapped
<1>13. ASSUME WriteExitTask PROVE V!WriteExitTask
  BY <1>0, <1>13 DEF WriteExitTask, V!WriteExitTask, Written, V!Written
<1>14. ASSUME WriteExitWorker PROVE V!WriteExitWorker
  BY <1>0, <1>14 DEF WriteExitWorker, V!WriteExitWorker, Written, V!Written
<1>15. ASSUME WriteExitCost PROVE V!WriteExitCost
  BY <1>0, <1>15 DEF WriteExitCost, V!WriteExitCost, Written, V!Written
<1>16. ASSUME Sleep PROVE V!Sleep
  BY <1>0, <1>16 DEF Sleep, V!Sleep
<1>17. ASSUME BeginHalt PROVE V!BeginHalt
  BY <1>0, <1>17 DEF BeginHalt, V!BeginHalt, Written, V!Written
<1>18. ASSUME HaltInterrupt PROVE V!HaltInterrupt
  BY <1>0, <1>18 DEF HaltInterrupt, V!HaltInterrupt, Signal, V!Signal
<1>19. ASSUME HaltWait PROVE V!HaltWait
  <2> DEFINE dead == {w \in active : \A v \in active : v <= w => proc[v] # "live"}
  <2>1. dead = {w \in active : \A v \in active : v <= w => HeldProc[v] # "live"}
    BY <1>0
  <2>2. Reap(dead) => V!Reap(dead)
    BY <1>a
  <2> HIDE DEF dead
  <2>3. HaltWait <=>
          /\ pc = "haltWait" /\ Reap(dead)
          /\ pc' \in IF dead = active THEN {"haltTerminate"} ELSE {pc, "haltTerminate"}
          /\ UNCHANGED <<loopVars, taskVars, mapVars, haltVars, taskOf, rc, result, sig,
                         diskVars>>
    BY DEF HaltWait, dead
  <2> QED BY <1>19, <2>1, <2>2, <2>3 DEF V!HaltWait
<1>20. ASSUME HaltTerminate PROVE V!HaltTerminate
  <2>1. V!StillAlive = StillAlive
    BY <1>0 DEF V!StillAlive, StillAlive
  <2>2. Reap(active) => V!Reap(active)
    BY <1>a
  <2> QED
    BY <1>20, <2>1, <2>2 DEF HaltTerminate, V!HaltTerminate, Signal, V!Signal
<1>21. ASSUME NEW w \in Worker, HaltClose(w)
      PROVE  V!HaltClose(w)
  <2>1. w \in active
    BY <1>21 DEF HaltClose, IsFirst
  <2>2. V!CloseReturns(w) <=> CloseReturns(w)
    BY <1>0, <2>1 DEF V!CloseReturns, CloseReturns
  <2>3. Reap({w}) => V!Reap({w})
    BY <1>a, <2>1
  <2> QED BY <1>21, <2>2, <2>3 DEF HaltClose, V!HaltClose
<1>22. ASSUME EndHalt PROVE V!EndHalt
  BY <1>0, <1>22 DEF EndHalt, V!EndHalt, Written, V!Written
<1>23. ASSUME Return PROVE V!Return
  BY <1>0, <1>23 DEF Return, V!Return
<1>24. ASSUME NEW s \in Signals, HandleSignal(s)
      PROVE  V!HandleSignal(s)
  BY <1>0, <1>24 DEF HandleSignal, V!HandleSignal, Stopped, V!Stopped
<1>25. ASSUME NEW w \in Worker, WorkerReports(w)
      PROVE  V!WorkerReports(w)
  <2>1. w \notin lost
    BY <1>25 DEF WorkerReports, LostInv
  <2> QED BY <1>0, <1>25, <2>1 DEF WorkerReports, V!WorkerReports
<1>26. ASSUME NEW w \in Worker, WorkerExits(w), w \notin lost
      PROVE  V!WorkerExits(w)
  <2>1. HeldProc' = [HeldProc EXCEPT ![w] = "exited"]
    BY <1>26 DEF WorkerExits, HeldProc, LostInv
  <2> QED BY <1>0, <1>26, <2>1 DEF WorkerExits, V!WorkerExits
<1>27. ASSUME NEW t \in Task, BackoffElapses(t)
      PROVE  V!BackoffElapses(t)
  BY <1>0, <1>27 DEF BackoffElapses, V!BackoffElapses
<1>28. ASSUME Die PROVE V!Die
  BY <1>0, <1>28 DEF Die, V!Die, Stopped, V!Stopped
<1>29. ASSUME UNCHANGED vars PROVE UNCHANGED V!vars
  BY <1>0, <1>29 DEF V!vars
<1> QED
  BY <1>1, <1>2, <1>3, <1>4, <1>5, <1>6, <1>7, <1>8, <1>9, <1>10, <1>11, <1>12,
     <1>13, <1>14, <1>15, <1>16, <1>17, <1>18, <1>19, <1>20, <1>21, <1>22, <1>23,
     <1>24, <1>25, <1>26, <1>27, <1>28, <1>29
  DEF Next, Supervisor, SpawnStep, Environment, Terminated, V!Next, V!Supervisor,
      V!SpawnStep, V!Environment

\* A step that changes nothing but return codes, the record and the signals, which it
\* does not take back, keeps the invariant of V, if it keeps the types.
LEMMA ViewKept ==
    ASSUME V!IInv, V!TypeOK', UNCHANGED HeldProc, \A v \in Worker : sig[v] <= sig'[v],
           UNCHANGED <<pc, loopVars, taskVars, mapVars, haltVars, taskOf, result>>
    PROVE  V!IInv'
<1> USE DEF loopVars, taskVars, mapVars, haltVars
<1>1. V!ReadyInv' /\ V!HandlesInv' /\ V!DepsDoneBeforeRun'
  BY DEF V!IInv, V!ReadyInv, V!HandlesInv, V!DepsDoneBeforeRun
<1>2. V!LoopInv'
  BY DEF V!IInv, V!LoopInv
<1>3. V!LimitInv' /\ V!ExitInv'
  BY DEF V!IInv, V!LimitInv, V!ExitInv, V!AllTasksTerminal
<1>4. V!AttemptsInv'
  BY DEF V!IInv, V!AttemptsInv, V!Covers, V!Attempts
<1>5. V!WaitInv'
  <2>1. sig \in [Worker -> 0 .. 3] /\ sig' \in [Worker -> 0 .. 3] /\ active \subseteq Worker
    BY DEF V!IInv, V!TypeOK
  <2>2. \A w \in active : sig[w] >= 2 => sig'[w] >= 2
    BY <2>1
  <2> QED BY <2>2 DEF V!IInv, V!WaitInv
<1> QED BY <1>1, <1>2, <1>3, <1>4, <1>5 DEF V!IInv

\* The invariant of V and what V says of the record, in a step of the supervisor.
LEMMA ViewInvStep ==
    ASSUME LostInv, RowsInv, V!IInv, V!AheadInv, [Next]_vars, UNCHANGED lost
    PROVE  V!IInv' /\ V!AheadInv'
<1>1. CASE [V!Next]_(V!vars)
  BY <1>1, V!InvStep, V!AheadInitStep, ViewAssumptions, PlanAssumption, ConfigAssumption
<1>2. ASSUME NEW w \in lost, WorkerExits(w) PROVE V!IInv' /\ V!AheadInv'
  <2> USE DEF loopVars, taskVars, mapVars, haltVars, procVars, diskVars
  <2>1. /\ UNCHANGED HeldProc
        /\ UNCHANGED <<pc, loopVars, taskVars, mapVars, haltVars, taskOf, result, sig,
                       diskVars>>
        /\ w \in Worker /\ rc' \in [Worker -> {0, 1}] /\ \A v \in Worker \ {w} : rc'[v] = rc[v]
    BY <1>2 DEF WorkerExits, HeldProc, LostInv, V!IInv, V!TypeOK
  <2>2. V!TypeOK'
    BY <2>1 DEF V!IInv, V!TypeOK
  <2>3. diskWorker[w] = "absent"
    BY <2>1, <1>2 DEF RowsInv
  <2>4. V!AheadInv'
    BY <2>1, <2>3
    DEF V!AheadInv, V!DiskNeverAhead, V!AllDone, V!AllTasksTerminal, V!Unreaped, V!Over,
        V!ExitRow
  <2>5. \A v \in Worker : sig[v] <= sig'[v]
    BY <2>1 DEF V!IInv, V!TypeOK
  <2> QED BY <2>1, <2>2, <2>4, <2>5, ViewKept
<1> QED BY <1>1, <1>2, ViewStep

\* What a handle that is not made does to V: a worker ends that V never saw start.
LEMMA LostFacts ==
    ASSUME LostInv, V!IInv, NEW t \in Task, NEW w \in Worker, SpawnLosesHandle(t, w)
    PROVE  /\ status[t] = "pending" /\ \A d \in DependsOn[t] : status[d] = "done"
           /\ proc[w] = "unborn" /\ w \notin lost \cup active /\ taskOf[w] = NoTask
           /\ HeldProc' = [HeldProc EXCEPT ![w] = "reaped"]
           /\ HeldProc[w] = "unborn" /\ t # NoTask
           /\ MaybeRetryTask(t) /\ pc = "spawn"
<1>1. t \in ready /\ MaybeRetryTask(t) /\ pc = "spawn"
  BY DEF SpawnLosesHandle, DispatchedFirst, AfterOSError
<1>2. status[t] = "pending" /\ \A d \in DependsOn[t] : status[d] = "done"
  BY <1>1 DEF V!IInv, V!ReadyInv
<1>3. proc[w] = "unborn" /\ w \notin lost
  BY DEF SpawnLosesHandle, IsFirst, LostInv
<1>4. HeldProc[w] = "unborn"
  BY <1>3 DEF HeldProc
<1>5. taskOf[w] = NoTask /\ t # NoTask /\ w \notin active
  BY <1>4, PlanFacts DEF V!IInv, V!HandlesInv, NoTask, V!NoTask
<1>6. HeldProc' = [HeldProc EXCEPT ![w] = "reaped"]
  BY <1>3 DEF SpawnLosesHandle, HeldProc, LostInv
<1> QED BY <1>1, <1>2, <1>3, <1>4, <1>5, <1>6

\* It keeps the account of the workers each task was given: the one that got lost is
\* paid for like any other that failed.
LEMMA LostAttempts ==
    ASSUME LostInv, V!IInv, NEW t \in Task, NEW w \in Worker, SpawnLosesHandle(t, w)
    PROVE  V!AttemptsInv'
<1> SUFFICES ASSUME NEW u \in Task
             PROVE  V!Covers(retries[u], u)' /\ V!Covers(MaxRetries[u], u)'
  BY DEF V!AttemptsInv
<1> DEFINE n == Cardinality(Attempts(u))
           m == Cardinality(Attempts(u)')
<1>0. V!TypeOK
  BY DEF V!IInv
<1>1. /\ retries[u] \in Nat /\ MaxRetries[u] \in Nat
      /\ n \in Nat
  BY <1>0, PlanFacts, AttemptsFinite DEF V!TypeOK
<1>2. /\ V!Covers(retries[u], u) /\ V!Covers(MaxRetries[u], u)
      /\ \A k : V!Covers(k, u) <=>
            n <= k \/ (status[u] \in {"running", "done", "terminal"} /\ n <= k + 1)
  BY SameCardinality DEF V!IInv, V!AttemptsInv, V!Covers, V!Attempts, Attempts
<1>3. /\ V!Covers(retries[u], u)' <=>
            m <= retries'[u] \/ (status'[u] \in {"running", "done", "terminal"} /\ m <= retries'[u] + 1)
      /\ V!Covers(MaxRetries[u], u)' <=>
            m <= MaxRetries[u] \/ (status'[u] \in {"running", "done", "terminal"} /\ m <= MaxRetries[u] + 1)
  BY SameCardinality DEF V!Covers, V!Attempts, Attempts
<1>4. taskOf' = [taskOf EXCEPT ![w] = t]
  BY DEF SpawnLosesHandle
<1>5. CASE u # t
  <2>1. Attempts(u)' = Attempts(u)
    BY <1>0, <1>4, <1>5, LostFacts, PlanFacts DEF Attempts, V!TypeOK, NoTask
  <2>2. status'[u] = status[u] /\ retries'[u] = retries[u]
    BY <1>0, <1>5, LostFacts DEF MaybeRetryTask, V!TypeOK
  <2> QED BY <1>2, <1>3, <2>1, <2>2
<1>6. CASE u = t
  <2>1. Attempts(u)' = Attempts(u) \cup {w}
    BY <1>0, <1>4, <1>6 DEF Attempts, V!TypeOK
  <2>2. m <= n + 1 /\ m \in Nat
    BY <2>1, AttemptsFinite, AddElement
  <2>3. n <= retries[u] /\ n <= MaxRetries[u]
    BY <1>2, <1>6, LostFacts
  <2>4. CASE /\ retries[u] < MaxRetries[u] /\ retries'[u] = retries[u] + 1
    <3> HIDE DEF n, m
    <3>1. m <= retries'[u] /\ m <= MaxRetries[u]
      BY <1>1, <2>2, <2>3, <2>4
    <3> QED BY <1>3, <3>1
  <2>5. CASE retries'[u] = retries[u] /\ status'[u] = "terminal"
    <3> HIDE DEF n, m
    <3>1. m <= retries'[u] + 1 /\ m <= MaxRetries[u] + 1
      BY <1>1, <2>2, <2>3, <2>5
    <3> QED BY <1>3, <2>5, <3>1
  <2> QED BY <1>0, <1>6, <2>4, <2>5, LostFacts DEF MaybeRetryTask, V!TypeOK
<1> QED BY <1>5, <1>6

\* It keeps the invariant of V and what V says of the record.
LEMMA LostKeepsView ==
    ASSUME LostInv, V!IInv, V!AheadInv, NEW t \in Task, NEW w \in Worker,
           SpawnLosesHandle(t, w)
    PROVE  V!IInv' /\ V!AheadInv'
<1> V!TypeOK /\ V!ReadyInv /\ V!HandlesInv /\ V!LoopInv /\ V!ExitInv BY DEF V!IInv
<1> USE DEF V!TypeOK, V!NoTask, NoTask, V!TaskStatus
<1>0. /\ status[t] = "pending" /\ \A d \in DependsOn[t] : status[d] = "done"
      /\ proc[w] = "unborn" /\ w \notin lost \cup active /\ taskOf[w] = NoTask
      /\ HeldProc' = [HeldProc EXCEPT ![w] = "reaped"]
      /\ HeldProc[w] = "unborn" /\ t # NoTask
      /\ pc = "spawn"
  BY LostFacts
<1>a. /\ UNCHANGED <<pc, toPoll, completed, cur, active, taskWorker, haltEvent, signalled,
                     rc, sig, diskRun, diskTask, diskWorker, diskUsd>>
      /\ ready' = ready \ {t}
      /\ taskOf' = [taskOf EXCEPT ![w] = t]
      /\ result' = [result EXCEPT ![w] = "drained"]
  BY DEF SpawnLosesHandle, mapVars, diskVars
<1>b. \/ /\ status' = status /\ exitCode' = exitCode
         /\ retries' = [retries EXCEPT ![t] = @ + 1] /\ cooling' = cooling \cup {t}
      \/ /\ status' = [status EXCEPT ![t] = "terminal"] /\ exitCode' = 1
         /\ UNCHANGED <<retries, cooling>>
  <2>1. MaybeRetryTask(t)
    BY LostFacts
  <2>2. [status EXCEPT ![t] = "pending"] = status
    BY <1>0
  <2> QED BY <2>1, <2>2 DEF MaybeRetryTask
<1>c. /\ \A u \in Task : DependsOn[u] \subseteq Task
      /\ \A u \in Task : status[u] = "done" => status'[u] = "done"
      /\ \A u \in Task \ {t} : status'[u] = status[u]
  BY <1>0, <1>b, PlanFacts
<1>1. V!TypeOK'
  BY <1>0, <1>a, <1>b
<1>2. V!ReadyInv'
  BY <1>a, <1>c DEF V!ReadyInv, V!SpawnPlace
<1>3. V!HandlesInv'
  BY <1>0, <1>a, <1>b DEF V!HandlesInv
<1>4. V!LoopInv'
  BY <1>0, <1>a DEF V!LoopInv, V!PollPlace, V!ExitPlace, V!Stopped
<1>5. V!DepsDoneBeforeRun'
  <2> SUFFICES ASSUME NEW v \in Worker, taskOf'[v] # NoTask, NEW d \in DependsOn[taskOf'[v]]
               PROVE  status'[d] = "done"
    BY DEF V!DepsDoneBeforeRun
  <2>1. CASE v = w
    BY <1>0, <1>a, <1>c, <2>1
  <2>2. CASE v # w
    <3>1. taskOf'[v] = taskOf[v] /\ taskOf[v] \in Task
      BY <1>a, <2>2
    <3>2. status[d] = "done"
      BY <3>1 DEF V!IInv, V!DepsDoneBeforeRun
    <3> QED BY <1>c, <3>1, <3>2
  <2> QED BY <2>1, <2>2
<1>6. V!LimitInv'
  BY <1>a DEF V!IInv, V!LimitInv
<1>7. V!AttemptsInv'
  BY LostAttempts
<1>8. V!ExitInv'
  BY <1>0, <1>a, <1>b DEF V!ExitInv, V!AllTasksTerminal, V!Halting
<1>9. V!AheadInv'
  BY <1>0, <1>a, <1>b DEF V!AheadInv, V!DiskNeverAhead, V!ExitRow, V!Over
<1>10. V!WaitInv'
  BY <1>0, <1>a DEF V!IInv, V!WaitInv, V!NoWorker, V!Halting, V!Stopped
<1> QED BY <1>1, <1>2, <1>3, <1>4, <1>5, <1>6, <1>7, <1>8, <1>9, <1>10 DEF V!IInv

-----------------------------------------------------------------------------
(* What a step of the supervisor and its surroundings may do to the processes,
   the rows and the tasks. *)

\* A process comes to life when it is given a handle, and then only ages: it is waited
\* for only by way of its handle, and the signals sent to it are not taken back.
ProcessesAge ==
    /\ proc' \in [Worker -> {"unborn", "live", "exited", "reaped"}]
    /\ sig' \in [Worker -> 0 .. 3]
    /\ \A v \in Worker :
          /\ proc[v] = "unborn" => \/ proc'[v] = "unborn"
                                   \/ cur' = v /\ pc' = "spawnWorkerRow"
          /\ proc[v] # "unborn" => proc'[v] # "unborn"
          /\ proc[v] \in {"exited", "reaped"} =>
                proc'[v] \in {"exited", "reaped"} /\ rc'[v] = rc[v]
          /\ proc[v] = "reaped" => proc'[v] = "reaped"
          /\ proc'[v] = "reaped" => proc[v] = "reaped" \/ v \in active
          /\ sig[v] <= sig'[v]
          /\ result[v] = "drained" => result'[v] = "drained"

LEMMA AgeStep == ASSUME LostInv, V!IInv, [Next]_vars PROVE ProcessesAge
<1> V!TypeOK /\ V!LoopInv BY DEF V!IInv
<1> USE DEF ProcessesAge, LostInv, V!TypeOK, loopVars, procVars
<1>1. CASE Start
  BY <1>1 DEF Start
<1>2. CASE Finalize
  BY <1>2 DEF Finalize
<1>3. CASE BeginSpawning
  BY <1>3 DEF BeginSpawning
<1>4. ASSUME NEW t \in Task, NEW w \in Worker, SpawnWorker(t, w) PROVE ProcessesAge
  BY <1>4 DEF SpawnWorker, IsFirst
<1>5. ASSUME NEW t \in Task, SpawnFails(t) PROVE ProcessesAge
  BY <1>5 DEF SpawnFails
<1>6. CASE WriteSpawnedWorker
  BY <1>6 DEF WriteSpawnedWorker
<1>7. CASE WriteSpawnedTask
  BY <1>7 DEF WriteSpawnedTask
<1>8. CASE BeginPolling
  BY <1>8 DEF BeginPolling
<1>9. ASSUME NEW w \in Worker, PollOnce(w) PROVE ProcessesAge
  BY <1>9 DEF PollOnce, IsFirst, EscalateIf
<1>10. CASE CheckWorker
  BY <1>10 DEF CheckWorker, SupervisorEscalates, EscalateIf, V!LoopInv
<1>11. CASE EndPolling
  BY <1>11 DEF EndPolling
<1>12. ASSUME NEW w \in Worker, ProcessWorkerExit(w) PROVE ProcessesAge
  BY <1>12 DEF ProcessWorkerExit, Drained
<1>13. CASE WriteExitTask
  BY <1>13 DEF WriteExitTask
<1>14. CASE WriteExitWorker
  BY <1>14 DEF WriteExitWorker
<1>15. CASE WriteExitCost
  BY <1>15 DEF WriteExitCost
<1>16. CASE Sleep
  BY <1>16 DEF Sleep
<1>17. CASE BeginHalt
  BY <1>17 DEF BeginHalt
<1>18. CASE HaltInterrupt
  BY <1>18 DEF HaltInterrupt, Signal
<1>19. CASE HaltWait
  BY <1>19 DEF HaltWait, Reap
<1>20. CASE HaltTerminate
  BY <1>20 DEF HaltTerminate, Reap, Signal, StillAlive
<1>21. ASSUME NEW w \in Worker, HaltClose(w) PROVE ProcessesAge
  BY <1>21 DEF HaltClose, Reap, IsFirst, Drained
<1>22. CASE EndHalt
  BY <1>22 DEF EndHalt
<1>23. CASE Return
  BY <1>23 DEF Return
<1>24. ASSUME NEW s \in Signals, HandleSignal(s) PROVE ProcessesAge
  BY <1>24 DEF HandleSignal
<1>25. ASSUME NEW w \in Worker, WorkerReports(w) PROVE ProcessesAge
  BY <1>25 DEF WorkerReports
<1>26. ASSUME NEW w \in Worker, WorkerExits(w) PROVE ProcessesAge
  BY <1>26 DEF WorkerExits
<1>27. ASSUME NEW t \in Task, BackoffElapses(t) PROVE ProcessesAge
  BY <1>27 DEF BackoffElapses
<1>28. CASE Die
  BY <1>28 DEF Die
<1>29. CASE UNCHANGED vars
  BY <1>29 DEF vars
<1> QED
  BY <1>1, <1>2, <1>3, <1>4, <1>5, <1>6, <1>7, <1>8, <1>9, <1>10, <1>11, <1>12,
     <1>13, <1>14, <1>15, <1>16, <1>17, <1>18, <1>19, <1>20, <1>21, <1>22, <1>23,
     <1>24, <1>25, <1>26, <1>27, <1>28, <1>29
  DEF Next, Supervisor, SpawnStep, Environment, Terminated

\* Only the updates after a spawn and after an exit write the row of a worker.
LEMMA OnlyTwoWriteRows ==
    ASSUME [Next]_vars
    PROVE  UNCHANGED diskWorker \/ WriteSpawnedWorker \/ WriteExitWorker
  BY DEF Next, Supervisor, SpawnStep, Environment, Terminated, vars, diskVars, Start,
      Finalize, BeginSpawning, SpawnWorker, SpawnFails, WriteSpawnedTask, BeginPolling,
      PollOnce, CheckWorker, EndPolling, ProcessWorkerExit, WriteExitTask, WriteExitCost,
      Sleep, BeginHalt, HaltInterrupt, HaltWait, HaltTerminate, HaltClose, EndHalt,
      Return, HandleSignal, WorkerReports, WorkerExits, BackoffElapses, Die

\* The worker whose row comes next was given a handle, or its exit is processed.
LEMMA RowPlaces ==
    ASSUME [Next]_vars, pc' \in {"spawnWorkerRow"} \cup ExitRow
    PROVE  \/ \E t \in Task, w \in Worker : SpawnWorker(t, w)
           \/ \E w \in Worker : ProcessWorkerExit(w)
           \/ pc \in {"spawnWorkerRow"} \cup ExitRow /\ cur' = cur
  BY DEF Next, Supervisor, SpawnStep, Environment, Terminated, vars, loopVars, Start,
      Finalize, BeginSpawning, SpawnFails, WriteSpawnedWorker, WriteSpawnedTask,
      BeginPolling, PollOnce, CheckWorker, EndPolling, WriteExitTask, WriteExitWorker,
      WriteExitCost, Sleep, BeginHalt, HaltInterrupt, HaltWait, HaltTerminate, HaltClose,
      EndHalt, Return, HandleSignal, WorkerReports, WorkerExits, BackoffElapses, Die,
      ExitRow

\* The supervisor leaves the place where it writes a new row by writing it, or dies.
LEMMA RowAwaits ==
    ASSUME [Next]_vars, pc \in {"spawnWorkerRow", "dead"}
    PROVE  \/ WriteSpawnedWorker
           \/ UNCHANGED cur /\ pc' \in {pc, "dead"}
  BY DEF Next, Supervisor, SpawnStep, Environment, Terminated, vars, loopVars, Start,
      Finalize, BeginSpawning, SpawnWorker, SpawnFails, WriteSpawnedTask, BeginPolling,
      PollOnce, CheckWorker, EndPolling, ProcessWorkerExit, WriteExitTask,
      WriteExitWorker, WriteExitCost, Sleep, BeginHalt, HaltInterrupt, HaltWait,
      HaltTerminate, HaltClose, EndHalt, Return, HandleSignal, WorkerReports,
      WorkerExits, BackoffElapses, Die

\* What V knows of the tasks at hand, in the names of Orchestrator.
LEMMA ViewReady ==
    ASSUME V!IInv
    PROVE  /\ \A t \in ready : /\ t \in Task /\ status[t] = "pending"
                               /\ \A d \in DependsOn[t] : status[d] = "done"
           /\ \A w \in Worker : ProcessWorkerExit(w) =>
                 /\ w \in active /\ taskOf[w] \in Task /\ status[taskOf[w]] = "running"
                 /\ \A d \in DependsOn[taskOf[w]] : status[d] = "done"
<1>1. \A t \in ready : /\ t \in Task /\ status[t] = "pending"
                       /\ \A d \in DependsOn[t] : status[d] = "done"
  BY DEF V!IInv, V!TypeOK, V!ReadyInv
<1>2. ASSUME NEW w \in Worker, ProcessWorkerExit(w)
      PROVE  /\ w \in active /\ taskOf[w] \in Task /\ status[taskOf[w]] = "running"
             /\ \A d \in DependsOn[taskOf[w]] : status[d] = "done"
  <2>1. w \in active
    BY <1>2 DEF ProcessWorkerExit, IsFirst, V!IInv, V!LoopInv
  <2>2. taskOf[w] \in Task /\ status[taskOf[w]] = "running"
    BY <2>1 DEF V!IInv, V!HandlesInv
  <2>3. taskOf[w] # V!NoTask
    BY <2>2, PlanFacts DEF V!NoTask
  <2> QED BY <2>1, <2>2, <2>3 DEF V!IInv, V!DepsDoneBeforeRun
<1> QED BY <1>1, <1>2

\* What is done or given up stays so.
LEMMA EndsStay ==
    ASSUME V!IInv, [Next]_vars, NEW u \in Task, status[u] \in {"done", "terminal"}
    PROVE  status'[u] = status[u]
<1> V!TypeOK BY DEF V!IInv
<1>1. ASSUME NEW t \in Task, NEW w \in Worker, SpawnWorker(t, w) PROVE status'[u] = status[u]
  BY <1>1, ViewReady DEF SpawnWorker, DispatchedFirst, V!TypeOK
<1>2. ASSUME NEW t \in Task, SpawnFails(t) PROVE status'[u] = status[u]
  <2>1. t # u
    BY <1>2, ViewReady DEF SpawnFails, DispatchedFirst
  <2> QED BY <1>2, <2>1 DEF SpawnFails, MaybeRetryTask, V!TypeOK
<1>3. ASSUME NEW w \in Worker, ProcessWorkerExit(w) PROVE status'[u] = status[u]
  <2>1. taskOf[w] # u
    BY <1>3, ViewReady
  <2> QED BY <1>3, <2>1 DEF ProcessWorkerExit, MaybeRetryTask, V!TypeOK
<1> QED BY <1>1, <1>2, <1>3, OnlyThreeTouchTasks

-----------------------------------------------------------------------------
(* A step of the supervisor or its surroundings keeps the invariant. *)

LEMMA LostStep ==
    ASSUME LostInv, V!IInv, [Next]_vars, UNCHANGED lost PROVE LostInv'
<1>1. ProcessesAge
  BY AgeStep
<1>2. active' \cap lost = {}
  <2>1. CASE active' \subseteq active
    BY <2>1 DEF LostInv
  <2>2. ASSUME NEW t \in Task, NEW w \in Worker, SpawnWorker(t, w)
        PROVE  active' \cap lost = {}
    BY <2>2 DEF SpawnWorker, IsFirst, LostInv
  <2> QED BY <2>1, <2>2, OnlySpawnAddsHandles
<1> QED BY <1>1, <1>2 DEF LostInv, ProcessesAge

LEMMA RowsStep ==
    ASSUME LostInv, RowsInv, V!IInv, [Next]_vars, UNCHANGED lost PROVE RowsInv'
<1>1. ProcessesAge
  BY AgeStep
<1>2. ASSUME pc' \in {"spawnWorkerRow"} \cup ExitRow
      PROVE  cur' \in Worker \ lost /\ proc'[cur'] # "unborn"
  <2>1. ASSUME NEW t \in Task, NEW w \in Worker, SpawnWorker(t, w)
        PROVE  cur' \in Worker \ lost /\ proc'[cur'] # "unborn"
    BY <2>1 DEF SpawnWorker, IsFirst, LostInv
  <2>2. ASSUME NEW w \in Worker, ProcessWorkerExit(w)
        PROVE  cur' \in Worker \ lost /\ proc'[cur'] # "unborn"
    <3>1. w \in active /\ taskOf[w] \in Task /\ cur' = w
      BY <2>2, ViewReady DEF ProcessWorkerExit
    <3>2. w \notin lost /\ HeldProc[w] = proc[w]
      BY <3>1 DEF LostInv, HeldProc
    <3>3. proc[w] # "unborn"
      BY <3>1, <3>2, PlanFacts DEF V!IInv, V!HandlesInv, V!NoTask
    <3> QED BY <1>1, <3>1, <3>2, <3>3 DEF ProcessesAge
  <2>3. CASE pc \in {"spawnWorkerRow"} \cup ExitRow /\ cur' = cur
    BY <1>1, <2>3 DEF RowsInv, ProcessesAge
  <2> QED BY <1>2, <2>1, <2>2, <2>3, RowPlaces
<1>3. ASSUME NEW w \in Worker, w \in lost \/ proc'[w] = "unborn"
      PROVE  diskWorker'[w] = "absent"
  <2>1. diskWorker[w] = "absent" /\ (w \in lost \/ proc[w] = "unborn")
    BY <1>1, <1>3 DEF RowsInv, ProcessesAge
  <2>0. diskWorker \in [Worker -> {"absent", "running", "done", "failed"}]
    BY DEF V!IInv, V!TypeOK
  <2>2. CASE WriteSpawnedWorker
    <3>1. w # cur
      BY <2>1, <2>2 DEF WriteSpawnedWorker, RowsInv
    <3> QED BY <2>0, <2>1, <2>2, <3>1 DEF WriteSpawnedWorker, Written
  <2>3. CASE WriteExitWorker
    <3>1. w # cur
      BY <2>1, <2>3 DEF WriteExitWorker, RowsInv, ExitRow
    <3> QED BY <2>0, <2>1, <2>3, <3>1 DEF WriteExitWorker, Written
  <2> QED BY <2>1, <2>2, <2>3, OnlyTwoWriteRows
<1> QED BY <1>2, <1>3 DEF RowsInv

LEMMA UnrecordedStep ==
    ASSUME LostInv, UnrecordedInv, V!IInv, [Next]_vars, UNCHANGED <<lost, killPc>>
    PROVE  UnrecordedInv'
<1> SUFFICES ASSUME killPc = "start", ~UpdatesMayFail, NEW w \in Worker \ lost,
                    proc'[w] # "unborn", diskWorker'[w] = "absent"
             PROVE  cur' = w /\ pc' \in {"spawnWorkerRow", "dead"}
  BY DEF UnrecordedInv
<1>1. ProcessesAge
  BY AgeStep
<1>2. CASE proc[w] = "unborn"
  BY <1>1, <1>2 DEF ProcessesAge
<1>3. CASE proc[w] # "unborn"
  <2>1. diskWorker \in [Worker -> {"absent", "running", "done", "failed"}]
    BY DEF V!IInv, V!TypeOK
  <2>2. diskWorker[w] = "absent" /\ ~(WriteSpawnedWorker /\ cur = w)
    BY <2>1, OnlyTwoWriteRows DEF WriteSpawnedWorker, WriteExitWorker, Written
  <2>3. cur = w /\ pc \in {"spawnWorkerRow", "dead"}
    BY <1>3, <2>2 DEF UnrecordedInv
  <2> QED BY <2>2, <2>3, RowAwaits
<1> QED BY <1>2, <1>3

LEMMA CopyStep ==
    ASSUME LostInv, CopyInv, V!IInv, [Next]_vars, UNCHANGED <<lost, killVars>>
    PROVE  CopyInv'
<1>1. ProcessesAge
  BY AgeStep
<1>2. \A t \in Task : status[t] \in {"done", "terminal"} => status'[t] = status[t]
  BY EndsStay
<1> QED BY <1>1, <1>2 DEF CopyInv, ProcessesAge, killVars

LEMMA KillStep ==
    ASSUME LostInv, KillInv, V!IInv, [Next]_vars, UNCHANGED <<lost, killVars>>
    PROVE  KillInv'
<1>1. ProcessesAge
  BY AgeStep
<1>2. sig \in [Worker -> 0 .. 3] /\ sig' \in [Worker -> 0 .. 3]
  BY <1>1 DEF ProcessesAge, V!IInv, V!TypeOK
<1>3. killPc = "signal" => MissedByKill' \subseteq MissedByKill
  BY <1>1, <1>2 DEF KillInv, ProcessesAge, MissedByKill, killVars, LostInv, V!TypeOK
<1> QED BY <1>1, <1>3 DEF KillInv, ProcessesAge, killVars

-----------------------------------------------------------------------------
(* ConductorInv holds at the start and in every step. *)

\* Read in the names of V.
ViewInv == V!IInv /\ V!AheadInv

LEMMA ConductorParts ==
    ConductorInv <=> /\ ViewInv /\ LostInv /\ RowsInv
                     /\ UnrecordedInv /\ CopyInv /\ KillInv
  BY HeldIsView DEF ConductorInv, ViewInv

LEMMA ConductorInit == ASSUME CInit PROVE ConductorInv
<1>1. Init /\ lost = {} /\ killPc = "start" /\ killTodo = {} /\ killHit = FALSE /\ atRead = {}
  BY DEF CInit
<1>2. HeldProc = proc
  BY <1>1 DEF Init, HeldProc
<1>3. V!Init
  BY <1>1, <1>2 DEF Init, V!Init, V!NoWorker, NoWorker, V!NoTask, NoTask
<1>4. ViewInv
  BY <1>3, V!InvInit, V!AheadInitStep, ViewAssumptions, PlanAssumption, ConfigAssumption
  DEF ViewInv
<1>5. LostInv /\ RowsInv /\ UnrecordedInv
  BY <1>1 DEF Init, LostInv, RowsInv, UnrecordedInv, ExitRow
<1>6. CopyInv /\ KillInv
  BY <1>1 DEF CopyInv, KillInv
<1> QED BY <1>4, <1>5, <1>6, ConductorParts

\* The supervisor and what happens around it.
LEMMA SupervisorKeeps ==
    ASSUME ConductorInv, [Next]_vars, UNCHANGED <<lost, killVars>> PROVE ConductorInv'
<1>1. /\ ViewInv /\ LostInv /\ RowsInv
      /\ UnrecordedInv /\ CopyInv /\ KillInv
  BY ConductorParts
<1>2. ViewInv'
  BY <1>1, ViewInvStep DEF ViewInv
<1>3. LostInv' /\ RowsInv'
  BY <1>1, LostStep, RowsStep DEF ViewInv
<1>4. UnrecordedInv' /\ CopyInv' /\ KillInv'
  BY <1>1, UnrecordedStep, CopyStep, KillStep DEF ViewInv, killVars
<1> QED BY <1>2, <1>3, <1>4, ConductorParts, PTL

\* A handle that is not made.
LEMMA LostKeeps ==
    ASSUME ConductorInv, NEW t \in Task, NEW w \in Worker, SpawnLosesHandle(t, w)
    PROVE  ConductorInv'
<1>1. /\ ViewInv /\ LostInv /\ RowsInv
      /\ UnrecordedInv /\ CopyInv /\ KillInv
  BY ConductorParts
<1>2. /\ status[t] = "pending" /\ proc[w] = "unborn" /\ w \notin lost \cup active
      /\ MaybeRetryTask(t) /\ pc = "spawn"
  BY <1>1, LostFacts DEF ViewInv
<1>3. /\ UNCHANGED <<pc, cur, active, rc, sig, diskWorker, killVars>>
      /\ proc' = [proc EXCEPT ![w] = "live"] /\ lost' = lost \cup {w}
      /\ result' = [result EXCEPT ![w] = "drained"]
  BY DEF SpawnLosesHandle, mapVars, diskVars
<1>4. \A u \in Task : status[u] \in {"done", "terminal"} => status'[u] = status[u]
  BY <1>1, <1>2 DEF MaybeRetryTask, ViewInv, V!IInv, V!TypeOK
<1>5. ViewInv'
  BY <1>1, LostKeepsView DEF ViewInv
<1>6. LostInv'
  BY <1>1, <1>2, <1>3 DEF LostInv, ViewInv, V!IInv, V!TypeOK
<1>7. RowsInv'
  BY <1>1, <1>2, <1>3 DEF RowsInv, ExitRow, LostInv
<1>8. UnrecordedInv'
  BY <1>1, <1>3 DEF UnrecordedInv, LostInv, killVars
<1>9. CopyInv'
  BY <1>1, <1>2, <1>3, <1>4 DEF CopyInv, LostInv, killVars
<1>10. KillInv'
  BY <1>1, <1>2, <1>3 DEF KillInv, CopyInv, MissedByKill, LostInv, killVars
<1> QED BY <1>5, <1>6, <1>7, <1>8, <1>9, <1>10, ConductorParts, PTL

\* kill reads state.json.
LEMMA KillReadsKeeps == ASSUME ConductorInv, KillReads PROVE ConductorInv'
<1> USE DEF vars, loopVars, taskVars, mapVars, haltVars, procVars, diskVars
<1>1. /\ ViewInv /\ LostInv /\ RowsInv
      /\ UnrecordedInv /\ CopyInv /\ KillInv
  BY ConductorParts
<1>2. /\ UNCHANGED <<vars, lost, HeldProc, killHit>>
      /\ killPc = "start" /\ killPc' = "signal"
      /\ killCopy' = [run |-> diskRun, task |-> diskTask, worker |-> diskWorker, usd |-> diskUsd]
      /\ killTodo' = {w \in Worker : diskWorker[w] # "absent"}
      /\ atRead' = {w \in Worker \ lost : proc[w] = "live"}
  BY DEF KillReads, HeldProc
<1>3. ViewInv'
  <2>1. [V!Next]_(V!vars)
    BY <1>2 DEF V!vars, V!loopVars, V!taskVars, V!mapVars, V!haltVars, V!procVars, V!diskVars
  <2> QED
    BY <1>1, <2>1, V!InvStep, V!AheadInitStep, ViewAssumptions, PlanAssumption,
       ConfigAssumption
    DEF ViewInv
<1>4. LostInv' /\ RowsInv' /\ UnrecordedInv'
  BY <1>1, <1>2 DEF LostInv, RowsInv, UnrecordedInv
<1>5. CopyInv'
  BY <1>1, <1>2
  DEF CopyInv, ViewInv, V!IInv, V!TypeOK, V!TaskStatus, TaskStatus, V!AheadInv,
      V!DiskNeverAhead, HeldProc, RowsInv
<1>6. KillInv'
  BY <1>1, <1>2 DEF KillInv, MissedByKill, UnrecordedInv
<1> QED BY <1>3, <1>4, <1>5, <1>6, ConductorParts, PTL

\* kill goes through one row.
LEMMA KillSignalsKeeps ==
    ASSUME ConductorInv, NEW w \in Worker, KillSignalsRow(w) PROVE ConductorInv'
<1> USE DEF loopVars, taskVars, mapVars, haltVars, diskVars
<1>1. /\ ViewInv /\ LostInv /\ RowsInv
      /\ UnrecordedInv /\ CopyInv /\ KillInv
  BY ConductorParts
<1>2. /\ UNCHANGED <<pc, loopVars, taskVars, mapVars, haltVars, taskOf, proc, rc, result,
                     diskVars, lost, killPc, killCopy, atRead>>
      /\ killPc = "signal" /\ w \in killTodo /\ killTodo' = killTodo \ {w}
      /\ UNCHANGED HeldProc
  BY DEF KillSignalsRow, HeldProc
<1>3. sig \in [Worker -> 0 .. 3]
  BY <1>1 DEF ViewInv, V!IInv, V!TypeOK
<1>4. /\ sig' \in [Worker -> 0 .. 3]
      /\ \A v \in Worker : sig[v] <= sig'[v]
      /\ proc[w] = "live" => sig'[w] >= 2
      /\ killHit' \in BOOLEAN
      /\ ~killHit' => ~killHit /\ proc[w] \in {"exited", "reaped"}
  <2>1. CASE proc[w] = "live" /\ Signal({w}, 2) /\ killHit' = Tally(TRUE)
    <3>1. sig' = [v \in Worker |-> IF v \in {w} /\ sig[v] < 2 THEN 2 ELSE sig[v]]
      BY <2>1 DEF Signal
    <3>2. /\ sig' \in [Worker -> 0 .. 3]
          /\ \A v \in Worker : sig[v] <= sig'[v]
          /\ sig'[w] >= 2
      BY <1>3, <3>1
    <3>3. killHit' = TRUE
      BY <2>1 DEF Tally
    <3> QED BY <3>2, <3>3
  <2>2. ASSUME NEW taken \in BOOLEAN, proc[w] \in {"exited", "reaped"},
               killHit' = Tally(taken), UNCHANGED sig
        PROVE  /\ sig' \in [Worker -> 0 .. 3]
               /\ \A v \in Worker : sig[v] <= sig'[v]
               /\ proc[w] = "live" => sig'[w] >= 2
               /\ killHit' \in BOOLEAN
               /\ ~killHit' => ~killHit /\ proc[w] \in {"exited", "reaped"}
    BY <1>1, <1>3, <2>2 DEF Tally, KillInv
  <2> QED BY <2>1, <2>2 DEF KillSignalsRow
<1>5. ViewInv'
  <2>1. V!TypeOK'
    BY <1>1, <1>2, <1>4 DEF ViewInv, V!IInv, V!TypeOK
  <2>2. V!IInv'
    BY <1>1, <1>2, <1>4, <2>1, ViewKept DEF ViewInv
  <2>3. V!AheadInv'
    BY <1>1, <1>2
    DEF ViewInv, V!AheadInv, V!DiskNeverAhead, V!AllDone, V!AllTasksTerminal, V!Unreaped,
        V!Over, V!ExitRow
  <2> QED BY <2>2, <2>3 DEF ViewInv
<1>6. LostInv' /\ RowsInv' /\ UnrecordedInv' /\ CopyInv'
  BY <1>1, <1>2 DEF LostInv, RowsInv, UnrecordedInv, CopyInv
<1>7. KillInv'
  <2>1. MissedByKill' \ killTodo' \subseteq MissedByKill \ killTodo
    BY <1>1, <1>2, <1>3, <1>4 DEF MissedByKill, KillInv
  <2> QED BY <1>1, <1>2, <1>4, <2>1 DEF KillInv
<1> QED BY <1>5, <1>6, <1>7, ConductorParts, PTL

\* kill ends, and its copy may have replaced state.json.
LEMMA KillEndsKeeps == ASSUME ConductorInv, KillReports \/ KillMarks PROVE ConductorInv'
<1> USE DEF vars, loopVars, taskVars, mapVars, haltVars, procVars
<1>1. /\ ViewInv /\ LostInv /\ RowsInv
      /\ UnrecordedInv /\ CopyInv /\ KillInv
  BY ConductorParts
<1>2. /\ UNCHANGED <<pc, loopVars, taskVars, mapVars, haltVars, procVars, lost>>
      /\ UNCHANGED HeldProc
      /\ killPc = "signal" /\ killPc' = "ended"
      /\ killTodo' = {} /\ killHit' = FALSE /\ atRead' = {}
  BY DEF KillReports, KillMarks, KillIsThrough, HeldProc
<1>3. \/ UNCHANGED diskVars
      \/ /\ diskRun' = "halting" /\ diskTask' = killCopy.task
         /\ diskWorker' = killCopy.worker /\ diskUsd' = killCopy.usd
  BY DEF KillReports, KillMarks, Marked, diskVars
<1>4. V!TypeOK'
  BY <1>1, <1>2, <1>3
  DEF ViewInv, V!IInv, V!TypeOK, V!TaskStatus, TaskStatus, CopyInv, diskVars
<1>5. ViewInv'
  <2>0. \A v \in Worker : sig[v] <= sig'[v]
    BY <1>1, <1>2 DEF ViewInv, V!IInv, V!TypeOK
  <2>1. V!IInv'
    BY <1>1, <1>2, <1>4, <2>0, ViewKept DEF ViewInv
  <2>2. V!AheadInv'
    BY <1>1, <1>2, <1>3
    DEF ViewInv, V!AheadInv, V!DiskNeverAhead, V!AllDone, V!AllTasksTerminal, V!Unreaped,
        V!Over, V!ExitRow, CopyInv, HeldProc, diskVars
  <2> QED BY <2>1, <2>2 DEF ViewInv
<1>6. LostInv' /\ RowsInv'
  BY <1>1, <1>2, <1>3 DEF LostInv, RowsInv, CopyInv, diskVars
<1>7. UnrecordedInv' /\ CopyInv' /\ KillInv'
  BY <1>2 DEF UnrecordedInv, CopyInv, KillInv
<1> QED BY <1>5, <1>6, <1>7, ConductorParts, PTL

-----------------------------------------------------------------------------
(* The theorems. *)

\* The inductive invariant holds in every run.
THEOREM ConductorInvariance == CSpec => []ConductorInv
<1>1. CInit => ConductorInv
  BY ConductorInit
<1>2. ConductorInv /\ [CNext]_cvars => ConductorInv'
  <2> SUFFICES ASSUME ConductorInv, [CNext]_cvars PROVE ConductorInv'
    OBVIOUS
  <2>1. CASE Next /\ UNCHANGED <<lost, killVars>>
    BY <2>1, SupervisorKeeps
  <2>2. CASE UNCHANGED cvars
    BY <2>2, SupervisorKeeps DEF cvars
  <2>3. ASSUME NEW t \in Task, NEW w \in Worker, SpawnLosesHandle(t, w)
        PROVE  ConductorInv'
    BY <2>3, LostKeeps
  <2>4. CASE Kill
    BY <2>4, KillReadsKeeps, KillSignalsKeeps, KillEndsKeeps DEF Kill
  <2> QED BY <2>1, <2>2, <2>3, <2>4 DEF CNext
<1> QED BY <1>1, <1>2, PTL DEF CSpec

\* Although kill puts an older document in place of state.json, and whatever updates
\* fail and whoever dies, the record claims nothing that has not happened.
THEOREM RecordStaysBehind == CSpec => []RecordNeverAhead
<1>1. ConductorInv => RecordNeverAhead
  <2> SUFFICES ASSUME ConductorInv PROVE RecordNeverAhead
    OBVIOUS
  <2>1. V!DiskNeverAhead /\ RowsInv
    BY ConductorParts DEF ViewInv, V!AheadInv
  <2> QED
    BY <2>1
    DEF RecordNeverAhead, V!DiskNeverAhead, RowsInv, HeldProc, V!AllDone, AllDone,
        V!AllTasksTerminal, AllTasksTerminal, V!Unreaped, Unreaped
<1> QED BY <1>1, ConductorInvariance, PTL

\* When kill marks the run, every worker it read of is dead.
THEOREM KillMarksNoneAlive == CSpec => []KillMarksOnlyDeadRuns
<1>1. ConductorInv => KillMarksOnlyDeadRuns
  BY DEF ConductorInv, KillInv, KillMarksOnlyDeadRuns
<1> QED BY <1>1, ConductorInvariance, PTL

\* If updates succeed, kill misses one of the running workers at most.
THEOREM KillMissesOneAtMost == ASSUME ~UpdatesMayFail PROVE CSpec => []KillReachesAllButOne
<1>1. ConductorInv => KillReachesAllButOne
  BY DEF ConductorInv, KillInv, KillReachesAllButOne
<1> QED BY <1>1, ConductorInvariance, PTL

\* Attempts overlap, max_parallel is exceeded and processes outlive the run only where
\* handles were lost: what remains of NoDoubleRun, ParallelLimit and NobodyLeftBehind
\* when an OSError comes after Popen.
THEOREM StraysBounded == CSpec => []OnlyLostGoAstray
<1>1. ConductorInv => OnlyLostGoAstray
  <2> SUFFICES ASSUME ConductorInv PROVE OnlyLostGoAstray
    OBVIOUS
  <2> DEFINE kept == Unreaped \ lost
  <2>1. V!TypeOK /\ V!HandlesInv /\ V!LimitInv /\ V!LoopInv
    BY ConductorParts DEF ViewInv, V!IInv
  <2>2. kept \subseteq active /\ active \subseteq Worker
    BY <2>1 DEF V!HandlesInv, V!TypeOK, Unreaped, HeldProc
  <2>3. \A v, w \in active : taskOf[v] = taskOf[w] => v = w
    BY <2>1 DEF V!HandlesInv
  <2>4. kept = {} \/ Cardinality(kept) <= MaxParallel
    <3>1. /\ Cardinality(active) \in Nat /\ Cardinality(kept) \in Nat
          /\ Cardinality(kept) <= Cardinality(active)
      BY <2>2, ConfigAssumption, FS_Subset, FS_CardinalityType
    <3>2. active = {} \/ Cardinality(active) <= MaxParallel
      BY <2>1, SameCardinality DEF V!LimitInv
    <3>3. CASE active = {}
      BY <2>2, <3>3
    <3>4. CASE Cardinality(active) <= MaxParallel
      BY <3>1, <3>4, ConfigAssumption
    <3> QED BY <3>2, <3>3, <3>4
  <2>5. pc = "exited" => active = {}
    BY <2>1 DEF V!LoopInv
  <2> HIDE DEF kept
  <2>6. /\ \A v, w \in kept : taskOf[v] = taskOf[w] => v = w
        /\ kept = {} \/ Cardinality(kept) <= MaxParallel
        /\ pc = "exited" => kept = {}
    BY <2>2, <2>3, <2>4, <2>5
  <2> QED BY <2>6 DEF OnlyLostGoAstray, kept
<1> QED BY <1>1, ConductorInvariance, PTL

\* A worker whose handle was lost is counted like one that failed: no task gets more
\* than its budget, over all its workers.
THEOREM BudgetKept == CSpec => []RetryBudget
<1>1. ConductorInv => RetryBudget
  <2> SUFFICES ASSUME ConductorInv, NEW t \in Task
               PROVE  Cardinality(Attempts(t)) <= MaxRetries[t] + 1
    BY DEF RetryBudget
  <2>1. V!Covers(MaxRetries[t], t)
    BY ConductorParts DEF ViewInv, V!IInv, V!AttemptsInv
  <2>2. \/ Cardinality(Attempts(t)) <= MaxRetries[t]
        \/ Cardinality(Attempts(t)) <= MaxRetries[t] + 1
    BY <2>1, SameCardinality DEF V!Covers, V!Attempts, Attempts
  <2>3. MaxRetries[t] \in Nat /\ Cardinality(Attempts(t)) \in Nat
    BY PlanFacts, AttemptsFinite
  <2> QED BY <2>2, <2>3
<1> QED BY <1>1, ConductorInvariance, PTL

\* Lost handles, and whatever kill does, leave the supervisor nothing to wait for in vain.
THEOREM NothingStuckBeside == CSpec => []NeverStuck
<1>1. ConductorInv => NeverStuck
  <2> SUFFICES ASSUME ConductorInv PROVE NeverStuck
    OBVIOUS
  <2>1. V!IInv /\ LostInv
    BY ConductorParts DEF ViewInv
  <2>2. ASSUME pc = "head", ~AllTasksTerminal, ~Starved, active = {}, cooling = {},
               ~NothingMayStart
        PROVE  GetReadyTasks # {} /\ ~AtLimit
    <3>1. ~V!AllTasksTerminal /\ ~V!Starved
      BY <2>2, SharedOperators DEF V!Starved, Starved, V!NoWorker, NoWorker
    <3>2. V!GetReadyTasks # {}
      BY <2>1, <2>2, <3>1, V!SomeTaskIsReady, ViewAssumptions, PlanAssumption,
         ConfigAssumption
    <3>3. ~AtLimit
      BY <2>2, ConfigAssumption, FS_EmptySet DEF AtLimit, NothingMayStart
    <3> QED BY <3>2, <3>3, SharedOperators
  <2>3. ASSUME pc = "haltClose", NEW w \in active, proc[w] = "live" PROVE sig[w] >= 2
    BY <2>1, <2>3 DEF LostInv, HeldProc, V!IInv, V!WaitInv, V!TypeOK
  <2> QED BY <2>2, <2>3 DEF NeverStuck
<1> QED BY <1>1, ConductorInvariance, PTL

\* The supervisor implements the task lifecycle in this company too: to it a handle
\* that is not made is an attempt that failed.
THEOREM ConductorRefinement == CSpec => ImplementsLifecycle
<1>1. CInit => Lifecycle!Init
  BY DEF CInit, Init, Lifecycle!Init
<1>2. ASSUME ConductorInv, [CNext]_cvars PROVE [Lifecycle!Next]_(Lifecycle!vars)
  <2> USE DEF Lifecycle!vars
  <2>0. V!IInv /\ LostInv
    BY <1>2, ConductorParts DEF ViewInv
  <2>1. ASSUME NEW t \in Task, NEW w \in Worker, SpawnWorker(t, w) PROVE Lifecycle!Next
    <3>1. Lifecycle!StartTask(t)
      BY <2>0, <2>1, ViewReady DEF SpawnWorker, DispatchedFirst, Lifecycle!StartTask
    <3> QED BY <3>1 DEF Lifecycle!Next
  <2>2. ASSUME NEW t \in Task, status[t] \in {"pending", "running"}, MaybeRetryTask(t),
               \A d \in DependsOn[t] : status[d] = "done"
        PROVE  Lifecycle!Next
    <3>1. Lifecycle!FailTask(t)
      BY <2>2 DEF MaybeRetryTask, Lifecycle!FailTask
    <3> QED BY <3>1 DEF Lifecycle!Next
  <2>3. ASSUME NEW t \in Task, SpawnFails(t) PROVE Lifecycle!Next
    BY <2>0, <2>2, <2>3, ViewReady DEF SpawnFails, DispatchedFirst
  <2>4. ASSUME NEW t \in Task, NEW w \in Worker, SpawnLosesHandle(t, w)
        PROVE  Lifecycle!Next
    BY <2>0, <2>2, <2>4, LostFacts
  <2>5. ASSUME NEW w \in Worker, ProcessWorkerExit(w) PROVE Lifecycle!Next
    <3> DEFINE t == taskOf[w]
    <3>1. /\ t \in Task /\ status[t] = "running"
          /\ \A d \in DependsOn[t] : status[d] = "done"
      BY <2>0, <2>5, ViewReady
    <3>2. CASE rc[w] = 0
      <4>1. Lifecycle!Succeed(t)
        BY <2>5, <3>1, <3>2 DEF ProcessWorkerExit, Lifecycle!Succeed
      <4> QED BY <3>1, <4>1 DEF Lifecycle!Next
    <3>3. CASE MaybeRetryTask(t)
      BY <2>2, <3>1, <3>3
    <3> QED BY <2>5, <3>2, <3>3 DEF ProcessWorkerExit
  <2>6. CASE [Next]_vars
    BY <2>1, <2>3, <2>5, <2>6, OnlyThreeTouchTasks
  <2>7. CASE Kill
    BY <2>7 DEF Kill, KillReads, KillSignalsRow, KillReports, KillMarks, vars, taskVars
  <2> QED BY <1>2, <2>4, <2>6, <2>7 DEF CNext, cvars
<1> QED
  BY <1>1, <1>2, ConductorInvariance, PTL
  DEF CSpec, ImplementsLifecycle, Lifecycle!Spec
=============================================================================
