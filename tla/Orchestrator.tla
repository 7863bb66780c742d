---------------------------- MODULE Orchestrator ----------------------------
(***************************************************************************)
(* The supervisor of one run: Orchestrator.run() and everything it calls   *)
(* (orchestrator.py), the worker processes it starts, the signals it gets, *)
(* and the state.json it keeps for other processes to read.                *)
(*                                                                         *)
(* The supervisor is one thread; pc is the place it has reached.  Between  *)
(* any two of its steps a worker may print its result line or exit, a      *)
(* backoff may elapse, and a signal handler may run.  Each update of       *)
(* state.json is a step of its own, because a reader, a signal or a crash  *)
(* can fall between two of them.                                           *)
(***************************************************************************)
EXTENDS Plans

CONSTANTS
    Task,           \* the tasks, numbered in the order of the plan
    DependsOn,      \* DependsOn[t]: the tasks t waits for
    Priority,       \* Priority[t]: 0 (low) .. 9 (high)
    MaxRetries,     \* MaxRetries[t]: how many failures of t are forgiven
    PlanStatus,     \* the statuses a plan may give its tasks
    PlanRetries,    \* the retries a plan may say were used already
    Worker,         \* the worker ids, numbered in the order they are issued
    MaxParallel,    \* the limit on live workers
    GlobalCap,      \* the spending cap of the run, in result lines, rounded down
    WorkerCap,      \* the spending cap of each worker, likewise
    Signals,        \* the signals the operator may send, each at most once
    SpawnMayFail,   \* whether Popen may raise FileNotFoundError or OSError
    UpdatesMayFail, \* whether StateStore.update may raise
    ClockMayJump,   \* whether the stuck detector may see ten silent minutes
    CanDie          \* whether the supervisor itself may be killed

\* What PlanIntake shows of every plan it lets through, numbered.
ASSUME PlanAssumption ==
    /\ Task \subseteq Nat \ {0}
    /\ WellFormedPlan(Task, DependsOn, Priority, MaxRetries, PlanStatus, PlanRetries)

ASSUME ConfigAssumption ==
    /\ Worker \subseteq Nat \ {0}
    /\ IsFiniteSet(Worker)
    /\ MaxParallel \in Int
    /\ GlobalCap \in Nat /\ WorkerCap \in Nat
    /\ Signals \subseteq {"SIGINT", "SIGTERM"}
    /\ {SpawnMayFail, UpdatesMayFail, ClockMayJump, CanDie} \subseteq BOOLEAN

NoWorker == 0
NoTask == 0

VARIABLES
    pc,          \* where the supervisor thread is
    ready,       \* the tasks _spawn_ready_workers has still to look at
    toPoll,      \* the workers this pass of the loop has still to poll
    completed,   \* the workers this pass of the loop found dead
    cur,         \* the worker at hand, or NoWorker
    status,      \* _TaskRecord.status of each task
    retries,     \* _TaskRecord.retries of each task
    cooling,     \* the tasks whose _TaskRecord.retry_at is still in the future
    active,      \* the keys of _active_handles
    taskWorker,  \* _task_worker_map, NoWorker where there is no entry
    haltEvent,   \* _halt_event
    exitCode,    \* _exit_code
    signalled,   \* the signals delivered so far
    taskOf,      \* handle.spec.task_id of each worker, NoTask before its spawn
    proc,        \* the process of each worker
    rc,          \* the return code of each worker that has exited
    result,      \* where the result line of each worker is
    sig,         \* the strongest signal sent to each worker
    diskRun,     \* state.json: status of the run
    diskTask,    \* state.json: status of each task
    diskWorker,  \* state.json: status of each worker, "absent" if it has no row
    diskUsd      \* state.json: cost_usd_total

loopVars == <<ready, toPoll, completed, cur>>
taskVars == <<status, retries, cooling>>
mapVars  == <<active, taskWorker>>
haltVars == <<haltEvent, exitCode, signalled>>
procVars == <<taskOf, proc, rc, result, sig>>
diskVars == <<diskRun, diskTask, diskWorker, diskUsd>>
vars == <<pc, loopVars, taskVars, mapVars, haltVars, procVars, diskVars>>

SupervisorPlace ==
    {"start", "head", "spawn", "spawnWorkerRow", "spawnTaskRow", "poll", "check",
     "exits", "exitTaskRow", "exitWorkerRow", "exitCostRow", "haltInterrupt",
     "haltWait", "haltTerminate", "haltClose", "return", "exited", "dead"}
Halting == {"haltInterrupt", "haltWait", "haltTerminate", "haltClose"}
Stopped == {"exited", "dead"}

TypeOK ==
    /\ pc \in SupervisorPlace
    /\ ready \subseteq Task
    /\ toPoll \subseteq Worker /\ completed \subseteq Worker
    /\ cur \in Worker \cup {NoWorker}
    /\ status \in [Task -> TaskStatus]
    /\ retries \in [Task -> Nat]
    /\ cooling \subseteq Task
    /\ active \subseteq Worker
    /\ taskWorker \in [Task -> Worker \cup {NoWorker}]
    /\ haltEvent \in BOOLEAN
    /\ exitCode \in {0, 1, 130}
    /\ signalled \subseteq Signals
    /\ taskOf \in [Worker -> Task \cup {NoTask}]
    /\ proc \in [Worker -> {"unborn", "live", "exited", "reaped"}]
    /\ rc \in [Worker -> {0, 1}]
    /\ result \in [Worker -> {"none", "piped", "credited", "drained"}]
    /\ sig \in [Worker -> 0 .. 3]
    /\ diskRun \in {"initializing", "running", "halting", "halted", "completed", "failed"}
    /\ diskTask \in [Task -> TaskStatus]
    /\ diskWorker \in [Worker -> {"absent", "running", "done", "failed"}]
    /\ diskUsd \in Nat

Init ==
    /\ pc = "start"
    /\ ready = {} /\ toPoll = {} /\ completed = {} /\ cur = NoWorker
    /\ status \in [Task -> PlanStatus]
    /\ retries \in [Task -> PlanRetries]
    /\ cooling = {}
    /\ active = {}
    /\ taskWorker = [t \in Task |-> NoWorker]
    /\ haltEvent = FALSE /\ exitCode = 0 /\ signalled = {}
    /\ taskOf = [w \in Worker |-> NoTask]
    /\ proc = [w \in Worker |-> "unborn"]
    /\ rc = [w \in Worker |-> 0]
    /\ result = [w \in Worker |-> "none"]
    /\ sig = [w \in Worker |-> 0]
    /\ diskRun = "initializing"
    /\ diskTask = status
    /\ diskWorker = [w \in Worker |-> "absent"]
    /\ diskUsd = 0

-----------------------------------------------------------------------------
(* Mutants: what some definitions below would be with a plausible bug in the
   code.  No action uses them; each shows that a property can fail. *)

\* _get_ready_tasks without the test of depends_on
ReadyIgnoringDeps ==
    {t \in Task : status[t] = "pending" /\ taskWorker[t] = NoWorker /\ t \notin cooling}

\* _get_ready_tasks that takes every unfinished task
ReadyIfUnfinished ==
    {t \in Task : /\ status[t] \notin {"done", "terminal"}
                  /\ \A d \in DependsOn[t] : status[d] = "done"
                  /\ t \notin cooling}

\* > for >= in the test of max_parallel
AtLimitOffByOne == Cardinality(active) > MaxParallel

\* <= for < in the test of max_retries
RetryOffByOne(t) ==
    \/ /\ retries[t] <= MaxRetries[t]
       /\ retries' = [retries EXCEPT ![t] = @ + 1]
       /\ status' = [status EXCEPT ![t] = "pending"]
       /\ cooling' = cooling \cup {t}
       /\ UNCHANGED exitCode
    \/ /\ retries[t] > MaxRetries[t]
       /\ status' = [status EXCEPT ![t] = "terminal"]
       /\ exitCode' = 1
       /\ UNCHANGED <<retries, cooling>>

\* the terminal branch forgets _exit_code
RetryWithoutExitCode(t) ==
    \/ /\ retries[t] < MaxRetries[t]
       /\ retries' = [retries EXCEPT ![t] = @ + 1]
       /\ status' = [status EXCEPT ![t] = "pending"]
       /\ cooling' = cooling \cup {t}
       /\ UNCHANGED exitCode
    \/ /\ retries[t] >= MaxRetries[t]
       /\ status' = [status EXCEPT ![t] = "terminal"]
       /\ UNCHANGED <<retries, cooling, exitCode>>

\* the entry of _task_worker_map removed only for a task that is done
UnmappedIfDone(w) ==
    IF rc[w] = 0 THEN [taskWorker EXCEPT ![taskOf[w]] = NoWorker] ELSE taskWorker

\* close() that does not read the pipe to its end nor wait
CloseAtOnce(w) == TRUE

\* _do_halt without `if handle.is_alive()`, and without the SIGTERM round
TerminateAll == active
TerminateNone == {}

\* StateStore.update that may lose the write without a word
WriteMayBeLost(new, old) == {new, old}

\* the row of the task serialised before its status is set
StaleTaskRow == [diskTask EXCEPT ![taskOf[cur]] = "running"]

\* _finalize that does not look at the tasks
FinalStatusBlind == "completed"

\* a terminal task not counted as ended
AllTasksDone == \A t \in Task : status[t] = "done"

\* the loop leaves the global cap to poll_once, which a heartbeat cuts short
LoopIgnoresCap == UNCHANGED sig

-----------------------------------------------------------------------------
(* Helpers. *)

\* handles are a dict filled in the order ids are issued: it is walked in id order
IsFirst(w, S) == w \in S /\ \A v \in S : w <= v

\* ready.sort(key=-priority) is stable: ties keep the order of the plan
DispatchedFirst(t, S) ==
    /\ t \in S
    /\ \A u \in S : \/ Priority[t] > Priority[u]
                    \/ Priority[t] = Priority[u] /\ t <= u

\* _update_state_*: a failed StateStore.update is logged and forgotten
Written(new, old) == IF UpdatesMayFail THEN {new, old} ELSE {new}

\* CostGuard: usage is the sum of the result lines that were parsed
Credited == {w \in Worker : result[w] = "credited"}
Spent == Cardinality(Credited)
OverGlobal == Spent > GlobalCap
OverWorker(w) == w \in Credited /\ 1 > WorkerCap

StuckVerdicts == IF ClockMayJump THEN BOOLEAN ELSE {FALSE}

\* WorkerHandle.kill_escalation: the first call sends SIGINT; a later one sends
\* what the time since the first calls for
EscalateIf(w, over) ==
    IF over THEN \E s \in (IF sig[w] = 0 THEN {1} ELSE sig[w] .. 3) :
                    sig' = [sig EXCEPT ![w] = s]
            ELSE UNCHANGED sig

AllTasksTerminal == \A t \in Task : status[t] \in {"done", "terminal"}

AllDone == \A t \in Task : status[t] = "done"

\* max_parallel is reached
AtLimit == Cardinality(active) >= MaxParallel

GetReadyTasks ==
    {t \in Task : /\ status[t] = "pending"
                  /\ taskWorker[t] = NoWorker
                  /\ \A d \in DependsOn[t] : status[d] = "done"
                  /\ t \notin cooling}

MaybeRetryTask(t) ==
    \/ /\ retries[t] < MaxRetries[t]
       /\ retries' = [retries EXCEPT ![t] = @ + 1]
       /\ status' = [status EXCEPT ![t] = "pending"]
       /\ cooling' = cooling \cup {t}
       /\ UNCHANGED exitCode
    \/ /\ retries[t] >= MaxRetries[t]
       /\ status' = [status EXCEPT ![t] = "terminal"]
       /\ exitCode' = 1
       /\ UNCHANGED <<retries, cooling>>

-----------------------------------------------------------------------------
(* The supervisor loop. *)

\* run(): handlers installed, status "running"
Start ==
    /\ pc = "start"
    /\ diskRun' \in Written("running", diskRun)
    /\ pc' = "head"
    /\ UNCHANGED <<loopVars, taskVars, mapVars, haltVars, procVars, diskTask,
                   diskWorker, diskUsd>>

FinalStatus == IF AllDone THEN "completed" ELSE "failed"

\* every task has ended: _finalize
Finalize ==
    /\ pc = "head" /\ ~haltEvent /\ AllTasksTerminal
    /\ diskRun' \in Written(FinalStatus, diskRun)
    /\ pc' = "return"
    /\ UNCHANGED <<loopVars, taskVars, mapVars, haltVars, procVars, diskTask,
                   diskWorker, diskUsd>>

\* _spawn_ready_workers up to its loop
BeginSpawning ==
    /\ pc = "head" /\ ~haltEvent /\ ~AllTasksTerminal
    /\ ready' = IF AtLimit THEN {} ELSE GetReadyTasks
    /\ pc' = "spawn"
    /\ UNCHANGED <<toPoll, completed, cur, taskVars, mapVars, haltVars, procVars,
                   diskVars>>

\* Runner.spawn returned a handle
SpawnWorker(t, w) ==
    /\ pc = "spawn" /\ DispatchedFirst(t, ready)
    /\ ~AtLimit
    /\ IsFirst(w, {v \in Worker : proc[v] = "unborn"})
    /\ ready' = ready \ {t}
    /\ taskOf' = [taskOf EXCEPT ![w] = t]
    /\ proc' = [proc EXCEPT ![w] = "live"]
    /\ status' = [status EXCEPT ![t] = "running"]
    /\ active' = active \cup {w}
    /\ taskWorker' = [taskWorker EXCEPT ![t] = w]
    /\ cur' = w
    /\ pc' = "spawnWorkerRow"
    /\ UNCHANGED <<toPoll, completed, retries, cooling, haltVars, rc, result, sig,
                   diskVars>>

\* Popen raised, and no process exists: the task is retried or given up, and state.json
\* not told.  The same clause takes an OSError that WorkerHandle raises after Popen for a
\* failed spawn; Conductor has that as SpawnLosesHandle.
SpawnFails(t) ==
    /\ SpawnMayFail
    /\ pc = "spawn" /\ DispatchedFirst(t, ready)
    /\ ~AtLimit
    /\ ready' = ready \ {t}
    /\ MaybeRetryTask(t)
    /\ UNCHANGED <<pc, toPoll, completed, cur, mapVars, haltEvent, signalled,
                   procVars, diskVars>>

\* _task_to_dict of the task at hand, put in place of its old row
TaskRow == [diskTask EXCEPT ![taskOf[cur]] = status[taskOf[cur]]]

WriteSpawnedWorker ==
    /\ pc = "spawnWorkerRow"
    /\ diskWorker' \in Written([diskWorker EXCEPT ![cur] = "running"], diskWorker)
    /\ pc' = "spawnTaskRow"
    /\ UNCHANGED <<loopVars, taskVars, mapVars, haltVars, procVars, diskRun,
                   diskTask, diskUsd>>

WriteSpawnedTask ==
    /\ pc = "spawnTaskRow"
    /\ diskTask' \in Written(TaskRow, diskTask)
    /\ cur' = NoWorker
    /\ pc' = "spawn"
    /\ UNCHANGED <<ready, toPoll, completed, taskVars, mapVars, haltVars, procVars,
                   diskRun, diskWorker, diskUsd>>

\* no task is left to start, or the limit is reached: on to polling
BeginPolling ==
    /\ pc = "spawn"
    /\ ready = {} \/ AtLimit
    /\ ready' = {}
    /\ toPoll' = active
    /\ completed' = {}
    /\ pc' = "poll"
    /\ UNCHANGED <<cur, taskVars, mapVars, haltVars, procVars, diskVars>>

\* handle.poll_once(): on a heartbeat it returns before it reads; otherwise it
\* reads at most one chunk, which may or may not end the result line
PollOnce(w) ==
    /\ pc = "poll" /\ IsFirst(w, toPoll)
    /\ \/ UNCHANGED <<result, sig>>
       \/ /\ \/ UNCHANGED result
             \/ result[w] = "piped" /\ result' = [result EXCEPT ![w] = "credited"]
          /\ \E stuck \in StuckVerdicts :
                EscalateIf(w, OverGlobal' \/ OverWorker(w)' \/ stuck)
    /\ toPoll' = toPoll \ {w}
    /\ cur' = w
    /\ pc' = "check"
    /\ UNCHANGED <<ready, completed, taskVars, mapVars, haltVars, taskOf, proc, rc,
                   diskVars>>

\* the rest of the loop body for the worker just polled: cost, stuck, is_alive
SupervisorEscalates ==
    \E stuck \in StuckVerdicts : EscalateIf(cur, OverGlobal \/ stuck)

CheckWorker ==
    /\ pc = "check"
    /\ SupervisorEscalates
    /\ \/ proc[cur] = "live" /\ UNCHANGED <<proc, completed>>
       \/ /\ proc[cur] = "exited"
          /\ proc' = [proc EXCEPT ![cur] = "reaped"]
          /\ completed' = completed \cup {cur}
    /\ cur' = NoWorker
    /\ pc' = "poll"
    /\ UNCHANGED <<ready, toPoll, taskVars, mapVars, haltVars, taskOf, rc, result,
                   diskVars>>

EndPolling ==
    /\ pc = "poll" /\ toPoll = {}
    /\ pc' = "exits"
    /\ UNCHANGED <<loopVars, taskVars, mapVars, haltVars, procVars, diskVars>>

\* close() reads what is left in the pipe into the exit event and parses none of it
Drained(w) ==
    IF result[w] = "piped" THEN [result EXCEPT ![w] = "drained"] ELSE result

\* _task_worker_map.pop(task_id, None)
Unmapped(w) == [taskWorker EXCEPT ![taskOf[w]] = NoWorker]

ProcessWorkerExit(w) ==
    /\ pc = "exits" /\ IsFirst(w, completed)
    /\ completed' = completed \ {w}
    /\ active' = active \ {w}
    /\ result' = Drained(w)
    /\ taskWorker' = Unmapped(w)
    /\ \/ /\ rc[w] = 0
          /\ status' = [status EXCEPT ![taskOf[w]] = "done"]
          /\ UNCHANGED <<retries, cooling, exitCode>>
       \/ rc[w] # 0 /\ MaybeRetryTask(taskOf[w])
    /\ cur' = w
    /\ pc' = "exitTaskRow"
    /\ UNCHANGED <<ready, toPoll, haltEvent, signalled, taskOf, proc, rc, sig,
                   diskVars>>

WriteExitTask ==
    /\ pc = "exitTaskRow"
    /\ diskTask' \in Written(TaskRow, diskTask)
    /\ pc' = "exitWorkerRow"
    /\ UNCHANGED <<loopVars, taskVars, mapVars, haltVars, procVars, diskRun,
                   diskWorker, diskUsd>>

WriteExitWorker ==
    /\ pc = "exitWorkerRow"
    /\ LET new == IF rc[cur] = 0 THEN "done" ELSE "failed" IN
       diskWorker' \in Written([diskWorker EXCEPT ![cur] = new], diskWorker)
    /\ pc' = "exitCostRow"
    /\ UNCHANGED <<loopVars, taskVars, mapVars, haltVars, procVars, diskRun,
                   diskTask, diskUsd>>

WriteExitCost ==
    /\ pc = "exitCostRow"
    /\ diskUsd' \in Written(Spent, diskUsd)
    /\ cur' = NoWorker
    /\ pc' = "exits"
    /\ UNCHANGED <<ready, toPoll, completed, taskVars, mapVars, haltVars, procVars,
                   diskRun, diskTask, diskWorker>>

Sleep ==
    /\ pc = "exits" /\ completed = {}
    /\ pc' = "head"
    /\ UNCHANGED <<loopVars, taskVars, mapVars, haltVars, procVars, diskVars>>

-----------------------------------------------------------------------------
(* _do_halt. *)

BeginHalt ==
    /\ pc = "head" /\ haltEvent
    /\ diskRun' \in Written("halting", diskRun)
    /\ pc' = "haltInterrupt"
    /\ UNCHANGED <<loopVars, taskVars, mapVars, haltVars, procVars, diskTask,
                   diskWorker, diskUsd>>

\* a signal to the process group of a process that was not waited for
Signal(S, s) == sig' = [w \in Worker |-> IF w \in S /\ sig[w] < s THEN s ELSE sig[w]]

HaltInterrupt ==
    /\ pc = "haltInterrupt"
    /\ Signal(active, 1)
    /\ pc' = "haltWait"
    /\ UNCHANGED <<loopVars, taskVars, mapVars, haltVars, taskOf, proc, rc, result,
                   diskVars>>

Reap(S) == proc' = [w \in Worker |-> IF w \in S /\ proc[w] = "exited" THEN "reaped"
                                                                      ELSE proc[w]]

\* one turn of the wait: all(not is_alive) stops at the first live worker; the
\* wait ends when all are dead, or at the deadline
HaltWait ==
    /\ pc = "haltWait"
    /\ LET dead == {w \in active : \A v \in active : v <= w => proc[v] # "live"} IN
       /\ Reap(dead)
       /\ pc' \in IF dead = active THEN {"haltTerminate"} ELSE {pc, "haltTerminate"}
    /\ UNCHANGED <<loopVars, taskVars, mapVars, haltVars, taskOf, rc, result, sig,
                   diskVars>>

StillAlive == {w \in active : proc[w] = "live"}

HaltTerminate ==
    /\ pc = "haltTerminate"
    /\ Reap(active)
    /\ Signal(StillAlive, 2)
    /\ pc' = "haltClose"
    /\ UNCHANGED <<loopVars, taskVars, mapVars, haltVars, taskOf, rc, result,
                   diskVars>>

\* close() reads the pipe to its end, so it returns only after the process exits.  A process
\* that closes its end early and runs on is killed two seconds later: a WorkerExits too.
CloseReturns(w) == proc[w] # "live"

HaltClose(w) ==
    /\ pc = "haltClose" /\ IsFirst(w, active)
    /\ CloseReturns(w)
    /\ Reap({w})
    /\ result' = Drained(w)
    /\ active' = active \ {w}
    /\ UNCHANGED <<pc, loopVars, taskVars, taskWorker, haltVars, taskOf, rc, sig,
                   diskVars>>

EndHalt ==
    /\ pc = "haltClose" /\ active = {}
    /\ diskRun' \in Written("halted", diskRun)
    /\ pc' = "return"
    /\ UNCHANGED <<loopVars, taskVars, mapVars, haltVars, procVars, diskTask,
                   diskWorker, diskUsd>>

\* the finally clause restores the handlers and run() returns _exit_code
Return ==
    /\ pc = "return"
    /\ pc' = "exited"
    /\ UNCHANGED <<loopVars, taskVars, mapVars, haltVars, procVars, diskVars>>

-----------------------------------------------------------------------------
(* What happens around the supervisor. *)

HandleSignal(s) ==
    /\ pc \notin Stopped \cup {"start"}
    /\ s \in Signals \ signalled
    /\ signalled' = signalled \cup {s}
    /\ exitCode' = IF s = "SIGINT" THEN 130 ELSE 1
    /\ haltEvent' = TRUE
    /\ UNCHANGED <<pc, loopVars, taskVars, mapVars, procVars, diskVars>>

\* the worker prints the stream-json line that ends its work
WorkerReports(w) ==
    /\ proc[w] = "live" /\ result[w] = "none"
    /\ result' = [result EXCEPT ![w] = "piped"]
    /\ UNCHANGED <<pc, loopVars, taskVars, mapVars, haltVars, taskOf, proc, rc, sig,
                   diskVars>>

\* the worker ends, on its own or by a signal; SIGKILL leaves no return code 0
WorkerExits(w) ==
    /\ proc[w] = "live"
    /\ proc' = [proc EXCEPT ![w] = "exited"]
    /\ \E code \in (IF sig[w] = 3 THEN {1} ELSE {0, 1}) : rc' = [rc EXCEPT ![w] = code]
    /\ UNCHANGED <<pc, loopVars, taskVars, mapVars, haltVars, taskOf, result, sig,
                   diskVars>>

\* time.monotonic() passes retry_at
BackoffElapses(t) ==
    /\ t \in cooling
    /\ cooling' = cooling \ {t}
    /\ UNCHANGED <<pc, loopVars, status, retries, mapVars, haltVars, procVars, diskVars>>

\* SIGKILL, a power cut, or an exception nobody catches
Die ==
    /\ CanDie /\ pc \notin Stopped
    /\ pc' = "dead"
    /\ UNCHANGED <<loopVars, taskVars, mapVars, haltVars, procVars, diskVars>>

Terminated == pc \in Stopped /\ UNCHANGED vars

SpawnStep == \E t \in Task : SpawnFails(t) \/ \E w \in Worker : SpawnWorker(t, w)

Supervisor ==
    \/ Start \/ Finalize \/ BeginSpawning \/ SpawnStep
    \/ WriteSpawnedWorker \/ WriteSpawnedTask
    \/ BeginPolling \/ (\E w \in Worker : PollOnce(w)) \/ CheckWorker \/ EndPolling
    \/ (\E w \in Worker : ProcessWorkerExit(w))
    \/ WriteExitTask \/ WriteExitWorker \/ WriteExitCost \/ Sleep
    \/ BeginHalt \/ HaltInterrupt \/ HaltWait \/ HaltTerminate
    \/ (\E w \in Worker : HaltClose(w)) \/ EndHalt \/ Return

Environment ==
    \/ \E s \in Signals : HandleSignal(s)
    \/ \E w \in Worker : WorkerReports(w) \/ WorkerExits(w)
    \/ \E t \in Task : BackoffElapses(t)
    \/ Die

Next == Supervisor \/ Environment \/ Terminated

Spec == Init /\ [][Next]_vars

-----------------------------------------------------------------------------
(* Fairness.  The supervisor thread is scheduled, time passes retry_at, and a
   worker that was sent SIGTERM or SIGKILL ends.  That a worker ends on its
   own is assumed only where a property says so. *)

FairSpec ==
    /\ Spec
    /\ WF_vars(Supervisor)
    /\ \A t \in Task : WF_vars(BackoffElapses(t))
    /\ \A w \in Worker : WF_vars(sig[w] >= 2 /\ WorkerExits(w))

WorkersEnd == \A w \in Worker : WF_vars(WorkerExits(w))

-----------------------------------------------------------------------------
(* Safety. *)

Unreaped == {w \in Worker : proc[w] \in {"live", "exited"}}

\* Two attempts at one task never overlap: a retry is spawned only after the
\* process of the attempt before it was waited for.
NoDoubleRun ==
    \A v, w \in Unreaped : taskOf[v] = taskOf[w] => v = w

\* A worker exists only for a task whose dependencies are all done, also when
\* a dependency failed and was retried in between.
DepsDoneBeforeRun ==
    \A w \in Worker : taskOf[w] # NoTask =>
        \A d \in DependsOn[taskOf[w]] : status[d] = "done"

\* The processes the kernel holds for this run, dead ones not waited for included, never
\* exceed max_parallel, as long as each has its handle: where one lost its handle after
\* Popen, in Conductor, only the others are bounded.
ParallelLimit == Unreaped = {} \/ Cardinality(Unreaped) <= MaxParallel

Attempts(t) == {w \in Worker : taskOf[w] = t}

\* Over the whole run a task gets at most max_retries + 1 workers.
RetryBudget ==
    \A t \in Task : Cardinality(Attempts(t)) <= MaxRetries[t] + 1

\* When run() returns, by either way out, every process it started was waited for.
NobodyLeftBehind == pc = "exited" => Unreaped = {}

\* The supervisor signals only process groups whose leader was not waited for,
\* so a pid the kernel has reused is never hit.
SignalsHitOnlyWorkers ==
    [][\A w \in Worker : sig'[w] # sig[w] => proc[w] \in {"live", "exited"}]_vars

\* Without a signal, exit code 0 means exactly that every task is done.
ExitCodeHonest ==
    pc = "exited" /\ signalled = {} => (exitCode = 0 <=> AllDone)

\* If every update succeeds, a crash of the supervisor leaves at most one live
\* worker that state.json does not show, hence that `kill` cannot find.
AtMostOneUnrecorded ==
    Cardinality({w \in Unreaped : diskWorker[w] = "absent"}) <= 1

\* If every update succeeds and every spawn too, the state.json of a run that
\* ended by _finalize agrees with the supervisor on every task, worker and cost.
FinalRecordExact ==
    pc = "exited" /\ diskRun \in {"completed", "failed"} =>
        /\ diskTask = status
        /\ \A w \in Worker : diskWorker[w] # "running"
        /\ diskUsd = Spent

\* Whatever updates fail and wherever the supervisor dies, state.json never
\* claims more than has happened: a done row has a worker that returned 0, a
\* final run status is the truth, and a halted run has no process left.
DiskNeverAhead ==
    /\ \A t \in Task : diskTask[t] \in {"done", "terminal"} => status[t] = diskTask[t]
    /\ \A w \in Worker : diskWorker[w] = "done" => proc[w] = "reaped" /\ rc[w] = 0
    /\ diskRun = "completed" => AllDone
    /\ diskRun = "failed" => AllTasksTerminal /\ ~AllDone
    /\ diskRun = "halted" => Unreaped = {}

\* The supervisor implements the task lifecycle it promises.
Lifecycle == INSTANCE TaskLifecycle
ImplementsLifecycle == Lifecycle!Spec

-----------------------------------------------------------------------------
(* The inductive invariant behind the theorems of Orchestrator_proofs: how the
   two maps of the supervisor, its loop variables and the processes hang
   together at every place of the loop. *)

SpawnPlace == {"spawn", "spawnWorkerRow", "spawnTaskRow"}
PollPlace == {"poll", "check"}
ExitPlace == {"exits", "exitTaskRow", "exitWorkerRow", "exitCostRow"}

\* What is left of the ready list is still ready.
ReadyInv ==
    /\ pc \notin SpawnPlace \cup {"dead"} => ready = {}
    /\ \A t \in ready : /\ status[t] = "pending"
                        /\ \A d \in DependsOn[t] : status[d] = "done"

\* Every process not waited for has a handle; a handle, its task and the entry
\* of _task_worker_map point at each other.
HandlesInv ==
    /\ \A w \in Worker : proc[w] = "unborn" <=> taskOf[w] = NoTask
    /\ \A w \in Worker : proc[w] \in {"live", "exited"} => w \in active
    /\ \A w \in active : /\ taskOf[w] \in Task
                         /\ taskWorker[taskOf[w]] = w
                         /\ status[taskOf[w]] = "running"

\* The loop works through handles it still has, and knows which of them it reaped.
LoopInv ==
    /\ toPoll \subseteq active /\ completed \subseteq active
    /\ pc \notin PollPlace \cup {"dead"} => toPoll = {}
    /\ pc \notin PollPlace \cup ExitPlace \cup {"dead"} => completed = {}
    /\ pc = "check" => cur \in active \ toPoll
    /\ pc \notin {"haltWait", "haltTerminate", "haltClose"} \cup Stopped =>
          \A w \in active : proc[w] = "reaped" <=> w \in completed
    /\ \A w \in completed : w \notin toPoll /\ proc[w] = "reaped"
    /\ pc \in {"return", "exited"} => active = {}

\* While the loop runs _task_worker_map names only workers it holds, each by its own
\* task; and close() waits only for workers that were sent a SIGTERM.
WaitInv ==
    /\ pc \notin Halting \cup Stopped \cup {"return"} =>
          \A t \in Task : taskWorker[t] # NoWorker =>
              taskWorker[t] \in active /\ taskOf[taskWorker[t]] = t
    /\ pc = "haltClose" => \A w \in active : proc[w] = "live" => sig[w] >= 2

\* Handles are counted against the limit before one is added.
LimitInv == active = {} \/ Cardinality(active) <= MaxParallel

\* n allows for the workers t was given, counting the one that runs or was its last.
Covers(n, t) ==
    \/ Cardinality(Attempts(t)) <= n
    \/ /\ status[t] \in {"running", "done", "terminal"}
       /\ Cardinality(Attempts(t)) <= n + 1

\* Each worker of a task is paid for by a retry, or is its last one; and the retries
\* a task may still take never exceed what is left of its budget.
AttemptsInv == \A t \in Task : Covers(retries[t], t) /\ Covers(MaxRetries[t], t)

\* Until a signal comes, the exit code remembers the tasks given up; unless the
\* plan itself said that one was.
ExitInv ==
    /\ signalled = {} => ~haltEvent /\ pc \notin Halting
    /\ signalled = {} /\ pc \in {"return", "exited"} => AllTasksTerminal
    /\ signalled = {} /\ "terminal" \notin PlanStatus =>
          (exitCode = 0 <=> \A t \in Task : status[t] # "terminal")

IInv ==
    /\ TypeOK
    /\ ReadyInv
    /\ HandlesInv
    /\ LoopInv
    /\ WaitInv
    /\ DepsDoneBeforeRun
    /\ LimitInv
    /\ AttemptsInv
    /\ ExitInv

-----------------------------------------------------------------------------
(* The record.  What state.json may lack, and for how long. *)

\* _task_worker_map still names w.
Mapped(w) == taskOf[w] # NoTask /\ taskWorker[taskOf[w]] = w

\* If updates and spawns succeed, the state.json of a halted run agrees with the
\* supervisor on every task, and the workers it goes on calling running are exactly
\* those the halt closed: their rows are not written again, though none of them lives.
HaltedRecordExact ==
    pc = "exited" /\ diskRun = "halted" =>
        /\ diskTask = status
        /\ \A w \in Worker : diskWorker[w] = "running" <=> Mapped(w)
        /\ \A w \in Worker : Mapped(w) => proc[w] = "reaped"

ExitRow == {"exitTaskRow", "exitWorkerRow", "exitCostRow"}
Over == {"return", "exited"}

\* Under every fault: DiskNeverAhead, and what it needs to last.
AheadInv ==
    /\ DiskNeverAhead
    /\ pc \in ExitRow => cur \in Worker /\ proc[cur] = "reaped"
    /\ diskRun \in {"completed", "failed", "halted"} => pc \in Over \cup {"dead"}
    /\ diskRun \in {"completed", "failed", "halted"} => active = {}

\* If updates succeed, only the worker whose row comes next has none.
RowInv ==
    \A w \in Worker : proc[w] # "unborn" /\ diskWorker[w] = "absent" =>
        cur = w /\ pc \in {"spawnWorkerRow", "dead"}

\* If updates and spawns succeed, only the task of the worker at hand may differ.
TaskRowInv ==
    \A t \in Task : diskTask[t] # status[t] =>
        /\ cur \in Worker /\ taskOf[cur] = t
        /\ pc \in {"spawnWorkerRow", "spawnTaskRow", "exitTaskRow", "dead"}

\* The rows that say running are those of the map, but for the worker at hand.
WorkerRowInv ==
    /\ pc # "dead" => \A w \in Worker :
          diskWorker[w] = "running" <=>
              \/ Mapped(w) /\ ~(cur = w /\ pc = "spawnWorkerRow")
              \/ cur = w /\ pc \in {"exitTaskRow", "exitWorkerRow"}
    /\ \/ pc \in Halting \cup Over \cup {"dead"}
       \/ \A w \in Worker : Mapped(w) => w \in active
    /\ diskRun \in {"completed", "failed"} => \A w \in Worker : ~Mapped(w)
    /\ \A w \in Worker : Mapped(w) => w \in active \/ proc[w] = "reaped"
    /\ pc = "spawnWorkerRow" => cur \in active
    /\ pc \in ExitRow => ~Mapped(cur)

\* The cost on disk lacks only what the workers still held were credited with.
CostRowInv ==
    /\ \/ pc \in Halting \cup Over \cup ExitRow \cup {"dead"}
       \/ \E w \in active : result[w] = "credited"
       \/ diskUsd = Spent
    /\ pc # "dead" /\ diskRun \in {"completed", "failed"} => diskUsd = Spent

RecordInv ==
    /\ AheadInv
    /\ ~UpdatesMayFail => RowInv
    /\ ~UpdatesMayFail /\ ~SpawnMayFail => TaskRowInv /\ WorkerRowInv /\ CostRowInv

-----------------------------------------------------------------------------
(* Liveness. *)

\* Once a signal is taken the run stops, even if no worker ends on its own:
\* SIGTERM reaches every worker that outlived SIGINT.
HaltCompletes == haltEvent ~> pc \in Stopped

\* A task has a status that nothing takes it out of: one the plan gave it, or it is
\* pending and waits for a task that was given up.
Starved ==
    \E t \in Task :
        \/ status[t] \in {"ready", "assigned", "failed"}
        \/ status[t] = "running" /\ taskWorker[t] = NoWorker
        \/ status[t] = "pending" /\ \E d \in DependsOn[t] : status[d] = "terminal"

\* max_parallel is passed on as the command line or the plan has it, without a test: with
\* none or less, the limit is reached before the first worker and the loop only sleeps.
NothingMayStart == MaxParallel <= 0

\* What the supervisor waits for can come.  A run with a task left to end has a worker,
\* a backoff or a task that it may start in this pass, unless it is starved or may start
\* nothing at all: so it is for every acyclic plan, wherever tasks failed and were
\* retried.  And no close() waits for a worker that nobody told to end.
NeverStuck ==
    /\ pc = "head" /\ ~AllTasksTerminal /\ ~Starved /\ ~NothingMayStart =>
          active # {} \/ cooling # {} \/ (GetReadyTasks # {} /\ ~AtLimit)
    /\ pc = "haltClose" => \A w \in active : proc[w] = "live" => sig[w] >= 2

\* The result lines that are surely 110% of the cap, which is less than GlobalCap + 1 lines.
HardCap == (11 * (GlobalCap + 1) + 9) \div 10
OverHardCap == Spent >= HardCap

\* At the latest when 110% of the global cap is spent, the hard halt of the docs, a moment
\* comes when no live worker is left without a signal, even if all its polls fall on a
\* heartbeat.  (The code interrupts workers as soon as 100% is exceeded, which the docs
\* rule out; nothing is said of that here.)
HardCapReachesEveryWorker ==
    OverHardCap ~> \A w \in Worker : proc[w] = "live" => sig[w] # 0

\* If every worker ends sooner or later, the run ends, unless a task it gave up on has
\* a dependent, or the plan itself gave a task a status no step leads out of, or
\* max_parallel lets nothing start.
RunEndsUnlessStarved == WorkersEnd => <>(pc \in Stopped \/ Starved \/ NothingMayStart)

-----------------------------------------------------------------------------
(* What a doc, a docstring or a test says and the code does not do. *)

\* orchestrator.py:207: "Run the supervisor loop until all tasks complete or halt."
RunEnds == WorkersEnd => <>(pc \in Stopped)

\* docs/ARCHITECTURE.md:164: when a worker exits 0, "final cost/token snapshot parsed".
FinalSnapshotParsed ==
    \A w \in Worker : diskWorker[w] = "done" => result[w] # "drained"
=============================================================================
