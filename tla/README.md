# tab-conductor in TLA+

TLA+ modules for tab-conductor from the plan to the end of a run: the two checks a
plan passes, the supervisor loop and its worker processes, the shared `state.json`,
the watch the supervisor keeps over each worker, and the operator's `kill`.
TLC checks the modules on small instances; TLAPS proves the main safety properties for
every instance. Paths below are relative to the
package `src/src/tab_conductor/` unless they start with `src/`.

## 1. The system

`tab-conductor run plan.yaml` parses a plan (tasks with dependencies, priorities
and retry budgets) and runs an `Orchestrator`: one thread that starts worker
subprocesses (`claude -p`), polls them, and records what it sees in
`state.json`. Other processes read that file (`status`, `logs`, `query`) or
interfere (`kill`). Nothing else is shared.

### Components

| Component | State it keeps | Operations | Talks to | Modelled |
|---|---|---|---|---|
| Plan parser and start of a run, `plan_parser.py`, `cli.py` `validate` and `run`, `Orchestrator.__init__` | parsed tasks, path and colours of the search, run directory | `parse_plan`, `_validate_task`, both `_check_dag_cycles`, `_init_state` | YAML file, file system, store | `PlanIntake`; what it promises is in `Plans` |
| Supervisor loop, `orchestrator.py` | task records, `_active_handles`, `_task_worker_map`, halt event, exit code | `run`, spawn ready, poll, process exit, retry, halt, finalize, signal handlers | handles, guard, detector, store | `Orchestrator` |
| Worker handles, `runner.py` | selector, line buffers, recent lines, heartbeat time, start of the escalation | `spawn`, `poll_once`, `is_alive`, signals, `kill_escalation`, `close` | the process and its pipe, guard, detector | `Orchestrator` (as steps of the loop), `WorkerMonitor` (in time), `Conductor` (a handle that cannot be made) |
| Cost guard, `cost_guard.py` | usage of each worker | `add_usage`, `check`, `summary` | called by loop and handles | in `Orchestrator` and `WorkerMonitor`, one unit per result line |
| Stuck detector, `stuck_detector.py` | last heartbeat, repeat count | `register`, `update_heartbeat`, `update_capture`, `check` | called by loop and handles | `WorkerMonitor`; its verdict is arbitrary in `Orchestrator` |
| Worker process | output, exit code | prints lines, exits, hangs | pipe, signals | environment of `Orchestrator` and `WorkerMonitor` |
| State store, `state.py` | `state.json`, `state.lock`, a thread lock | `init`, `read`, `update` | the file system, other processes | `StateStore`, promise in `VersionedStore` |
| `kill`, `cli.py` | a copy of `state.json` | reads, signals each row, may write back | `state.json`, worker pids | `Conductor` (beside the supervisor), `KillCommand` (beside the store's own steps) |
| Queries, HMAC, schemas, secret filter, ULIDs, logging, exceptions, dashboard, other commands | none, or a stub | pure functions, formatting, output | - | no, section 8 |

### What is hard about it

* The loop is one thread, but workers exit, pipes fill, backoffs elapse and signal
  handlers run between any two of its steps; lists it computed (`ready`,
  `completed`) are used after the things they describe may have changed.
* One exit becomes three separate updates of `state.json` (task, worker, cost),
  each of which may fail and is then only logged; the supervisor may die between
  them.
* `state.json` is shared by processes under two kinds of lock whose semantics
  differ between Linux (`flock`) and macOS (`lockf`), and survives a power loss
  only as far as `fsync` was called.
* Two clocks: the handle's heartbeat and the ladder use the monotonic clock, the
  detector's idle time the wall clock. A heartbeat cuts a poll short, so that it
  neither reads nor escalates.
* A plan is checked twice, by two copies of one search that differ: the parser's
  passes over unknown tasks, the supervisor's refuses them, and each has its own
  share of Python's stack. Keys the parser does not know, such as `status` and
  `retries`, pass between the two unread.
* `kill` goes by a document that is already old when it signals the first row, and
  the supervisor retries or records meanwhile.
* Two retry counters meet (failed spawns and failed exits), and two ways to end a
  run (everything terminal, a halt).

### What makes each component correct

* **Intake**: the tasks a supervisor sets out with are a well-formed, acyclic plan;
  what `validate` passes has no defect; only cycles are called cycles; a plan that passed the first check is not refused
  by the second; every command ends.
* **Supervisor**: no task has two processes; dependencies are done before a task
  starts; `max_parallel` and the retry budget hold; no process is left behind on
  return; signals reach only processes that were not waited for; the exit code
  tells the truth; a halt ends; the run ends unless a task is starved or
  `max_parallel` lets nothing start.
* **Record**: `state.json` never claims what has not happened; a crash leaves at
  most one worker that it does not show; after an orderly end it is exact, and after
  a halt exact but for the workers the halt ended.
* **kill**: it calls a run halting only if no worker it read of lives; of the workers
  running when it read, it misses at most the one being recorded.
* **Store**: an acknowledged update is never lost; a version names one document;
  a caller never sees the version go back; every call ends.
* **Watch**: no signal without a reason; SIGINT, SIGTERM and SIGKILL in this order
  and at their times; an overspending worker ends; a full pipe is drained.

## 2. Modules

| Module | What it is | Lines of code behind it |
|---|---|---|
| `Plans` | what a well-formed plan is | the tests of `plan_parser.py` and of the schema |
| `PlanIntake` | from the plan to the supervisor | `plan_parser.py`, `Orchestrator.__init__`, `cli.py` `validate` and `run` |
| `MCPlanIntake` | plans for TLC | - |
| `PlanIntake_proofs` | 6 theorems | - |
| `TaskLifecycle` | abstract: the tasks alone | what `orchestrator.py` promises |
| `Orchestrator` | the supervisor, its workers and the record; EXTENDS `Plans` | `orchestrator.py`, parts of `runner.py`, `cost_guard.py` |
| `MCOrchestrator` | plans for TLC | - |
| `Orchestrator_proofs` | 11 theorems about the supervisor | - |
| `Record_proofs` | 5 theorems about what `state.json` says of it | - |
| `Conductor` | `Orchestrator` beside `kill`, and workers without a handle | `cli.py` `kill`, `WorkerHandle.__init__` |
| `MCConductor` | its instance | - |
| `Conductor_proofs` | 8 theorems about the supervisor beside `kill` | - |
| `VersionedStore` | abstract: one versioned document | what `state.py` promises |
| `StateStore` | threads, processes, locks, files, crashes | `state.py` |
| `MCStateStore` | threads and processes for TLC | - |
| `StateStore_proofs` | 6 theorems | - |
| `KillCommand` | `StateStore` next to `kill` | `cli.py` `kill` |
| `MCKillCommand` | its instance | - |
| `KillCommand_proofs` | 1 theorem | - |
| `WorkerMonitor` | one worker in time | `runner.py`, `stuck_detector.py`, `cost_guard.py`, the loop body |
| `MCWorkerMonitor` | its instance | - |
| `WorkerMonitor_proofs` | 6 theorems | - |

Each module begins with its constants and variables, then the mutants (variants
of a definition with a plausible bug, used by no action), helpers, actions,
fairness, properties.

### PlanIntake

`pc` is the place of the command. `Load` stands for everything up to the list of
tasks (a file that is missing, too large, not UTF-8, no YAML, or YAML on which
`safe_load` raises something else than a `YAMLError`); `ValidateTask` for
`_validate_task` on the next task, whose tests are tried in the code's order
(`FieldOutcomes`); `CheckReferences` for the end of the list. Then comes the search,
one look at a dependency at a time: `SearchFrom` (a white root), `LookAt`, `Leave`,
`SearchEnds`. The grey tasks are the path itself (`stack`), the black ones a set, and
`left` is what the `for` loops of the open calls have still to look at. The same
actions are the supervisor's search: `Subject`, `Verdict`, `Depth` and `Skipped` are
what differs. `MakeRunDir`, `BuildFromPlan`, `BuildFromList`, `RecordsBuilt`, `BuildGuards`
(a cap that is not positive raises, after the directory was made) and
`InitState` are `Orchestrator.__init__` in its order, reached from `run` or directly
(`command = "api"`, as the tests do), where a later task replaces one with its id.

A string is a member of `Text` and `Strip` its trimmed form; a number is one, or not
one, or infinite, which are the three ways in which `int()` ends. Only `status` and
`retries` stand for the keys that pass through unread.

### Orchestrator

`pc` is the place of the supervisor thread. One action is one stretch of code
between two points where something else can intervene: `Start` (handlers,
status `running`), `Finalize`, `BeginSpawning` (the ready list), `SpawnWorker` and
`SpawnFails` (`Runner.spawn` returned, or raised in `Popen` or before it; that it
raises after `Popen` is an action of `Conductor`), `WriteSpawnedWorker` and
`WriteSpawnedTask` (two updates), `PollOnce`, `CheckWorker` (cap, verdict,
`is_alive`), `ProcessWorkerExit` (`close`, status, retry), `WriteExitTask`,
`WriteExitWorker`, `WriteExitCost`, `Sleep`, and the halt in six actions
(`BeginHalt`, `HaltInterrupt`, `HaltWait`, `HaltTerminate`, `HaltClose`,
`EndHalt`). `CloseReturns` takes the two seconds that `close` waits before it kills for
over: what it says is that the process has exited and the pipe is empty. The environment has `HandleSignal`, `WorkerReports`, `WorkerExits`,
`BackoffElapses` and `Die` (the supervisor is killed, or an exception nobody
catches).

Data is abstracted as follows. A task is a number in plan order. Worker ids are
numbers in the order of issue. A worker prints at most one result line, worth
one unit of cost, which is in its pipe, credited, or drained unread by `close`.
Time is gone: a backoff is over or not, the halt's deadline may pass at any turn
of its wait, a verdict is arbitrary where `ClockMayJump`, and the ladder may
take any rung not below the last. `state.json` is what its readers tell apart:
the run's status, a status per task and worker, and the cost; each update is
atomic (section *StateStore* says why it may be) and may fail.

Initial statuses and retries come from `PlanStatus` and `PlanRetries`, because that
is what `PlanIntake` lets through.

### Conductor

`SpawnLosesHandle` is a `Runner.spawn` in which `Popen` succeeded and
`WorkerHandle.__init__` raised `OSError`: the process runs, its pipe has no reader,
and the supervisor does what it does after a failed spawn (`AfterOSError`). `lost`
remembers such workers. `KillReads` takes the copy, `KillSignalsRow` tries one row of
it (in any order, whatever its status), and then `KillReports` or `KillMarks` ends
it. A process that was not waited for takes the signal, but a zombie may refuse it;
a pid that was waited for may belong to nobody or to a stranger. Everything else of
the supervisor goes on between any two of these.

### StateStore

`pc[t]` is the place of thread `t` in its call. Steps are system calls: take the
thread lock, try the file lock or time out after five seconds, read, mutate and
validate, write the temporary file, `os.replace`, `fsync` of the directory,
release, return. Any file operation may raise (`FilesMayFail`), the mutator's
result may be refused (`MutatorMayFail`), a process may be killed (its locks go
with it) and the machine may lose power. A document is its version and the set
of updates applied to it. `onDisk` is the set of contents that `state.json` may
have after a power loss: a replace adds one, the sync of the directory leaves
only the last. `PerProcessLocks` selects `lockf`, whose locks belong to the
process, so that any close in the process drops them.

### KillCommand

`KillReads`, `KillSignals`, `KillMarks`: `kill` reads without a lock, and when it
found no live worker replaces the file by its copy with status `halting`, without
lock, version or sync.

### WorkerMonitor

Times are ages in seconds (`sincePoll`, `sinceBeat`, `idle`, `sinceOver`) which
`Tick` advances together; only `idle` is by the wall clock, which `SetClock` may
set once. `place` is where one pass of the loop is: the poll
(`PollBeat`, `PollRead`, `PollBlind` or `PollRaises`), the cap test, the verdict test, the
exit test. A poll reads at most one line of a bounded pipe, the least the code
may get. Sample hashes are reduced to whether the window of lines changed.
`selector` is the handle's: registered with the worker's streams, never registered (then
every poll between heartbeats is `PollBlind`, which neither reads nor escalates), or
`failed` once a `select` raised `OSError`, which may happen at any poll.
`PollRaises` is a line that is JSON but no object, or a result with a negative
or null count: the exception leaves `poll_once` and `run()`.
In `WorkerMonitor` only caps and verdicts send signals; those of a halt are in
`Orchestrator`.

### Mutual assumptions

`Orchestrator` assumes `WellFormedPlan` of its plan (`PlanAssumption`); theorem
`WellFormedPlans` of `PlanIntake_proofs` says that every plan a supervisor sets out
with is one, up to the numbering of the tasks. `Conductor` takes updates as atomic,
`kill`'s write included, since that is one `os.replace`; that it goes past the lock,
so that it may fall between the read and the replace of an update, is what
`KillCommand` shows on the steps of the store.

`Orchestrator` uses the store as atomic updates that return or fail. This is what
`StateStore` implements of `VersionedStore`; a *failed* update may still have
entered the document (the directory's `fsync` raised after the replace), which
`Written` covers since it allows both. `Orchestrator` lets verdict and rung be
arbitrary but for the ladder never going down (`EscalateIf`); theorem `LadderClimbs`
says that the ladder of `WorkerMonitor` does not, whatever the clock shows.
`WorkerMonitor` has one worker and takes the spending of the others as a step of its
environment, which contains everything the loop's other handles do.

## 3. Properties checked

| Run | Question | Properties |
|---|---|---|
| `intake` | which plans reach a supervisor, and how the others are refused | `IntakeInv`, `PlanIsWellFormed`, `CyclesAreReal`, `SecondCheckAgrees`, `ValidPlansAreSound`, `IntakeEnds` |
| `safety` | the supervisor's safety on a join with a retry, a spent budget and a SIGINT at any time | `IInv`, `NoDoubleRun`, `RetryBudget`, `NobodyLeftBehind`, `ExitCodeHonest`, `AtMostOneUnrecorded`, `FinalRecordExact`, `HaltedRecordExact`, `RecordInv`, `SignalsHitOnlyWorkers`, `ImplementsLifecycle` |
| `faults` | what may be in `state.json`, and how many processes there are, when spawns (up to `Popen`), updates and the supervisor fail | `DiskNeverAhead`, `ParallelLimit` |
| `live` | that halts complete, the hard cap reaches every worker, runs end, and what they wait for can come | `NeverStuck`, `HaltCompletes`, `HardCapReachesEveryWorker`, `RunEndsUnlessStarved` |
| `conductor` | what `kill` reaches and may claim, and what a worker without a handle spoils | `RecordNeverAhead`, `KillMarksOnlyDeadRuns`, `KillReachesAllButOne`, `OnlyLostGoAstray`, `ConductorInv` |
| `store` | the store's promises under every fault, with `flock` | `UpdatesSurvive`, `VersionTellsContent`, `StoreInv`, `ReadsNeverGoBack`, `ImplementsDocument`, `EveryCallEnds` |
| `monitor` | verdicts, ladder and pipe in time | `MonitorInv`, `NoFalseAlarm`, `OnlySpendersAreSignalled`, `GraceBeforeSigkill`, `OverspendingWorkerEnds`, `PipeDrains` |

Two results of `conductor` are worth a sentence. A worker without a handle breaks
`NoDoubleRun`, `NobodyLeftBehind` and `ParallelLimit`; what remains is
`OnlyLostGoAstray`: the three hold of the other workers, so every exception involves a
worker of `lost`, and the retry budget still counts it (theorem `BudgetKept`). And although `kill` replaces `state.json` by an
older copy, the record still never runs ahead of what happened (`RecordNeverAhead`); it
only falls behind.

Each property is shown to be breakable: `PROJECT.json` names for each a mutant of
one mapped definition under which TLC finds it violated.

### Where the code and its documentation differ

Five runs each refute one sentence of the repository.

| Run | The sentence | What the code does |
|---|---|---|
| `run_ends` | `orchestrator.py:207` "until all tasks complete or halt" | a dependent of a task that was given up is never ready nor terminal: the loop never ends |
| `snapshot` | `src/docs/ARCHITECTURE.md:164` "final cost/token snapshot parsed" | a result line that arrives after the last read is drained by `close` and not credited |
| `lockf` | `src/docs/ARCHITECTURE.md:42` "Prevent concurrent writes" | under `lockf` a reader thread drops the lock of a writer thread; an acknowledged update is lost |
| `kill` | the same line | `kill` writes back a stale copy |
| `idle` | `src/docs/COMPARISON.md:58` "every stuck worker is detected and killed" | the heartbeat measured is the supervisor's own, so a hung worker is never idle |

Two theorems bound `lockf` and `kill`. Under `lockf` the store's promises hold as long as
each process has one thread (section 6, *Store*): the hazard is two threads of one
process, and nothing else. And of all the steps beside `kill`, its one write is the only
one that takes an update out of `state.json` while the power is on (`OnlyKillUndoes`).

`idle` deserves a word too. `poll_once` calls `update_heartbeat` every five
seconds whatever the worker does. The idle time the detector sees is therefore
bounded by the time between two polls plus five seconds; theorem
`NobodyLooksStuck` says that it never reaches even the 60-second alarm while polls
are punctual. Only a pause of the supervisor or a step of the wall clock makes a
verdict, and then it hits healthy workers too.

Other disagreements are in the modules, and in no run of their own:

* `src/docs/ARCHITECTURE.md:188` (and `src/skill/references/architecture.md:154`) says
  that at 100 % of the global cap no new task is dispatched and running workers finish.
  The code does neither: `SpawnWorker` has no such guard because `_spawn_ready_workers`
  has none, and `CheckWorker` interrupts every running worker as soon as the cap is
  exceeded. The next line says that at 110 % all workers get SIGTERM and the run is
  marked `halted`; there is no such level in the code: the workers climb the ladder from
  SIGINT, the run goes on, and ends as `completed` or `failed`. What the docs and the
  code have in common is that a worker alive at 110 % is told to end, and this is all
  that `HardCapReachesEveryWorker` says.
* `orchestrator.py:207` promises that the loop ends; with `max_parallel` zero or
  negative, which `cli.py:144` passes on untested, from the plan as from the command
  line, no worker is ever started and it only sleeps (`AtLimit`, `NothingMayStart`).
* `orchestrator.py:210` says exit code 130 means SIGINT; a failure processed in the
  same pass, or in the last one before the halt, sets it to 1 (`MaybeRetryTask`).
* `plan_parser.py:132` promises `PlanParseError`; an infinite `priority` or
  `max_retries` ends in `OverflowError` (`IntOutcome`), a file that is not UTF-8 in
  `UnicodeDecodeError`, YAML nested too deep or with a date that is none in
  `RecursionError` or `ValueError` (`Load`), and a long chain in `RecursionError`
  (`Enter`).
* `src/docs/ARCHITECTURE.md:167` says that the task of a killed worker becomes
  terminal; to the supervisor a worker that `kill` ended is a failed one, and it is
  retried (`ProcessWorkerExit`).

## 4. Bounds, and why they are enough

* `intake`: up to three tasks over three ids, every graph on them, and fifteen tasks
  with one defect each: three ids are enough for a self-loop, cycles of two and three,
  a shared dependency (the diamond's grey and black tests) and a chain longer than
  the supervisor's stack. `ParserDepth = 3` and `SupervisorDepth = 2` make the second
  search fail where the first does not; on three tasks the parser's own search never
  runs out of stack, which is left to the theorems. 73,273 states.
* `conductor`: two independent tasks at once and two workers, the first task with one
  retry, `kill` at any time, one SIGTERM to the supervisor; updates
  succeed, which `KillReachesAllButOne` needs. Two workers are what it takes for one to
  be signalled while another is retried, recorded or reaped; the ids are spent by the
  first two attempts, so of three attempts that the plan allows two run at most. That the
  supervisor dies as well is left to the theorems of
  `Conductor_proofs`, which allow it anywhere.
* `safety`: three tasks where one joins two, four workers (three plus the one
  retry that the plan allows), two at a time. A join needs three tasks; two live
  workers are enough for every pair of exits in one pass, and the retry meets a
  sibling in each of its states. `GlobalCap = 0` makes the first result line
  exceed the cap, so escalation happens in most behaviours.
  Spawns do not fail here: the two counters of retries meet in `conductor`, whose
  `ConductorInv` contains `IInv`, and in the theorems.
* `faults`: two independent tasks, both signals and the faults of `Orchestrator`,
  `MaxParallel = 1`, so that the limit is always contended. A handle lost after `Popen`
  is in `conductor`.
* `live`: as `safety` with the retry on the joining task, failing spawns, and tasks the
  plan may call running. Worker ids are bounded by `Worker`; where they run out no spawn
  succeeds any more, so the run gives the four ids that three tasks and one retry may
  use. `GlobalCap = 1`: the second result line exceeds the cap, the third is surely over
  110 % of it (`HardCap`), and a fourth worker may still run.
* `ClockMayJump` is `FALSE` in every run of `Orchestrator` and `Conductor`, where it makes
  a verdict arbitrary and so changes nothing but the signals a worker may have got; the
  theorems hold with it. The clock itself is set in `monitor`.
* `store`: three threads in two processes (a second thread of a process is what
  distinguishes thread locks from file locks), an initializer, at most two calls
  each (`MaxCalls`).
* `monitor`: the thresholds keep the order they have in the code (heartbeat and
  wait 5 s, alarm 60 s, kill 600 s) scaled to 2, 2, 3 and 4 ticks; `MaxPause = 1`;
  a pipe of two lines; `MaxResults = 1`. `sinceOver` stops at two waits, beyond
  which the ladder does not look.

No symmetry is used: tasks and workers are ordered, and liveness is checked.
`CHECK_DEADLOCK FALSE` is set where the system really stops: a worker's watch
ends with it.

## 5. Fairness

* `Orchestrator!FairSpec`: weak fairness of the supervisor thread (it never blocks
  for good: polls and waits have timeouts, `close` waits for a process that was
  signalled), of each backoff (time passes), and of the exit of a worker that was
  sent SIGTERM or SIGKILL. That a worker ends on its own is not assumed;
  `RunEnds` and `RunEndsUnlessStarved` name it as a hypothesis (`WorkersEnd`).
  SIGTERM ending a worker is an assumption about the worker: a worker that traps
  SIGTERM, or a grandchild that keeps the pipe open, can block `close` for ever.
* `PlanIntake!FairSpec`: weak fairness of the command. It is one thread that waits for
  nothing, so a step that is possible is taken.
* `StateStore!FairSpec`: weak fairness of each thread's steps; with finitely many
  calls, a waiting thread gets the lock or times out.
* `WorkerMonitor!FairSpec`: weak fairness of the supervisor, of `Tick`, and of the
  exit of a worker that was sent SIGKILL. Here SIGTERM may be ignored.

## 6. Proofs

All theorems are for every value of the constants under the modules' named
assumptions.

**Intake** (`IntakeAssumption`: types, and that stripping twice is stripping once).

    IntakeInv == TypeOK /\ BaseInv /\ SearchInv /\ CheckedInv
                 /\ PlanIsWellFormed /\ CyclesAreReal /\ SecondCheckAgrees
                 /\ ValidPlansAreSound

The heart is `SearchInv`: the path has no task twice and follows dependencies, what a
task on it has already looked at is black or next on the path, and the black tasks are
closed under dependencies and acyclic. A grey dependency then closes a cycle
(`CyclesAreReal`), a task that leaves the path keeps the black tasks acyclic (lemma
`AcyclicGrows`), and when all tasks are black the plan is acyclic. `CheckedInv` carries the parser's result
over to the end of `validate` (`ValidPlansAreSound`: the search missed no cycle, and what
was read before it is in range) and to the supervisor's search. Theorems: `IntakeInvariance`, `WellFormedPlans`,
`RealCycles`, `ChecksAgree`, `ValidPlans`, and `SearchesEnd`: every step of a search
takes a white task away, or shortens the path, or the list of what its top has still to
look at (`SearchProgresses`). That order has no infinite descent, which is the safety
half of `IntakeEnds`. `WellFormedPlans` discharges the `PlanAssumption` of everything
below.

**Supervisor** (`PlanAssumption`: `WellFormedPlan`, a finite acyclic plan with numbers
in range; `ConfigAssumption`: types only, any integer `MaxParallel`). The inductive
invariant is

    IInv == TypeOK /\ ReadyInv /\ HandlesInv /\ LoopInv /\ DepsDoneBeforeRun
            /\ WaitInv /\ LimitInv /\ AttemptsInv /\ ExitInv

The properties are not inductive alone. That no task has two processes needs that
`_active_handles`, `_task_worker_map` and the task records point at each other
(`HandlesInv`); this in turn needs to know at each place of the loop which
processes were already waited for (`LoopInv`) and that a ready list stays ready
while it is worked through (`ReadyInv`). The retry budget is an accounting
argument: each worker of a task is paid for by a retry or is its last
(`AttemptsInv`).

`NeverStuck` is what the liveness properties need of the states: at the head of the loop
there is something to go on with, a worker, a backoff or a task that the limit lets start
in this pass, unless a task is starved or `MaxParallel` is not positive. It is the result that
uses that the plan is acyclic: among the tasks without an end there is one that depends on
none of the others (lemma `SomeTaskIsReady`), and a task that is running has a worker the
supervisor holds (`WaitInv`), so that one is ready, or its worker or its backoff is there.
With fairness, this is where `RunEndsUnlessStarved` comes from; the second part, that
`close` waits only for workers that were sent a SIGTERM, is what `HaltCompletes` needs.

Theorems: `Invariance`, `TypeCorrect`, `NeverRunTwice`,
`DependenciesRespected`, `LimitRespected`, `BudgetRespected`, `NoOrphans`,
`ExitCodeTells` (for plans that call no task terminal), `NothingStuck`,
`SignalsStayInside`, `Refinement` (the supervisor implements `TaskLifecycle`).
`LimitRespected`, `NeverRunTwice` and `NoOrphans` hold of `Orchestrator`, whose spawns
fail in `Popen` or before it; `StraysBounded` below says what is left of the three when
`WorkerHandle.__init__` fails after it.

**Record** (the same assumptions).

    RecordInv == AheadInv
                 /\ (updates succeed => RowInv)
                 /\ (updates and spawns succeed => TaskRowInv /\ WorkerRowInv /\ CostRowInv)

`AheadInv` needs nothing of the faults: what the disk says of an end is written after
it and is never taken back, because done and terminal are final and a process that was
waited for stays so. The other parts say, for each place of the loop, which single row
may be missing: the worker at hand before `WriteSpawnedWorker`, its task until
`WriteSpawnedTask` or `WriteExitTask`, the cost until the last handle whose worker was
credited is processed. All are relative to `IInv`. Theorems: `RecordInvariance`,
`NeverAhead` (`DiskNeverAhead`, under every fault), `OneUnrecorded`, `FinalRecord`,
`HaltedRecord` (a halt writes no rows: the workers that go on being called running are
exactly those it closed).

**Conductor** (the same assumptions). A process without a handle breaks `IInv`: it is
the worker of no handle, and two attempts at its task may run. But the supervisor knows
nothing of it. `HeldProc` is `proc` with the lost workers taken for ended, and `Held` (in
the proofs `V`) is `Orchestrator` seen through it: each step the supervisor takes is a step
of `V` (lemma `ViewStep`), so that the lemmas of `Orchestrator_proofs` and
`Record_proofs` hold of `V` as they stand, and only `SpawnLosesHandle` and the steps of
`kill` are looked at one by one.

    ConductorInv == Held!IInv /\ Held!AheadInv
                    /\ LostInv /\ RowsInv /\ UnrecordedInv /\ CopyInv /\ KillInv

`kill` needs facts about a document that is out of date. What its copy says of an end is
still true, since an end is final (`CopyInv`): so putting the copy back never makes the
record run ahead. Of the rows it is through with, either one took the signal or all are
dead and stay so (`KillInv`). And a worker that runs without a row, when updates succeed,
is the one whose row is written next (`UnrecordedInv`). Theorems: `ConductorInvariance`,
`RecordStaysBehind` and `KillMarksNoneAlive` (under every fault), `KillMissesOneAtMost` (if
updates succeed: a failed one leaves a worker unseen for good), `StraysBounded` (one
attempt at a task, the limit, and nobody left behind, for the workers with a handle),
`BudgetKept`, `NothingStuckBeside`, `ConductorRefinement` (the tasks still go through
`TaskLifecycle`).

**Store** (`StoreAssumption`, and `SoundLocks`: `flock`, or `lockf` and one thread in each
process; at most one initializer, as a run directory has).

    StoreInv == TypeOK /\ MethodInv /\ LockInv /\ BufInv /\ FreshInv
                /\ DocumentInv /\ SeenInv

Locks exclude (`LockInv`), so a writer's buffer still is the file it read
(`BufInv`) and its update is in no document yet (`FreshInv`); hence each replace
adds one update and one version (`DocumentInv`), and whatever a caller was given
is a document of the file's history (`SeenInv`). Theorems: `StoreInvariance`,
`NothingAcknowledgedIsLost`, `VersionsAreNames`, `VersionsGoForward`,
`StoreRefinement`. The proofs use of the lock only that no two threads share one
(lemma `OwnLock`), which is what `lockf` takes away from two threads of a process.

`NoDeadlock` needs no `SoundLocks`: with either lock, and any number of initializers, some
call under way does not wait (`SomebodyMoves`). Whoever has a lock is in a call that will
give it back, after every exception and crash (`HolderInv`); an update does not wait for the
file lock for ever but times out. This is the safety half of `EveryCallEnds`.

**kill beside the store** (`SoundLocks`, and the power stays on). `OnlyKillUndoes`: each step
that replaces `state.json` builds on what it replaces, except the write of `kill`
(`OnlyKillGoesBack`). Its invariant, `KillInv` of `KillCommand`, is not the store's, which
`kill` breaks: it says that what a thread is about to write holds all that `state.json`
does (`CopyAhead`), also after `kill` put an older copy under it, because that copy is of an
earlier document (`KillCopyBehind`).

**Watch** (`MonitorAssumption`: positive thresholds). `Grace` and `LadderClimbs` need
nothing more: SIGKILL comes two waits after SIGINT, and no signal is followed by a
lower one, whatever the pauses and the clock. The others assume `Punctual`: polls at
most half a wait apart, which is also less than a heartbeat interval, and a heartbeat
plus a pause below the first alarm; with the code's constants this means polls at most
2.5 s apart.

    MonitorInv == TypeOK /\ BeatInv /\ LadderInv /\ MoneyInv /\ TermInv /\ NoRungSkipped

`BeatInv` bounds the age of the heartbeat by the age of the last poll; hence no
alarm, hence the ladder is started only by money (`MoneyInv`), which for a worker whose
streams were never registered is that of the others. `TermInv` says how
late SIGTERM can be: heartbeats take a poll from the ladder, but never two in a
row, and where no poll reads the loop's own test of the cap comes in every pass. A `select`
that raised may have taken more, so `EveryRung` is not claimed after it. Theorems: `Grace`, `LadderClimbs`, `MonitorInvariance`, `NobodyLooksStuck`,
`SignalsAreForMoney`, `EveryRung`.

**Only model-checked**: liveness (`HaltCompletes`, `HardCapReachesEveryWorker`,
`RunEndsUnlessStarved`, `EveryCallEnds`, `OverspendingWorkerEnds`, `PipeDrains`,
`IntakeEnds`), which is outside the prover's reach: it has no rule for fairness and
`ENABLED`. Of four of them the safety half is proved, as said above: that in no state
everything waits in vain (`NeverStuck`, `SomebodyMoves`), and that a search comes closer
to its end with each step (`SearchProgresses`). Every safety property of a passing run is
a theorem. Conversely `DepsDoneBeforeRun`, `NoRungSkipped`, `SomebodyMoves`, `LadderOnlyClimbs`,
`SearchProgresses` and `OnlyKillGoesBack` are theorems that no run repeats by name.

## 7. Hazards

`PROJECT.json` lists, line by line, what is hard to test in this code and the
properties that watch it. Some are watched only in part:

* `close` reads the pipe to its end before `wait(timeout=2)` and `kill`, so a
  grandchild that keeps the pipe open blocks a halt; the model assumes there is
  none.
* `kill` signals pids of workers that ended long ago. `Conductor` lets a stranger take
  the signal, and no property excludes it, since the code does not.
* A dict of the API with an unknown reference, a stack exhausted in the second
  search, or a cap that is not positive leaves a run directory without `state.json`.
* A legal chain of dependencies may be too long for Python's stack, in either search.
* The exit code after a signal is whichever assignment came last.
* Dispatch goes on above the cap; `RetryBudget` bounds what that can cost.
* A malformed line ends the supervisor and orphans its workers (`PollRaises`); the
  liveness properties of the watch are stated up to that.
* If the caller sets `poll_interval_s` to five seconds or more, every poll is a
  heartbeat: nothing is read and a worker blocks on its full pipe. `PipeDrains`
  holds because `MaxPause < BeatEvery`.
* A worker whose streams the selector would not take, or whose `select` raises, is not
  read: its own spending stays unseen, and it may block on its pipe. `PipeDrains`
  names it as an exception, and `OverspendingWorkerEnds` promises for it only what the
  loop's test of the global cap does.

## 8. Not modelled

* The event list of `state.json` (with `_record_stuck_event`), the events files and
  the logs: nothing reads them back.
* Byte buffers, line splitting, stderr, command lines and environments of workers.
* Cost arithmetic in tokens and dollars, the 80 % warning (nothing acts on it),
  `escalation_step` and `reset` (no caller).
* Temporary files left behind by a crash: they have unique names and nobody reads
  them.
* The schema: a refused document is `MutatorMayFail`.
* `parse_plan`'s metadata (`version`, `global`, `max_parallel`). `max_parallel`, or the
  option that overrides it, reaches the supervisor as it is; `Orchestrator` has it as any
  integer (`MaxParallel`).
* A second initializer of one store: a run directory is new for each run, so the runs and
  theorems of `StateStore` have one.
* `query`: filters and aggregates a document it read, keeps nothing and writes nothing.
* `hmac_signer`: a keyed hash over canonical JSON, called by no other module; a model
  would assume what it should show. `secret_filter`: regular expressions over strings.
* `schema`: loading the schemas, and `jsonschema` itself.
* `ulid`: 48 bits of clock and 80 random bits; the modules need that ids differ, which
  is a matter of probability.
* `logging_config`, `exceptions`, `tmux_dashboard` (a stub), and the commands that
  only read and print (`status`, `watch`, `logs`, `list`, `doctor`, `bugreport`).

## 9. Plan

Done, in this order: `TaskLifecycle`, `Orchestrator`, its proofs; `VersionedStore`,
`StateStore`, its proofs; `KillCommand`; `WorkerMonitor`, its proofs; the proofs about
the record; `Plans`, `PlanIntake`, its proofs; `Conductor`, its proofs; the proof about
`KillCommand`.

What could follow:

1. `Orchestrator` over the steps of `StateStore` instead of atomic updates; that the
   composition implements `Orchestrator`. The argument is now in two halves
   (`StoreRefinement`, and `Written` allowing a failed update that was committed).
2. Two workers under one `WorkerMonitor` loop, so that a slow poll of one is the pause
   of the other.
3. `close` against a pipe that outlives the worker.
