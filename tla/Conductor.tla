----------------------------- MODULE Conductor -----------------------------
(***************************************************************************)
(* The supervisor of Orchestrator with two things it does not expect: the  *)
(* operator's `tab-conductor kill` (cli.py), another process that goes by  *)
(* what state.json says; and a WorkerHandle that cannot be made after      *)
(* Popen, so that a worker runs which the supervisor takes for one that    *)
(* failed to start (runner.py).                                            *)
(*                                                                         *)
(* kill signals the rows of the document it read one by one, while the     *)
(* supervisor goes on.  That it writes its copy back without a lock is     *)
(* shown on the store's own steps in KillCommand.                          *)
(***************************************************************************)
EXTENDS Orchestrator

VARIABLES
    lost,      \* the workers whose process runs without a handle
    killPc,    \* where kill is: "start", "signal", "ended"
    killCopy,  \* the document it read, or NoCopy
    killTodo,  \* the workers in it whose pid is still to be signalled
    killHit,   \* whether killed > 0
    atRead     \* the workers with a handle that were live when it read

killVars == <<killPc, killCopy, killTodo, killHit, atRead>>
cvars == <<vars, lost, killVars>>

NoCopy == [run |-> "", task |-> <<>>, worker |-> <<>>, usd |-> 0]

CInit ==
    /\ Init
    /\ lost = {}
    /\ killPc = "start" /\ killCopy = NoCopy
    /\ killTodo = {} /\ killHit = FALSE /\ atRead = {}

-----------------------------------------------------------------------------
(* Mutants. *)

\* killed = 1 for the last signal that was taken, 0 for one that was not
TallyLast(taken) == taken

\* kill marks the run as halted at once
MarkedHalted == [killCopy EXCEPT !.run = "halted"]

\* the OSError of WorkerHandle is let through without _maybe_retry_task
ForgetFailure(t) == UNCHANGED <<status, retries, cooling, exitCode>>

-----------------------------------------------------------------------------
(* A handle that is not made. *)

\* what the except clause of _spawn_ready_workers does with the task
AfterOSError(t) == MaybeRetryTask(t)

\* Popen started the process; the directory of its events could not be made.  The
\* Popen object is dropped with the exception and the pipe with it.  Whether a later
\* Popen() reaps the process then makes no difference to anything below.
SpawnLosesHandle(t, w) ==
    /\ SpawnMayFail
    /\ pc = "spawn" /\ DispatchedFirst(t, ready)
    /\ ~AtLimit
    /\ IsFirst(w, {v \in Worker : proc[v] = "unborn"})
    /\ ready' = ready \ {t}
    /\ taskOf' = [taskOf EXCEPT ![w] = t]
    /\ proc' = [proc EXCEPT ![w] = "live"]
    /\ result' = [result EXCEPT ![w] = "drained"]
    /\ lost' = lost \cup {w}
    /\ AfterOSError(t)
    /\ UNCHANGED <<pc, toPoll, completed, cur, mapVars, haltEvent, signalled,
                   rc, sig, diskVars, killVars>>

-----------------------------------------------------------------------------
(* kill. *)

\* json.load of state.json
KillReads ==
    /\ killPc = "start"
    /\ killPc' = "signal"
    /\ killCopy' = [run |-> diskRun, task |-> diskTask, worker |-> diskWorker, usd |-> diskUsd]
    /\ killTodo' = {w \in Worker : diskWorker[w] # "absent"}
    /\ atRead' = {w \in Worker \ lost : proc[w] = "live"}
    /\ UNCHANGED <<vars, lost, killHit>>

\* killed += 1, or not
Tally(taken) == killHit \/ taken

\* getpgid and killpg for the pid of one row, whatever the status in it.  A process not
\* waited for takes the signal, but a dead one may refuse it on macOS; a pid that was
\* waited for is nobody's, or by now belongs to a stranger, who takes it or refuses.
KillSignalsRow(w) ==
    /\ killPc = "signal" /\ w \in killTodo
    /\ killTodo' = killTodo \ {w}
    /\ \/ /\ proc[w] = "live"
          /\ Signal({w}, 2)
          /\ killHit' = Tally(TRUE)
       \/ /\ proc[w] \in {"exited", "reaped"}
          /\ \E taken \in BOOLEAN : killHit' = Tally(taken)
          /\ UNCHANGED sig
    /\ UNCHANGED <<pc, loopVars, taskVars, mapVars, haltVars, taskOf, proc, rc, result,
                   diskVars, lost, killPc, killCopy, atRead>>

KillIsThrough ==
    /\ killPc' = "ended"
    /\ killCopy' = NoCopy /\ killTodo' = {} /\ killHit' = FALSE /\ atRead' = {}

\* killed > 0: state.json is left alone
KillReports ==
    /\ killPc = "signal" /\ killTodo = {} /\ killHit
    /\ KillIsThrough
    /\ UNCHANGED <<vars, lost>>

\* st["status"] = "halting"
Marked == [killCopy EXCEPT !.run = "halting"]

\* killed == 0: the copy replaces state.json, or an OSError is dropped
KillMarks ==
    /\ killPc = "signal" /\ killTodo = {} /\ ~killHit
    /\ \/ /\ diskRun' = Marked.run /\ diskTask' = Marked.task
          /\ diskWorker' = Marked.worker /\ diskUsd' = Marked.usd
       \/ UpdatesMayFail /\ UNCHANGED diskVars
    /\ KillIsThrough
    /\ UNCHANGED <<pc, loopVars, taskVars, mapVars, haltVars, procVars, lost>>

Kill == KillReads \/ (\E w \in Worker : KillSignalsRow(w)) \/ KillReports \/ KillMarks

CNext ==
    \/ Next /\ UNCHANGED <<lost, killVars>>
    \/ \E t \in Task, w \in Worker : SpawnLosesHandle(t, w)
    \/ Kill

CSpec == CInit /\ [][CNext]_cvars

-----------------------------------------------------------------------------
(* Safety. *)

\* Whoever dies, and although kill replaces state.json by an older document, it never
\* claims more than has happened; a halted run may have processes left, but only such
\* as lost their handles.
RecordNeverAhead ==
    /\ \A t \in Task : diskTask[t] \in {"done", "terminal"} => status[t] = diskTask[t]
    /\ \A w \in Worker : diskWorker[w] = "done" => proc[w] = "reaped" /\ rc[w] = 0
    /\ diskRun = "completed" => AllDone
    /\ diskRun = "failed" => AllTasksTerminal /\ ~AllDone
    /\ diskRun = "halted" => Unreaped \subseteq lost

\* When kill finds no live worker and marks the run, every worker it read of is dead,
\* although the supervisor went on while kill looked at one row after the other.
KillMarksOnlyDeadRuns ==
    killPc = "signal" /\ killTodo = {} /\ ~killHit =>
        \A w \in Worker : killCopy.worker[w] # "absent" => proc[w] # "live"

\* Live when kill read state.json, and neither ended nor sent a SIGTERM since.
MissedByKill == {v \in atRead : proc[v] = "live" /\ sig[v] < 2}

\* When kill is through with its rows, every worker that was running when it read them
\* ended or got a SIGTERM, but for one at most if every update succeeded: the one the
\* supervisor was about to record.  So it is also when the supervisor died, started
\* others or was halted meanwhile.
KillReachesAllButOne ==
    killPc = "signal" /\ killTodo = {} => \A v, w \in MissedByKill : v = w

\* What a worker without a handle can upset is bounded: two attempts at one task overlap
\* only if all but one of them lost their handles, more than max_parallel processes exist
\* only if the others lost theirs, and when run() returns only such processes are left,
\* whatever kill, a halt and the retries did in between.
OnlyLostGoAstray ==
    LET kept == Unreaped \ lost
    IN  /\ \A v, w \in kept : taskOf[v] = taskOf[w] => v = w
        /\ kept = {} \/ Cardinality(kept) <= MaxParallel
        /\ pc = "exited" => kept = {}

\* Nothing the supervisor does depends on a process without a handle: with those
\* taken for ended, it is the supervisor of Orchestrator.
HeldProc == [w \in Worker |-> IF w \in lost THEN "reaped" ELSE proc[w]]
Held == INSTANCE Orchestrator WITH proc <- HeldProc

-----------------------------------------------------------------------------
(* The inductive invariant behind the theorems of Conductor_proofs. *)

\* A process without a handle was never the supervisor's to poll, close or record.
LostInv ==
    /\ proc \in [Worker -> {"unborn", "live", "exited", "reaped"}]
    /\ lost \subseteq Worker \ active
    /\ \A w \in lost : proc[w] \in {"live", "exited"} /\ result[w] = "drained"

\* Only workers that were started with a handle have a row or get one.
RowsInv ==
    /\ pc \in {"spawnWorkerRow"} \cup ExitRow =>
          cur \in Worker \ lost /\ proc[cur] # "unborn"
    /\ \A w \in Worker : w \in lost \/ proc[w] = "unborn" => diskWorker[w] = "absent"

\* Until kill has read, only the worker whose row comes next has none.
UnrecordedInv ==
    killPc = "start" /\ ~UpdatesMayFail =>
        \A w \in Worker \ lost : proc[w] # "unborn" /\ diskWorker[w] = "absent" =>
            cur = w /\ pc \in {"spawnWorkerRow", "dead"}

\* What the copy of kill says of an end is still true, and it has rows for no others.
CopyInv ==
    killPc = "signal" =>
        /\ killCopy.task \in [Task -> TaskStatus] /\ killCopy.usd \in Nat
        /\ killCopy.worker \in [Worker -> {"absent", "running", "done", "failed"}]
        /\ \A t \in Task : killCopy.task[t] \in {"done", "terminal"} =>
              status[t] = killCopy.task[t]
        /\ \A w \in Worker :
              /\ killCopy.worker[w] = "done" => proc[w] = "reaped" /\ rc[w] = 0
              /\ w \in lost \/ proc[w] = "unborn" => killCopy.worker[w] = "absent"

\* What kill has made of the rows it is through with.
KillInv ==
    /\ killPc \in {"start", "signal", "ended"}
    /\ killTodo \subseteq Worker /\ atRead \subseteq Worker /\ killHit \in BOOLEAN
    /\ killPc = "signal" =>
          /\ \A v \in atRead : proc[v] # "unborn"
          /\ ~killHit => \A w \in Worker \ killTodo :
                killCopy.worker[w] # "absent" => proc[w] \in {"exited", "reaped"}
          /\ ~UpdatesMayFail => \A v, w \in MissedByKill \ killTodo : v = w

ConductorInv ==
    /\ Held!IInv /\ Held!AheadInv
    /\ LostInv
    /\ RowsInv
    /\ UnrecordedInv
    /\ CopyInv
    /\ KillInv
=============================================================================
