---------------------------- MODULE WorkerMonitor ----------------------------
(***************************************************************************)
(* One worker under the supervisor's eyes, in time: the polls of its       *)
(* handle (runner.py), the detector's verdict (stuck_detector.py), the     *)
(* caps (cost_guard.py) and the ladder of signals.  Orchestrator.tla lets  *)
(* a verdict and the next rung be any that time could bring; here they are *)
(* what the clocks say.                                                    *)
(*                                                                         *)
(* Times are seconds since something happened, and Tick moves all of them  *)
(* by one.  The handle reads the monotonic clock, the detector the wall    *)
(* clock, which an administrator may set.                                  *)
(***************************************************************************)
EXTENDS Integers, Sequences

CONSTANTS
    BeatEvery,        \* _HEARTBEAT_INTERVAL_S
    EscalationWait,   \* _ESCALATION_WAIT_S
    HeartbeatTimeout, \* heartbeat_timeout_s
    CaptureRepeats,   \* capture_repeat_threshold
    IdleKill,         \* idle_kill_threshold_s
    WorkerCap,        \* per_worker_usd, in result lines, rounded down
    GlobalCap,        \* global_usd, likewise
    LineKind,         \* the lines a worker may print: "text", "result", "malformed"
    PipeSize,         \* how many unread lines the pipe holds before a writer blocks
    MaxResults,       \* bound: the result lines a worker prints
    MaxPause,         \* the longest time from one poll of the worker to the next
    ClockMayBeSet     \* whether the wall clock may be set, once

ASSUME MonitorAssumption ==
    /\ {BeatEvery, EscalationWait, HeartbeatTimeout, CaptureRepeats, IdleKill,
        PipeSize, MaxPause} \subseteq Nat \ {0}
    /\ {WorkerCap, GlobalCap, MaxResults} \subseteq Nat
    /\ LineKind \subseteq {"text", "result", "malformed"}
    /\ ClockMayBeSet \in BOOLEAN

VARIABLES
    place,      \* where the pass of the loop is with this worker
    sincePoll,  \* since poll_once was called last
    sinceBeat,  \* since _last_heartbeat_ts, by the monotonic clock
    idle,       \* since rec.last_heartbeat, by the wall clock
    sinceOver,  \* since _exit_escalation_started, None while that is None
    repeats,    \* rec.capture_repeat_count; 0 until _recent_lines has a line
    pipe,       \* the lines printed and not yet read
    printed,    \* how many result lines the worker has printed
    spent,      \* the usage of this worker
    others,     \* the usage of the other workers of the run
    worker,     \* the process: "busy", "hung" (silent for ever), "exited"
    sent,       \* the signals sent to it
    selector,   \* of the handle: "registered", "unregistered", or "failed" once select raised
    clockSet    \* whether the wall clock was set

clocks == <<sincePoll, sinceBeat, idle, sinceOver, clockSet>>
usage == <<spent, others>>
process == <<pipe, printed, worker>>
vars == <<place, clocks, repeats, usage, process, sent, selector>>

None == -1
Watched == {"poll", "cap", "stuck", "alive"}

TypeOK ==
    /\ place \in Watched \cup {"ended", "raised"}
    /\ sincePoll \in 0 .. MaxPause
    /\ sinceBeat \in Nat
    /\ idle \in Int
    /\ sinceOver \in {None} \cup 0 .. 2 * EscalationWait
    /\ repeats \in 0 .. CaptureRepeats
    /\ pipe \in Seq(LineKind) /\ Len(pipe) <= PipeSize
    /\ printed \in 0 .. MaxResults
    /\ spent \in Nat
    /\ others \in Nat
    /\ worker \in {"busy", "hung", "exited"}
    /\ sent \subseteq {"SIGINT", "SIGTERM", "SIGKILL"}
    /\ selector \in {"registered", "unregistered", "failed"}
    /\ clockSet \in BOOLEAN

\* StuckDetector.register
Registered == idle = 0 /\ repeats = 0

\* Runner.spawn: registered with the detector, the handle built; that the selector
\* would not take the streams of the worker is only logged
Init ==
    /\ place = "poll"
    /\ Registered
    /\ sincePoll = 0 /\ sinceBeat = 0 /\ sinceOver = None
    /\ clockSet = FALSE
    /\ spent = 0 /\ others = 0
    /\ pipe = <<>> /\ printed = 0 /\ worker = "busy"
    /\ sent = {}
    /\ selector \in {"registered", "unregistered"}

-----------------------------------------------------------------------------
(* Mutants: what some definitions below would be with a plausible bug. *)

\* the heartbeat interval measured from the wrong end
AlwaysDue == sinceBeat >= 0

\* the detector's record not refreshed by the handle's heartbeat
NeverDue == FALSE

\* stages of the ladder one wait too early
RungTooEarly ==
    IF sinceOver = None THEN "SIGINT"
    ELSE IF sinceOver < EscalationWait THEN "SIGTERM" ELSE "SIGKILL"

\* the ladder without its middle stage
NoMiddleRung ==
    IF sinceOver = None \/ sinceOver < 2 * EscalationWait THEN "SIGINT" ELSE "SIGKILL"

\* the ladder without its last stage
NeverKills == IF sinceOver < EscalationWait THEN "SIGINT" ELSE "SIGTERM"

\* a verdict that takes a silent capture for a dead worker
SilenceKills(children) ==
    IF repeats >= CaptureRepeats THEN "KILL_CANDIDATE" ELSE "LIVE"

-----------------------------------------------------------------------------
(* What the guard and the detector say. *)

OverGlobal == spent + others > GlobalCap
OverWorker == spent > WorkerCap
OverBudget == OverGlobal \/ OverWorker

\* whether the worker has child processes; TRUE also when pgrep fails or is missing
PgrepAlive == BOOLEAN

\* StuckDetector.check; children: what pgrep_alive answered
Verdict(children) ==
    LET heartbeatBad == idle >= HeartbeatTimeout
        captureBad == repeats >= CaptureRepeats
    IN  IF idle >= IdleKill THEN "KILL_CANDIDATE"
        ELSE IF heartbeatBad /\ captureBad /\ ~children THEN "STUCK"
        ELSE IF heartbeatBad THEN "WARN_HEARTBEAT"
        ELSE IF captureBad THEN "WARN_CAPTURE" ELSE "LIVE"

KillCandidate == \E children \in PgrepAlive : Verdict(children) = "KILL_CANDIDATE"

-----------------------------------------------------------------------------
(* The ladder of signals. *)

\* the signal since_over calls for; the first call finds since_over = 0
Rung ==
    IF sinceOver < EscalationWait THEN "SIGINT"
    ELSE IF sinceOver < 2 * EscalationWait THEN "SIGTERM" ELSE "SIGKILL"

\* WorkerHandle.kill_escalation.  The start is remembered for good, also when the
\* verdict that set it was withdrawn.  A process that is gone takes no signal.
KillEscalation ==
    /\ sinceOver' = IF sinceOver = None THEN 0 ELSE sinceOver
    /\ sent' = IF worker = "exited" THEN sent ELSE sent \cup {Rung}

EscalateIf(condition) ==
    IF condition THEN KillEscalation ELSE UNCHANGED <<sinceOver, sent>>

-----------------------------------------------------------------------------
(* One pass of the supervisor's loop over this worker. *)

BeatDue == sinceBeat >= BeatEvery

\* StuckDetector.update_heartbeat, with the time of the call
UpdateHeartbeat == idle' = 0

\* poll_once that finds a heartbeat due: the handle tells the detector that the
\* worker lives, and returns before it reads, samples or escalates
PollBeat ==
    /\ place = "poll" /\ BeatDue
    /\ sinceBeat' = 0 /\ sincePoll' = 0
    /\ UpdateHeartbeat
    /\ place' = "cap"
    /\ UNCHANGED <<sinceOver, clockSet, repeats, usage, process, sent, selector>>

\* update_capture, when _recent_lines has a line: a sample per poll.  A new line may
\* leave the window of the last lines as it was.
Sample(read) ==
    \/ read = "text" /\ repeats' = 1
    \/ /\ repeats # 0
       /\ repeats' = IF repeats < CaptureRepeats THEN repeats + 1 ELSE repeats
    \/ /\ repeats = 0 /\ read = "none"
       /\ UNCHANGED repeats

\* _handle_stdout_line: only a result line carries usage
HandleStdoutLine(line) == spent' = IF line = "result" THEN spent + 1 ELSE spent

\* poll_once that reads, at most one line; then _maybe_escalate, with the usage that
\* line reported
PollRead ==
    /\ place = "poll" /\ ~BeatDue /\ selector # "unregistered"
    /\ sincePoll' = 0
    /\ UNCHANGED <<sinceBeat, idle, clockSet, others, printed, worker, selector>>
    /\ \/ /\ pipe = <<>>
          /\ Sample("none")
          /\ UNCHANGED <<pipe, spent>>
       \/ /\ pipe # <<>> /\ Head(pipe) # "malformed"
          /\ pipe' = Tail(pipe)
          /\ HandleStdoutLine(Head(pipe))
          /\ Sample("text")
    /\ EscalateIf(OverBudget' \/ KillCandidate)
    /\ place' = "cap"

\* a line that is JSON but not an object, or a result with a negative or null count:
\* the exception leaves poll_once, the loop and run()
PollRaises ==
    /\ place = "poll" /\ ~BeatDue /\ selector # "unregistered"
    /\ pipe # <<>> /\ Head(pipe) = "malformed"
    /\ pipe' = Tail(pipe)
    /\ sincePoll' = 0
    /\ place' = "raised"
    /\ UNCHANGED <<sinceBeat, idle, sinceOver, clockSet, repeats, usage, printed,
                   worker, sent, selector>>

\* poll_once that sees nothing: the streams were never registered, or select raises
\* OSError.  It returns before it reads, samples or escalates.
PollBlind ==
    /\ place = "poll" /\ ~BeatDue
    /\ \/ selector = "unregistered" /\ UNCHANGED selector
       \/ selector # "unregistered" /\ selector' = "failed"
    /\ sincePoll' = 0
    /\ place' = "cap"
    /\ UNCHANGED <<sinceBeat, idle, sinceOver, clockSet, repeats, usage, process, sent>>

\* the loop's own test of the global cap
CheckCap ==
    /\ place = "cap"
    /\ EscalateIf(OverGlobal)
    /\ place' = "stuck"
    /\ UNCHANGED <<sincePoll, sinceBeat, idle, clockSet, repeats, usage, process, selector>>

\* the loop's own test of the verdict
CheckStuck ==
    /\ place = "stuck"
    /\ EscalateIf(KillCandidate)
    /\ place' = "alive"
    /\ UNCHANGED <<sincePoll, sinceBeat, idle, clockSet, repeats, usage, process, selector>>

\* is_alive(): a dead worker leaves _active_handles and is not polled again
CheckAlive ==
    /\ place = "alive"
    /\ place' = IF worker = "exited" THEN "ended" ELSE "poll"
    /\ UNCHANGED <<clocks, repeats, usage, process, sent, selector>>

Supervisor ==
    \/ PollBeat \/ PollRead \/ PollRaises \/ PollBlind
    \/ CheckCap \/ CheckStuck \/ CheckAlive

-----------------------------------------------------------------------------
(* The worker, the other workers, and time. *)

\* The worker prints a line, unless the pipe is full and its write blocks.
WriteLine ==
    /\ worker = "busy" /\ Len(pipe) < PipeSize
    /\ \E line \in LineKind :
          /\ line = "result" => printed < MaxResults
          /\ pipe' = Append(pipe, line)
          /\ printed' = IF line = "result" THEN printed + 1 ELSE printed
    /\ UNCHANGED <<place, clocks, repeats, usage, worker, sent, selector>>

\* The worker stops: no more output, no exit.
Hang ==
    /\ worker = "busy"
    /\ worker' = "hung"
    /\ UNCHANGED <<place, clocks, repeats, usage, pipe, printed, sent, selector>>

\* A busy worker ends when it likes; one that was signalled may, and SIGKILL
\* leaves it no choice.
Exit ==
    /\ worker # "exited"
    /\ worker = "hung" => sent # {}
    /\ worker' = "exited"
    /\ UNCHANGED <<place, clocks, repeats, usage, pipe, printed, sent, selector>>

Killed == "SIGKILL" \in sent /\ Exit

\* Another worker is polled and its result line counted.
OthersSpend ==
    /\ place = "poll"
    /\ others <= GlobalCap
    /\ others' = others + 1
    /\ UNCHANGED <<place, clocks, repeats, spent, process, sent, selector>>

\* A second passes.  Beyond two waits the ladder does not look at sinceOver.
Tick ==
    /\ place \in Watched /\ sincePoll < MaxPause
    /\ sincePoll' = sincePoll + 1
    /\ sinceBeat' = sinceBeat + 1
    /\ idle' = idle + 1
    /\ sinceOver' = IF sinceOver \in 0 .. 2 * EscalationWait - 1
                       THEN sinceOver + 1 ELSE sinceOver
    /\ UNCHANGED <<place, clockSet, repeats, usage, process, sent, selector>>

\* The wall clock is set, to at most IdleKill before or after the last heartbeat.
SetClock ==
    /\ ClockMayBeSet /\ ~clockSet
    /\ clockSet' = TRUE
    /\ idle' \in -IdleKill .. IdleKill
    /\ UNCHANGED <<place, sincePoll, sinceBeat, sinceOver, repeats, usage, process, sent,
                   selector>>

Next ==
    \/ Supervisor
    \/ WriteLine \/ Hang \/ Exit \/ OthersSpend
    \/ Tick \/ SetClock

Spec == Init /\ [][Next]_vars

\* The loop goes on, time passes, and SIGKILL kills; nothing is asked of a worker.
FairSpec == Spec /\ WF_vars(Supervisor) /\ WF_vars(Tick) /\ WF_vars(Killed)

-----------------------------------------------------------------------------
(* Safety. *)

\* A worker whose supervisor polls it often enough and whose clock nobody touches is
\* never reported silent, stuck or due to be killed, whatever it does or fails to do.
NoFalseAlarm ==
    place \in Watched /\ ~clockSet =>
        \A children \in PgrepAlive : Verdict(children) \in {"LIVE", "WARN_CAPTURE"}

\* Likewise, no worker is signalled for any reason but money.
OnlySpendersAreSignalled == ~clockSet /\ sent # {} => OverBudget

\* SIGKILL comes at least two waits after the SIGINT that asked the worker to stop,
\* however long the loop was held up and whatever the wall clock showed.
GraceBeforeSigkill ==
    "SIGKILL" \in sent => "SIGINT" \in sent /\ sinceOver = 2 * EscalationWait

\* No rung is skipped: heartbeats cut some polls short, but SIGTERM falls in one of
\* the others before the time for SIGKILL comes; where the streams were never
\* registered, in the loop's own test of the cap.  A select that raised OSError may have
\* cost the poll that would have sent it.
NoRungSkipped ==
    ~clockSet /\ selector # "failed" /\ "SIGKILL" \in sent => "SIGTERM" \in sent

\* Each signal is a rung above all that were sent before, and the first is SIGINT: what
\* EscalateIf of Orchestrator lets happen in place of the clock.
Height == [SIGINT |-> 1, SIGTERM |-> 2, SIGKILL |-> 3]
LadderOnlyClimbs ==
    [][\A s \in sent' \ sent :
          IF sent = {} THEN s = "SIGINT" ELSE \A r \in sent : Height[s] > Height[r]]_vars

\* The handle's heartbeat is as old as the last poll allows, and the detector's as
\* old as the handle's.
BeatInv ==
    /\ place \in Watched => sinceBeat < BeatEvery + sincePoll
    /\ ~clockSet => idle = sinceBeat

\* The ladder starts with SIGINT and is climbed no faster than time allows.
LadderInv ==
    /\ sent # {} => sinceOver # None /\ "SIGINT" \in sent
    /\ sinceOver # None /\ worker # "exited" => "SIGINT" \in sent
    /\ "SIGTERM" \in sent => sinceOver >= EscalationWait
    /\ "SIGKILL" \in sent => sinceOver = 2 * EscalationWait

\* It was started for money, and a worker that is never read is never charged.
MoneyInv ==
    /\ ~clockSet /\ sinceOver # None => OverBudget
    /\ selector = "unregistered" => spent = 0

\* the last poll returned before it could escalate: it was a heartbeat.  Where polls never
\* read, the loop has the only test, of the global cap, and it is still to come.
PollCutShort ==
    IF selector = "unregistered" THEN place = "cap" ELSE sinceBeat = sincePoll

\* SIGTERM is not late: the last poll saw less than one wait gone, or it was cut short
\* and the poll before it did.
TermInv ==
    /\ ~clockSet /\ selector # "failed" /\ place \in Watched /\ worker # "exited"
    /\ sinceOver # None /\ "SIGTERM" \notin sent
    => sinceOver < EscalationWait + sincePoll + (IF PollCutShort THEN MaxPause ELSE 0)

\* What the proofs carry from step to step.
MonitorInv == TypeOK /\ BeatInv /\ LadderInv /\ MoneyInv /\ TermInv /\ NoRungSkipped

-----------------------------------------------------------------------------
(* Liveness. *)

\* Over the global cap, a worker that ignores SIGINT and SIGTERM is gone in the end,
\* also when its output cannot be read: the loop tests that cap itself.  Over its own
\* cap, it is gone unless its select has raised OSError, which may go on for ever.  The
\* exception in both: a malformed line that raises through run(), after which nobody
\* watches the worker any more.
OverspendingWorkerEnds ==
    OverBudget ~> \/ worker = "exited"
                  \/ selector = "failed" /\ ~OverGlobal
                  \/ place = "raised"

\* A worker blocked on a full pipe can go on: heartbeats do not take every poll, if the
\* polls come faster than heartbeats fall due.  Only a worker whose streams are not
\* registered, or whose select raises OSError, may stay blocked; and, again, one whose
\* supervisor a malformed line has ended.
PipeDrains ==
    Len(pipe) = PipeSize ~> \/ Len(pipe) < PipeSize
                            \/ selector # "registered"
                            \/ place \in {"ended", "raised"}

-----------------------------------------------------------------------------
(* What a doc says and the code does not do. *)

\* docs/COMPARISON.md:58: "every stuck worker is detected and killed within
\* `stuck_threshold_s` seconds (default: 120s)".
StuckWorkerKilled == worker = "hung" ~> worker = "exited"
=============================================================================
