------------------------- MODULE WorkerMonitor_proofs -------------------------
(***************************************************************************)
(* Proofs about WorkerMonitor, for every threshold, cap and pipe.          *)
(***************************************************************************)
EXTENDS WorkerMonitor, TLAPS

USE DEF None, Watched, PgrepAlive, Registered, UpdateHeartbeat, HandleStdoutLine

\* The supervisor comes back to each worker often enough: two polls fall within one
\* wait of the ladder, a heartbeat and a poll within the detector's first alarm.
Punctual ==
    /\ MaxPause < BeatEvery
    /\ 2 * MaxPause <= EscalationWait
    /\ BeatEvery + MaxPause <= HeartbeatTimeout
    /\ HeartbeatTimeout <= IdleKill

\* The constants, in the form the arithmetic of the proofs needs.
LEMMA Thresholds ==
    /\ BeatEvery \in Nat /\ BeatEvery > 0 /\ EscalationWait \in Nat /\ EscalationWait > 0
    /\ HeartbeatTimeout \in Nat /\ CaptureRepeats \in Nat /\ CaptureRepeats > 0
    /\ IdleKill \in Nat /\ IdleKill > 0
    /\ PipeSize \in Nat /\ MaxPause \in Nat
    /\ WorkerCap \in Nat /\ GlobalCap \in Nat /\ MaxResults \in Nat
BY MonitorAssumption DEF MonitorAssumption

\* What was over a cap stays over it.
LEMMA UsageGrows ==
    \A before, after, rest, cap \in Nat :
        after >= before => /\ before > cap => after > cap
                           /\ before + rest > cap => after + rest > cap
OBVIOUS

\* The bound of TermInv is never below one wait.
LEMMA SlackGrows ==
    \A wait, poll, pause \in Nat : \A over \in Int : \A cut \in BOOLEAN :
        over < wait => over < wait + poll + (IF cut THEN pause ELSE 0)
OBVIOUS

\* While the clock is left alone, a punctual supervisor sees no alarm.
LEMMA NoAlarm ==
    ASSUME Punctual, TypeOK, BeatInv, place \in Watched, ~clockSet
    PROVE  ~KillCandidate /\ NoFalseAlarm
<1>1. idle < HeartbeatTimeout /\ idle < IdleKill
    BY Thresholds DEF Punctual, TypeOK, BeatInv
<1> QED
    BY <1>1, Thresholds DEF KillCandidate, NoFalseAlarm, Verdict, TypeOK

\* A call of kill_escalation keeps the order and the pace of the ladder.
LEMMA EscalationStep ==
    ASSUME TypeOK, LadderInv, NEW condition \in BOOLEAN, EscalateIf(condition),
           UNCHANGED worker
    PROVE  /\ sinceOver' \in {None} \cup 0 .. 2 * EscalationWait
           /\ sent' \subseteq {"SIGINT", "SIGTERM", "SIGKILL"}
           /\ LadderInv'
<1>1. CASE ~condition
    BY <1>1 DEF EscalateIf, TypeOK, LadderInv
<1>2. CASE condition /\ worker = "exited"
    <2>1. sent' = sent /\ sinceOver' = IF sinceOver = None THEN 0 ELSE sinceOver
        BY <1>2 DEF EscalateIf, KillEscalation
    <2>2. CASE sinceOver = None
        <3>1. sent = {} /\ sinceOver' = 0 /\ worker' = "exited"
            BY <1>2, <2>1, <2>2 DEF LadderInv
        <3> QED
            BY <2>1, <3>1, Thresholds DEF LadderInv
    <2>3. CASE sinceOver # None
        BY <2>1, <2>3, <1>2 DEF LadderInv, TypeOK
    <2> QED BY <2>2, <2>3
<1>3. CASE condition /\ worker # "exited"
    <2>1. /\ sinceOver' = IF sinceOver = None THEN 0 ELSE sinceOver
          /\ sent' = sent \cup {Rung}
        BY <1>3 DEF EscalateIf, KillEscalation
    <2>2. CASE sinceOver = None
        BY <2>1, <2>2, <1>3, Thresholds DEF TypeOK, LadderInv, Rung
    <2>3. CASE sinceOver # None
        <3>1. /\ "SIGINT" \in sent /\ sinceOver' = sinceOver
              /\ sinceOver \in 0 .. 2 * EscalationWait
            BY <2>1, <2>3, <1>3 DEF LadderInv, TypeOK
        <3>2. /\ Rung \in {"SIGINT", "SIGTERM", "SIGKILL"}
              /\ Rung = "SIGTERM" => sinceOver >= EscalationWait
              /\ Rung = "SIGKILL" => sinceOver = 2 * EscalationWait
            BY <3>1, Thresholds DEF Rung
        <3> QED
            BY <2>1, <2>3, <3>1, <3>2 DEF LadderInv, TypeOK
    <2> QED BY <2>2, <2>3
<1> QED BY <1>1, <1>2, <1>3

\* Each step keeps the types, the heartbeat and the ladder; nothing here needs a
\* punctual supervisor.
LEMMA PaceStep ==
    ASSUME TypeOK, BeatInv, LadderInv, [Next]_vars
    PROVE  TypeOK' /\ BeatInv' /\ LadderInv'
<1> USE Thresholds
<1>1. CASE PollBeat
    BY <1>1 DEF PollBeat, BeatDue, TypeOK, BeatInv, LadderInv, usage, process
<1>2. CASE PollRead
    <2>1. /\ EscalateIf(OverBudget' \/ KillCandidate) /\ UNCHANGED worker
          /\ (OverBudget' \/ KillCandidate) \in BOOLEAN
        BY <1>2 DEF PollRead, OverBudget, KillCandidate, OverGlobal, OverWorker
    <2>2. /\ sinceOver' \in {None} \cup 0 .. 2 * EscalationWait
          /\ sent' \subseteq {"SIGINT", "SIGTERM", "SIGKILL"}
          /\ LadderInv'
        BY <2>1, EscalationStep
    <2>3. pipe' \in Seq(LineKind) /\ Len(pipe') <= PipeSize /\ spent' \in Nat
        <3>1. pipe \in Seq(LineKind) /\ Len(pipe) <= PipeSize /\ spent \in Nat
            BY DEF TypeOK
        <3>2. \/ pipe' = pipe /\ spent' = spent
              \/ pipe # <<>> /\ pipe' = Tail(pipe) /\ spent' \in {spent, spent + 1}
            BY <1>2 DEF PollRead
        <3> QED BY <3>1, <3>2
    <2>4. repeats' \in 0 .. CaptureRepeats
        BY <1>2 DEF PollRead, Sample, TypeOK
    <2>5. BeatInv'
        BY <1>2 DEF PollRead, BeatDue, BeatInv, TypeOK
    <2> QED
        BY <1>2, <2>2, <2>3, <2>4, <2>5 DEF PollRead, TypeOK
<1>3. CASE PollRaises
    BY <1>3 DEF PollRaises, TypeOK, BeatInv, LadderInv, usage
<1>14. CASE PollBlind
    BY <1>14 DEF PollBlind, BeatDue, TypeOK, BeatInv, LadderInv, usage, process
<1>4. CASE CheckCap
    <2>1. /\ EscalateIf(OverGlobal) /\ UNCHANGED worker /\ OverGlobal \in BOOLEAN
        BY <1>4 DEF CheckCap, OverGlobal, process
    <2>2. /\ sinceOver' \in {None} \cup 0 .. 2 * EscalationWait
          /\ sent' \subseteq {"SIGINT", "SIGTERM", "SIGKILL"}
          /\ LadderInv'
        BY <2>1, EscalationStep
    <2> QED
        BY <1>4, <2>2 DEF CheckCap, TypeOK, BeatInv, usage, process
<1>5. CASE CheckStuck
    <2>1. /\ EscalateIf(KillCandidate) /\ UNCHANGED worker /\ KillCandidate \in BOOLEAN
        BY <1>5 DEF CheckStuck, KillCandidate, process
    <2>2. /\ sinceOver' \in {None} \cup 0 .. 2 * EscalationWait
          /\ sent' \subseteq {"SIGINT", "SIGTERM", "SIGKILL"}
          /\ LadderInv'
        BY <2>1, EscalationStep
    <2> QED
        BY <1>5, <2>2 DEF CheckStuck, TypeOK, BeatInv, usage, process
<1>6. CASE CheckAlive
    BY <1>6 DEF CheckAlive, TypeOK, BeatInv, LadderInv, clocks, usage, process
<1>7. CASE WriteLine
    BY <1>7 DEF WriteLine, TypeOK, BeatInv, LadderInv, clocks, usage
<1>8. CASE Hang
    BY <1>8 DEF Hang, TypeOK, BeatInv, LadderInv, clocks, usage
<1>9. CASE Exit
    BY <1>9 DEF Exit, TypeOK, BeatInv, LadderInv, clocks, usage
<1>10. CASE OthersSpend
    BY <1>10 DEF OthersSpend, TypeOK, BeatInv, LadderInv, clocks, process
<1>11. CASE Tick
    BY <1>11 DEF Tick, TypeOK, BeatInv, LadderInv, usage, process
<1>12. CASE SetClock
    BY <1>12 DEF SetClock, TypeOK, BeatInv, LadderInv, usage, process
<1>13. CASE UNCHANGED vars
    BY <1>13 DEF vars, TypeOK, BeatInv, LadderInv, clocks, usage, process
<1> QED
    BY <1>1, <1>2, <1>3, <1>4, <1>5, <1>6, <1>7, <1>8, <1>9, <1>10, <1>11, <1>12, <1>13,
       <1>14 DEF Next, Supervisor

LEMMA PaceInit == Init => TypeOK /\ BeatInv /\ LadderInv
<1> SUFFICES ASSUME Init PROVE TypeOK /\ BeatInv /\ LadderInv
    OBVIOUS
<1>1. TypeOK
    <2>1. pipe \in Seq(LineKind) /\ Len(pipe) <= PipeSize
        BY Thresholds DEF Init
    <2>2. /\ place \in Watched /\ worker \in {"busy", "hung", "exited"}
          /\ sent = {} /\ clockSet \in BOOLEAN
          /\ selector \in {"registered", "unregistered", "failed"}
        BY DEF Init
    <2>3. /\ sincePoll \in 0 .. MaxPause /\ repeats \in 0 .. CaptureRepeats
          /\ printed \in 0 .. MaxResults /\ sinceBeat \in Nat /\ idle \in Int
          /\ spent \in Nat /\ others \in Nat /\ sinceOver = None
        BY Thresholds DEF Init
    <2> QED BY <2>1, <2>2, <2>3 DEF TypeOK
<1>2. BeatInv /\ LadderInv
    BY Thresholds DEF Init, BeatInv, LadderInv
<1> QED BY <1>1, <1>2

\* What a call of kill_escalation adds is above everything sent before.
Climbs == \A s \in sent' \ sent :
             IF sent = {} THEN s = "SIGINT" ELSE \A r \in sent : Height[s] > Height[r]

LEMMA EscalationClimbs ==
    ASSUME TypeOK, LadderInv, NEW condition, EscalateIf(condition) PROVE Climbs
<1>1. CASE UNCHANGED sent
    BY <1>1 DEF Climbs
<1>2. CASE worker # "exited" /\ sent' = sent \cup {Rung}
    <2>1. CASE sinceOver = None
        BY <1>2, <2>1, Thresholds DEF LadderInv, Rung, Climbs
    <2>2. CASE sinceOver # None
        <3>1. "SIGINT" \in sent /\ sinceOver \in 0 .. 2 * EscalationWait
            BY <1>2, <2>2 DEF LadderInv, TypeOK
        <3>2. Rung \notin sent => \A r \in sent : Height[Rung] > Height[r]
            BY <3>1, Thresholds DEF LadderInv, TypeOK, Rung, Height
        <3> QED BY <1>2, <3>1, <3>2 DEF Climbs
    <2> QED BY <2>1, <2>2
<1> QED BY <1>1, <1>2 DEF EscalateIf, KillEscalation

-----------------------------------------------------------------------------

\* SIGKILL comes at least two waits after SIGINT, for every configuration and however
\* the loop is held up.
THEOREM Grace == Spec => []GraceBeforeSigkill
<1>1. TypeOK /\ BeatInv /\ LadderInv /\ [Next]_vars => (TypeOK /\ BeatInv /\ LadderInv)'
    BY PaceStep
<1>2. LadderInv => GraceBeforeSigkill
    BY DEF LadderInv, GraceBeforeSigkill
<1> QED
    BY PaceInit, <1>1, <1>2, PTL DEF Spec

\* Whatever the clocks show, the signals a worker gets are SIGINT and then only higher
\* ones: no poll of this handle does what Orchestrator's ladder without a clock cannot.
THEOREM LadderClimbs == Spec => LadderOnlyClimbs
<1>1. TypeOK /\ BeatInv /\ LadderInv /\ [Next]_vars => (TypeOK /\ BeatInv /\ LadderInv)'
    BY PaceStep
<1>2. ASSUME TypeOK, LadderInv, [Next]_vars PROVE [Climbs]_vars
    <2>1. \/ UNCHANGED sent
          \/ EscalateIf(OverBudget' \/ KillCandidate)
          \/ EscalateIf(OverGlobal) \/ EscalateIf(KillCandidate)
        BY <1>2 DEF Next, Supervisor, PollBeat, PollRead, PollRaises, PollBlind, CheckCap,
            CheckStuck, CheckAlive, WriteLine, Hang, Exit, OthersSpend, Tick, SetClock, vars
    <2>2. CASE UNCHANGED sent
        BY <2>2 DEF Climbs
    <2> QED BY <1>2, <2>1, <2>2, EscalationClimbs
<1> QED
    BY PaceInit, <1>1, <1>2, PTL DEF Spec, LadderOnlyClimbs, Climbs

-----------------------------------------------------------------------------

\* Usage only grows, and a punctual supervisor starts the ladder only over budget.
LEMMA MoneyStep ==
    ASSUME Punctual, TypeOK, BeatInv, MoneyInv, [Next]_vars
    PROVE  MoneyInv'
<1> USE DEF MoneyInv, OverBudget, OverGlobal, OverWorker
<1>1. CASE PollBeat
    BY <1>1 DEF PollBeat, usage
<1>2. CASE PollRead
    <2>1. ~clockSet => ~KillCandidate
        BY <1>2, NoAlarm DEF PollRead
    <2>2. /\ spent' \in Nat /\ spent' >= spent /\ others' = others
          /\ selector' # "unregistered" /\ clockSet' = clockSet /\ spent \in Nat /\ others \in Nat
        BY <1>2 DEF PollRead, TypeOK
    <2>3. CASE OverBudget'
        BY <2>2, <2>3
    <2>4. CASE ~OverBudget' /\ ~clockSet
        <3>1. sinceOver' = sinceOver
            BY <1>2, <2>1, <2>4 DEF PollRead, EscalateIf
        <3>2. ~OverBudget
            BY <2>2, <2>4, UsageGrows, Thresholds
        <3> QED BY <2>2, <3>1, <3>2
    <2> QED BY <2>2, <2>3, <2>4
<1>3. CASE PollRaises
    BY <1>3 DEF PollRaises, usage
<1>14. CASE PollBlind
    BY <1>14 DEF PollBlind, usage
<1>4. CASE CheckCap
    BY <1>4 DEF CheckCap, EscalateIf, KillEscalation, usage
<1>5. CASE CheckStuck
    <2>1. ~clockSet => ~KillCandidate
        BY <1>5, NoAlarm DEF CheckStuck
    <2> QED BY <1>5, <2>1 DEF CheckStuck, EscalateIf, usage
<1>6. CASE CheckAlive
    BY <1>6 DEF CheckAlive, clocks, usage
<1>7. CASE WriteLine
    BY <1>7 DEF WriteLine, clocks, usage
<1>8. CASE Hang
    BY <1>8 DEF Hang, clocks, usage
<1>9. CASE Exit
    BY <1>9 DEF Exit, clocks, usage
<1>10. CASE OthersSpend
    BY <1>10, Thresholds DEF OthersSpend, TypeOK, clocks
<1>11. CASE Tick
    BY <1>11, Thresholds DEF Tick, TypeOK, usage
<1>12. CASE SetClock
    BY <1>12 DEF SetClock, usage
<1>13. CASE UNCHANGED vars
    BY <1>13 DEF vars, clocks, usage
<1> QED
    BY <1>1, <1>2, <1>3, <1>4, <1>5, <1>6, <1>7, <1>8, <1>9, <1>10, <1>11, <1>12, <1>13,
       <1>14 DEF Next, Supervisor

\* A call of kill_escalation finds less than two waits gone, or SIGTERM sent already.
LEMMA RungInTime ==
    ASSUME Punctual, TypeOK, LadderInv, TermInv, NoRungSkipped, ~clockSet,
           selector # "failed", place \in Watched, worker # "exited", KillEscalation
    PROVE  /\ "SIGTERM" \notin sent' => sinceOver' < EscalationWait
           /\ "SIGKILL" \in sent' => "SIGTERM" \in sent'
<1>1. /\ sinceOver' = IF sinceOver = None THEN 0 ELSE sinceOver
      /\ sent' = sent \cup {Rung}
    BY DEF KillEscalation
<1>2. CASE "SIGTERM" \in sent
    BY <1>1, <1>2
<1>3. CASE sinceOver = None
    BY <1>1, <1>3, Thresholds DEF LadderInv, Rung
<1>4. CASE "SIGTERM" \notin sent /\ sinceOver # None
    <2>1. sinceOver \in Nat /\ sinceOver < 2 * EscalationWait
        BY <1>4, Thresholds DEF TermInv, TypeOK, Punctual
    <2>2. (Rung = "SIGINT" /\ sinceOver < EscalationWait) \/ Rung = "SIGTERM"
        BY <2>1, Thresholds DEF Rung
    <2> QED
        BY <1>1, <1>4, <2>1, <2>2 DEF NoRungSkipped
<1> QED BY <1>2, <1>3, <1>4

\* So such a call keeps the ladder in time, whichever of the three tests made it.
LEMMA TermEscalation ==
    ASSUME Punctual, TypeOK, LadderInv, TermInv, NoRungSkipped, place \in Watched,
           UNCHANGED <<worker, clockSet, selector>>, sincePoll' \in Nat, KillEscalation
    PROVE  TermInv' /\ NoRungSkipped'
<1>1. CASE clockSet \/ selector = "failed"
    BY <1>1 DEF TermInv, NoRungSkipped
<1>2. CASE ~clockSet /\ worker = "exited"
    BY <1>2 DEF KillEscalation, TermInv, NoRungSkipped
<1>3. CASE ~clockSet /\ selector # "failed" /\ worker # "exited"
    <2>1. /\ "SIGTERM" \notin sent' => sinceOver' < EscalationWait
          /\ "SIGKILL" \in sent' => "SIGTERM" \in sent'
        BY <1>3, RungInTime
    <2>2. sinceOver' \in Int
        BY DEF KillEscalation, TypeOK
    <2>3. NoRungSkipped'
        BY <2>1 DEF NoRungSkipped
    <2>4. sinceOver' < EscalationWait =>
             sinceOver' < EscalationWait + sincePoll'
                            + (IF PollCutShort' THEN MaxPause ELSE 0)
        BY <2>2, SlackGrows, Thresholds DEF PollCutShort
    <2>5. TermInv'
        BY <2>1, <2>4 DEF TermInv
    <2> QED
        BY <2>3, <2>5
<1> QED BY <1>1, <1>2, <1>3

LEMMA TermStep ==
    ASSUME Punctual, MonitorInv, [Next]_vars
    PROVE  TermInv' /\ NoRungSkipped'
<1> USE DEF MonitorInv
<1>1. CASE PollBeat
    <2>1. /\ ~PollCutShort /\ PollCutShort' /\ sincePoll <= MaxPause
          /\ sinceBeat' = 0 /\ sincePoll' = 0
          /\ UNCHANGED <<sinceOver, clockSet, worker, sent, selector>> /\ place \in Watched
        BY <1>1, Thresholds DEF PollBeat, BeatDue, Punctual, TypeOK, process, PollCutShort
    <2>2. sinceOver \in Int /\ sincePoll \in Nat
        BY Thresholds DEF TypeOK
    <2> QED
        BY <2>1, <2>2, Thresholds DEF TermInv, NoRungSkipped
<1>2. CASE PollRead
    <2>1. /\ sincePoll' = 0 /\ UNCHANGED <<worker, clockSet, selector>>
          /\ place \in Watched /\ EscalateIf(OverBudget' \/ KillCandidate)
        BY <1>2 DEF PollRead
    <2>2. CASE OverBudget' \/ KillCandidate
        BY <2>1, <2>2, TermEscalation DEF EscalateIf
    <2>3. CASE ~(OverBudget' \/ KillCandidate)
        <3>1. MoneyInv' /\ UNCHANGED <<sinceOver, sent>>
            BY <2>1, <2>3, MoneyStep DEF EscalateIf
        <3>2. ~clockSet' => sinceOver' = None
            BY <3>1, <2>3 DEF MoneyInv
        <3> QED
            BY <2>1, <3>1, <3>2 DEF TermInv, NoRungSkipped
    <2> QED BY <2>2, <2>3
<1>3. CASE PollRaises
    BY <1>3 DEF PollRaises, TermInv, NoRungSkipped
<1>14. CASE PollBlind
    <2>1. /\ place = "poll" /\ place' = "cap" /\ sincePoll' = 0
          /\ UNCHANGED <<sinceOver, clockSet, worker, sent>>
          /\ selector' = "failed" \/ (selector = "unregistered" /\ selector' = selector)
        BY <1>14 DEF PollBlind, process
    <2>2. CASE selector' = "failed"
        BY <2>2 DEF TermInv, NoRungSkipped
    <2>3. CASE selector = "unregistered" /\ selector' = selector
        <3>1. ~PollCutShort /\ PollCutShort'
            BY <2>1, <2>3 DEF PollCutShort
        <3>2. sincePoll \in 0 .. MaxPause /\ sinceOver \in Int
            BY Thresholds DEF TypeOK
        <3> QED
            BY <2>1, <2>3, <3>1, <3>2, Thresholds DEF TermInv, NoRungSkipped
    <2> QED BY <2>1, <2>2, <2>3
<1>4. CASE CheckCap
    <2>1. /\ UNCHANGED <<worker, clockSet, sincePoll, sinceBeat, selector>>
          /\ place = "cap" /\ place' = "stuck" /\ sincePoll \in Nat /\ EscalateIf(OverGlobal)
        BY <1>4, Thresholds DEF CheckCap, TypeOK, process
    <2>2. CASE OverGlobal
        BY <2>1, <2>2, TermEscalation DEF EscalateIf
    <2>3. CASE ~OverGlobal
        <3>1. UNCHANGED <<sinceOver, sent>>
            BY <2>1, <2>3 DEF EscalateIf
        <3>2. selector = "unregistered" /\ ~clockSet => sinceOver = None
            BY <2>3, Thresholds DEF MoneyInv, OverBudget, OverWorker, TypeOK
        <3> QED
            BY <2>1, <3>1, <3>2 DEF TermInv, NoRungSkipped, PollCutShort
    <2> QED BY <2>2, <2>3
<1>5. CASE CheckStuck
    <2>1. /\ UNCHANGED <<worker, clockSet, sincePoll, sinceBeat, selector>>
          /\ place = "stuck" /\ place' = "alive" /\ sincePoll \in Nat
          /\ EscalateIf(KillCandidate)
        BY <1>5, Thresholds DEF CheckStuck, TypeOK, process
    <2>2. CASE KillCandidate
        BY <2>1, <2>2, TermEscalation DEF EscalateIf
    <2>3. CASE ~KillCandidate
        BY <2>1, <2>3 DEF EscalateIf, TermInv, NoRungSkipped, PollCutShort
    <2> QED BY <2>2, <2>3
<1>6. CASE CheckAlive
    BY <1>6 DEF CheckAlive, TermInv, NoRungSkipped, PollCutShort, clocks, process
<1>7. CASE WriteLine
    BY <1>7 DEF WriteLine, TermInv, NoRungSkipped, PollCutShort, clocks
<1>8. CASE Hang
    BY <1>8 DEF Hang, TermInv, NoRungSkipped, PollCutShort, clocks
<1>9. CASE Exit
    BY <1>9 DEF Exit, TermInv, NoRungSkipped, PollCutShort, clocks
<1>10. CASE OthersSpend
    BY <1>10 DEF OthersSpend, TermInv, NoRungSkipped, PollCutShort, clocks, process
<1>11. CASE Tick
    <2>1. /\ sincePoll' = sincePoll + 1 /\ sinceBeat' = sinceBeat + 1
          /\ sinceOver' = IF sinceOver \in 0 .. 2 * EscalationWait - 1
                             THEN sinceOver + 1 ELSE sinceOver
          /\ UNCHANGED <<place, clockSet, worker, sent, selector>> /\ place \in Watched
        BY <1>11 DEF Tick, process
    <2>2. /\ sincePoll \in Nat /\ sinceBeat \in Nat
          /\ sinceOver \in {None} \cup 0 .. 2 * EscalationWait
        BY Thresholds DEF TypeOK
    <2>5. PollCutShort' <=> PollCutShort
        BY <2>1, <2>2 DEF PollCutShort
    <2>3. sinceOver # None => sinceOver' <= sinceOver + 1
        BY <2>1, <2>2, Thresholds
    <2>4. sinceOver = None <=> sinceOver' = None
        BY <2>1, <2>2, Thresholds
    <2> QED
        BY <2>1, <2>2, <2>3, <2>4, <2>5, Thresholds DEF TermInv, NoRungSkipped
<1>12. CASE SetClock
    BY <1>12 DEF SetClock, TermInv, NoRungSkipped, PollCutShort
<1>13. CASE UNCHANGED vars
    BY <1>13 DEF vars, TermInv, NoRungSkipped, PollCutShort, clocks, process
<1> QED
    BY <1>1, <1>2, <1>3, <1>4, <1>5, <1>6, <1>7, <1>8, <1>9, <1>10, <1>11, <1>12, <1>13,
       <1>14 DEF Next, Supervisor

-----------------------------------------------------------------------------

\* With a punctual supervisor the inductive invariant holds, for any thresholds,
\* caps, output and behaviour of the worker.
THEOREM MonitorInvariance == Punctual /\ Spec => []MonitorInv
<1> SUFFICES ASSUME Punctual PROVE Spec => []MonitorInv
    OBVIOUS
<1>1. Init => MonitorInv
    <2> SUFFICES ASSUME Init PROVE MonitorInv
        OBVIOUS
    <2>1. MoneyInv /\ TermInv /\ NoRungSkipped
        BY DEF Init, MoneyInv, TermInv, NoRungSkipped
    <2> QED BY <2>1, PaceInit DEF MonitorInv
<1>2. MonitorInv /\ [Next]_vars => MonitorInv'
    BY PaceStep, MoneyStep, TermStep DEF MonitorInv
<1> QED
    BY <1>1, <1>2, PTL DEF Spec

\* A worker that a punctual supervisor watches under an untouched clock is never
\* reported silent or stuck: hung or busy, it is all the same to the detector.
THEOREM NobodyLooksStuck == Punctual /\ Spec => []NoFalseAlarm
<1> SUFFICES ASSUME Punctual PROVE Spec => []NoFalseAlarm
    OBVIOUS
<1>1. MonitorInv => NoFalseAlarm
    BY NoAlarm DEF MonitorInv, NoFalseAlarm
<1> QED
    BY <1>1, MonitorInvariance, PTL

\* It is signalled only over budget.
THEOREM SignalsAreForMoney == Punctual /\ Spec => []OnlySpendersAreSignalled
<1> SUFFICES ASSUME Punctual PROVE Spec => []OnlySpendersAreSignalled
    OBVIOUS
<1>1. MonitorInv => OnlySpendersAreSignalled
    BY DEF MonitorInv, MoneyInv, LadderInv, OnlySpendersAreSignalled
<1> QED
    BY <1>1, MonitorInvariance, PTL

\* And every rung of the ladder is used before the last.
THEOREM EveryRung == Punctual /\ Spec => []NoRungSkipped
<1> SUFFICES ASSUME Punctual PROVE Spec => []NoRungSkipped
    OBVIOUS
<1>1. MonitorInv => NoRungSkipped
    BY DEF MonitorInv
<1> QED
    BY <1>1, MonitorInvariance, PTL
=============================================================================
