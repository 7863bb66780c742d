------------------------- MODULE KillCommand_proofs -------------------------
(***************************************************************************)
(* Theorems about the store beside kill: any number of threads, processes  *)
(* and calls, files that fail and processes killed anywhere.               *)
(***************************************************************************)
EXTENDS KillCommand, StateStore_proofs

\* A thread that is not about to write has nothing to be behind with.
LEMMA NothingToWrite ==
    ASSUME NEW u \in Thread, pc'[u] \notin {"mutate", "write", "replace"}
    PROVE  CopyAhead(u)'
  BY DEF CopyAhead

\* What a thread is about to write stays ahead while nobody writes.
LEMMA StaysAhead ==
    ASSUME NEW u \in Thread, CopyAhead(u), pc'[u] = pc[u], op'[u] = op[u], buf'[u] = buf[u],
           file' = file
    PROVE  CopyAhead(u)'
  BY DEF CopyAhead

\* A thread that replaces state.json is alone with what it writes.
LEMMA WriterAlone ==
    ASSUME SoundLocks, KillInv, NEW t \in Thread, pc[t] = "replace", NEW u \in Thread, u # t
    PROVE  pc[u] \notin {"mutate", "write", "replace"}
<1> USE DEF KillInv
<1>1. CopyAhead(t) /\ CopyAhead(u)
  OBVIOUS
<1>2. CASE op[t] = "update"
  <2>1. ~Updating(u)
    BY <1>2, NoOverlap DEF Updating
  <2> QED BY <1>1, <1>2, <2>1 DEF CopyAhead, MethodInv, Updating
<1>3. CASE op[t] = "init"
  <2>1. op[u] # "init"
    BY <1>3 DEF MethodInv, SoundLocks
  <2> QED BY <1>1, <1>3, <2>1 DEF CopyAhead, MethodInv
<1> QED BY <1>2, <1>3 DEF MethodInv

\* A step of the store keeps what every thread is about to write ahead of state.json.
LEMMA AheadStep ==
    ASSUME SoundLocks, ~CanLosePower, KillInv, [Next]_vars, NEW u \in Thread
    PROVE  CopyAhead(u)'
<1> USE DEF callVars, lockVars, fileVars
<1>0. TypeOK /\ MethodInv /\ CopyAhead(u)
  BY DEF KillInv
<1> USE DEF TypeOK
<1>1. ASSUME NEW t \in Thread, t # u, Call(t) \/ Step(t), ~Replace(t) PROVE CopyAhead(u)'
  <2>1. pc'[u] = pc[u] /\ op'[u] = op[u] /\ buf'[u] = buf[u] /\ file' = file
    BY <1>0, <1>1 DEF Call, CallInit, CallUpdate, CallRead, Begin, Step, Enter, Lock, LockTimeout,
         TakeLock, ReadRaw, Mutate, WriteTemp, SyncDir, Return, Raise, LockShared, ReadShared,
         ReturnShared, FileError, Abort, End, Go
  <2> QED BY <1>0, <2>1, StaysAhead
<1>2. CASE CallInit(u)
  BY <1>0, <1>2 DEF CallInit, Begin, Go, Exists, CopyAhead
<1>3. CASE \/ CallUpdate(u) \/ CallRead(u) \/ Enter(u) \/ Lock(u) \/ LockTimeout(u) \/ SyncDir(u)
           \/ Return(u) \/ Raise(u) \/ LockShared(u) \/ ReadShared(u) \/ ReturnShared(u)
  BY <1>0, <1>3, NothingToWrite DEF CallUpdate, CallRead, Begin, Enter, Lock, LockTimeout, SyncDir,
         Return, Raise, LockShared, ReadShared, ReturnShared, FileError, Abort, End, Go
<1>4. CASE ReadRaw(u)
  BY <1>0, <1>4 DEF ReadRaw, FileError, Abort, End, Go, CopyAhead
<1>5. CASE Mutate(u)
  <2>1. CASE pc'[u] = "write"
    <3>1. op[u] = "update" /\ buf'[u] = Mutated(u) /\ file' = file
      BY <1>0, <1>5, <2>1 DEF Mutate, Abort, End, Go, MethodInv
    <3>2. buf[u] \in Content
      BY <1>0
    <3>3. buf'[u] # Absent /\ buf[u].applied \subseteq buf'[u].applied
      BY <3>1, <3>2 DEF Mutated, Absent, Content
    <3>4. op'[u] = "update" /\ pc[u] = "mutate"
      BY <1>0, <1>5, <2>1, <3>1 DEF Mutate, Abort, End, Go
    <3> QED BY <1>0, <3>1, <3>3, <3>4 DEF CopyAhead
  <2>2. CASE pc'[u] # "write"
    BY <1>0, <1>5, <2>2, NothingToWrite DEF Mutate, Abort, End, Go
  <2> QED BY <2>1, <2>2
<1>6. CASE WriteTemp(u)
  BY <1>0, <1>6 DEF WriteTemp, FileError, Abort, End, Go, CopyAhead
<1>7. ASSUME NEW t \in Thread, Replace(t) PROVE CopyAhead(u)'
  <2>1. CASE t = u
    BY <1>0, <1>7, <2>1, NothingToWrite DEF Replace, FileError, Abort, End, Go
  <2>2. CASE t # u
    <3>1. pc[u] \notin {"mutate", "write", "replace"}
      BY <1>7, <2>2, WriterAlone DEF Replace
    <3> QED BY <1>0, <1>7, <2>2, <3>1, NothingToWrite DEF Replace, FileError, Abort, End, Go
  <2> QED BY <2>1, <2>2
<1>8. ASSUME NEW p \in Process, Crash(p) PROVE CopyAhead(u)'
  <2>1. CASE ProcessOf[u] = p
    BY <1>8, <2>1, NothingToWrite DEF Crash, Vanish
  <2>2. CASE ProcessOf[u] # p
    BY <1>0, <1>8, <2>2, StaysAhead DEF Crash, Vanish
  <2> QED BY <2>1, <2>2
<1>9. CASE Finished \/ UNCHANGED vars
  BY <1>0, <1>9, StaysAhead DEF Finished, vars
<1> QED
  BY <1>1, <1>2, <1>3, <1>4, <1>5, <1>6, <1>7, <1>8, <1>9 DEF Next, Call, Step, PowerLoss

\* A step of the store never takes an update out of state.json, nor the file away.
LEMMA StoreBuildsOn ==
    ASSUME SoundLocks, ~CanLosePower, KillInv, [Next]_vars
    PROVE  BuildsOn /\ (file # Absent => file' # Absent)
<1> USE DEF callVars, lockVars, fileVars
<1>1. ASSUME NEW t \in Thread, Replace(t) PROVE BuildsOn /\ (file # Absent => file' # Absent)
  <2>1. CopyAhead(t) /\ MethodInv
    BY DEF KillInv
  <2>2. CASE op[t] = "update"
    BY <1>1, <2>1, <2>2 DEF Replace, CopyAhead, BuildsOn
  <2>3. CASE op[t] = "init"
    BY <1>1, <2>1, <2>3 DEF Replace, CopyAhead, BuildsOn, Absent
  <2> QED BY <1>1, <2>1, <2>2, <2>3 DEF MethodInv, Replace
<1>2. CASE UNCHANGED file
  BY <1>2 DEF BuildsOn
<1>3. ASSUME NEW t \in Thread, Call(t) \/ Step(t), ~Replace(t) PROVE UNCHANGED file
  BY <1>3 DEF Call, CallInit, CallUpdate, CallRead, Step, Enter, Lock, LockTimeout, ReadRaw,
              Mutate, WriteTemp, SyncDir, Return, Raise, LockShared, ReadShared, ReturnShared
<1>4. ASSUME NEW p \in Process, Crash(p) PROVE UNCHANGED file
  BY <1>4 DEF Crash
<1>5. CASE Finished \/ UNCHANGED vars
  BY <1>2, <1>5 DEF Finished, vars
<1> QED BY <1>1, <1>2, <1>3, <1>4, <1>5 DEF Next, PowerLoss

\* Every step, of the store or of kill, keeps the invariant.
LEMMA KillInvStep ==
    ASSUME SoundLocks, ~CanLosePower, KillInv, [KillNext]_kvars
    PROVE  KillInv'
<1> USE DEF callVars, lockVars, fileVars
<1>1. ASSUME [Next]_vars, UNCHANGED <<killPc, killCopy>> PROVE KillInv'
  <2>1. TypeOK' /\ MethodInv' /\ LockInv'
    BY <1>1, TypeStep, MethodStep, LockStep DEF KillInv
  <2>2. \A t \in Thread : CopyAhead(t)'
    BY <1>1, AheadStep
  <2>3. KillCopyBehind'
    BY <1>1, StoreBuildsOn DEF KillInv, KillCopyBehind, BuildsOn
  <2> QED BY <1>1, <2>1, <2>2, <2>3 DEF KillInv
<1>2. CASE KillReads \/ KillSignals
  <2>1. UNCHANGED vars
    BY <1>2 DEF KillReads, KillSignals
  <2>2. TypeOK' /\ MethodInv' /\ LockInv' /\ \A t \in Thread : CopyAhead(t)'
    BY <2>1, StaysAhead, TypeStep, MethodStep, LockStep DEF KillInv, vars
  <2>3. killPc' \in {"start", "signal", "ended"} /\ killCopy' \in Content /\ KillCopyBehind'
    BY <1>2, <2>1 DEF KillInv, KillReads, KillSignals, KillCopyBehind, TypeOK, vars
  <2> QED BY <2>2, <2>3 DEF KillInv
<1>3. CASE KillMarks
  <2>1. CASE UNCHANGED fileVars
    <3>1. UNCHANGED vars
      BY <1>3, <2>1 DEF KillMarks, vars
    <3>2. TypeOK' /\ MethodInv' /\ LockInv' /\ \A t \in Thread : CopyAhead(t)'
      BY <3>1, StaysAhead, TypeStep, MethodStep, LockStep DEF KillInv, vars
    <3> QED BY <1>3, <3>2 DEF KillInv, KillMarks, KillCopyBehind
  <2>2. CASE file' = killCopy /\ onDisk' = onDisk \cup {killCopy}
    <3>1. UNCHANGED <<callVars, lockVars, acked, seen, killCopy>> /\ killPc = "signal"
          /\ killPc' = "ended"
      BY <1>3 DEF KillMarks
    <3>2. TypeOK' /\ MethodInv' /\ LockInv'
      BY <2>2, <3>1 DEF KillInv, TypeOK, MethodInv, LockInv, Updating, Reading
    <3>3. ASSUME NEW t \in Thread PROVE CopyAhead(t)'
      BY <2>2, <3>1 DEF KillInv, CopyAhead, KillCopyBehind
    <3> QED BY <3>1, <3>2, <3>3 DEF KillInv, KillCopyBehind
  <2> QED BY <1>3, <2>1, <2>2 DEF KillMarks
<1>4. CASE UNCHANGED kvars
  BY <1>1, <1>4 DEF kvars
<1> QED BY <1>1, <1>2, <1>3, <1>4 DEF KillNext, Kill

\* The store and kill start with the invariant.
LEMMA KillInvInit == ASSUME SoundLocks, KillInit PROVE KillInv
<1>1. StoreInv
  BY InvInit DEF KillInit
<1> QED BY <1>1 DEF KillInit, Init, StoreInv, KillInv, CopyAhead, KillCopyBehind, Content, Absent

\* OnlyKillGoesBack: with locks that exclude and while the power stays on, whatever
\* takes an update out of state.json is the one write of kill.
THEOREM OnlyKillUndoes == ASSUME SoundLocks, ~CanLosePower PROVE KillSpec => OnlyKillGoesBack
<1>1. KillInit => KillInv
  BY KillInvInit
<1>2. KillInv /\ [KillNext]_kvars => KillInv'
  BY KillInvStep
<1>3. KillInv /\ [KillNext]_kvars => [KillMarks \/ BuildsOn]_kvars
  <2> SUFFICES ASSUME KillInv, [KillNext]_kvars PROVE KillMarks \/ BuildsOn
    OBVIOUS
  <2>1. CASE [Next]_vars
    BY <2>1, StoreBuildsOn
  <2>2. CASE KillReads \/ KillSignals \/ UNCHANGED kvars
    BY <2>2 DEF KillReads, KillSignals, kvars, vars, fileVars, BuildsOn
  <2> QED BY <2>1, <2>2 DEF KillNext, Kill
<1> QED BY <1>1, <1>2, <1>3, PTL DEF KillSpec, OnlyKillGoesBack
=============================================================================
