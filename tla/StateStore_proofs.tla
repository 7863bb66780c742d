-------------------------- MODULE StateStore_proofs --------------------------
(***************************************************************************)
(* Theorems about StateStore: any number of threads, processes and calls,  *)
(* files that fail, processes killed and power lost anywhere.              *)
(***************************************************************************)
EXTENDS StateStore, FiniteSetTheorems, TLAPS

\* No two threads share a lock.
LEMMA OwnLock ==
    ASSUME SoundLocks
    PROVE  \A t, u \in Thread : Owner(t) = Owner(u) => t = u
  BY DEF SoundLocks, Owner

\* A thread locks for itself or for its process.
LEMMA OwnersLock == \A t \in Thread : Owner(t) \in LockOwner
  BY StoreAssumption DEF LockOwner, Owner

\* An exception leaves the thread at a place, in a method, with a document.
LEMMA AbortTypes ==
    ASSUME TypeOK, NEW t \in Thread, Abort(t)
    PROVE  /\ pc' \in [Thread -> Place]
           /\ op' \in [Thread -> {"none", "init", "update", "read"}]
           /\ buf' \in [Thread -> Content]
<1> USE DEF TypeOK, Place, Content, Absent
<1>1. CASE op[t] = "update" /\ Go(t, "raise") /\ UNCHANGED <<op, buf>>
  BY <1>1 DEF Go
<1>2. CASE op[t] = "init" /\ End(t)
  BY <1>2 DEF End, Go
<1> QED BY <1>1, <1>2 DEF Abort

\* Every step keeps every variable in its type.
LEMMA TypeStep ==
    ASSUME TypeOK, [Next]_vars
    PROVE  TypeOK'
<1> USE OwnersLock, StoreAssumption DEF TypeOK, Place, Content, Update, Absent, Initial, Job,
                                   callVars, lockVars, fileVars
<1>1. ASSUME NEW t \in Thread, CallInit(t) PROVE TypeOK'
  <2>1. pc' \in [Thread -> Place]
    BY <1>1 DEF CallInit, Begin, Go, Exists
  <2>2. op' \in [Thread -> {"none", "init", "update", "read"}]
    BY <1>1 DEF CallInit, Begin, Go, Exists
  <2>3. buf' \in [Thread -> Content]
    BY <1>1 DEF CallInit, Begin, Go, Exists
  <2>4. file' \in Content /\ onDisk' \subseteq Content
    BY <1>1 DEF CallInit, Begin, Go, Exists
  <2>5. /\ inside' \subseteq Thread /\ acked' \subseteq Update
         /\ lock' \in [LockOwner -> {"none", "shared", "exclusive"}]
         /\ seen' \in [Thread -> Content]
    BY <1>1 DEF CallInit, Begin, Go, Exists
  <2>6. calls' \in [Thread -> Nat]
    BY <1>1 DEF CallInit, Begin, Go, Exists
  <2> QED BY <2>1, <2>2, <2>3, <2>4, <2>5, <2>6
<1>2. ASSUME NEW t \in Thread, CallUpdate(t) PROVE TypeOK'
  BY <1>2 DEF CallUpdate, Begin, Go
<1>3. ASSUME NEW t \in Thread, Enter(t) PROVE TypeOK'
  BY <1>3 DEF Enter, Go
<1>4. ASSUME NEW t \in Thread, Lock(t) PROVE TypeOK'
  BY <1>4 DEF Lock, TakeLock, Go
<1>5. ASSUME NEW t \in Thread, LockTimeout(t) PROVE TypeOK'
  BY <1>5 DEF LockTimeout, Go
<1>6. ASSUME NEW t \in Thread, ReadRaw(t) PROVE TypeOK'
  <2>1. pc' \in [Thread -> Place]
    BY <1>6, AbortTypes DEF ReadRaw, FileError, Go
  <2>2. op' \in [Thread -> {"none", "init", "update", "read"}]
    BY <1>6, AbortTypes DEF ReadRaw, FileError, Go
  <2>3. buf' \in [Thread -> Content]
    BY <1>6, AbortTypes DEF ReadRaw, FileError, Go
  <2>4. file' \in Content /\ onDisk' \subseteq Content
    BY <1>6, AbortTypes DEF ReadRaw, FileError, Go
  <2>5. /\ inside' \subseteq Thread /\ acked' \subseteq Update
         /\ lock' \in [LockOwner -> {"none", "shared", "exclusive"}]
         /\ seen' \in [Thread -> Content]
    BY <1>6, AbortTypes DEF ReadRaw, FileError, Go
  <2>6. calls' \in [Thread -> Nat]
    BY <1>6, AbortTypes DEF ReadRaw, FileError, Go
  <2> QED BY <2>1, <2>2, <2>3, <2>4, <2>5, <2>6
<1>7. ASSUME NEW t \in Thread, Mutate(t) PROVE TypeOK'
  <2>1. pc' \in [Thread -> Place]
    BY <1>7, AbortTypes DEF Mutate, Mutated, Go
  <2>2. op' \in [Thread -> {"none", "init", "update", "read"}]
    BY <1>7, AbortTypes DEF Mutate, Mutated, Go
  <2>3. buf' \in [Thread -> Content]
    <3>1. Mutated(t) \in Content
      BY DEF Mutated
    <3> QED BY <3>1, <1>7, AbortTypes DEF Mutate, Go
  <2>4. file' \in Content /\ onDisk' \subseteq Content
    BY <1>7, AbortTypes DEF Mutate, Mutated, Go
  <2>5. /\ inside' \subseteq Thread /\ acked' \subseteq Update
         /\ lock' \in [LockOwner -> {"none", "shared", "exclusive"}]
         /\ seen' \in [Thread -> Content]
    BY <1>7, AbortTypes DEF Mutate, Mutated, Go
  <2>6. calls' \in [Thread -> Nat]
    BY <1>7, AbortTypes DEF Mutate, Mutated, Go
  <2> QED BY <2>1, <2>2, <2>3, <2>4, <2>5, <2>6
<1>8. ASSUME NEW t \in Thread, WriteTemp(t) PROVE TypeOK'
  <2>1. pc' \in [Thread -> Place]
    BY <1>8, AbortTypes DEF WriteTemp, FileError, Go
  <2>2. op' \in [Thread -> {"none", "init", "update", "read"}]
    BY <1>8, AbortTypes DEF WriteTemp, FileError, Go
  <2>3. buf' \in [Thread -> Content]
    BY <1>8, AbortTypes DEF WriteTemp, FileError, Go
  <2>4. file' \in Content /\ onDisk' \subseteq Content
    BY <1>8, AbortTypes DEF WriteTemp, FileError, Go
  <2>5. /\ inside' \subseteq Thread /\ acked' \subseteq Update
         /\ lock' \in [LockOwner -> {"none", "shared", "exclusive"}]
         /\ seen' \in [Thread -> Content]
    BY <1>8, AbortTypes DEF WriteTemp, FileError, Go
  <2>6. calls' \in [Thread -> Nat]
    BY <1>8, AbortTypes DEF WriteTemp, FileError, Go
  <2> QED BY <2>1, <2>2, <2>3, <2>4, <2>5, <2>6
<1>9. ASSUME NEW t \in Thread, Replace(t) PROVE TypeOK'
  <2>1. pc' \in [Thread -> Place]
    BY <1>9, AbortTypes DEF Replace, FileError, Go
  <2>2. op' \in [Thread -> {"none", "init", "update", "read"}]
    BY <1>9, AbortTypes DEF Replace, FileError, Go
  <2>3. buf' \in [Thread -> Content]
    BY <1>9, AbortTypes DEF Replace, FileError, Go
  <2>4. file' \in Content /\ onDisk' \subseteq Content
    BY <1>9, AbortTypes DEF Replace, FileError, Go
  <2>5. /\ inside' \subseteq Thread /\ acked' \subseteq Update
         /\ lock' \in [LockOwner -> {"none", "shared", "exclusive"}]
         /\ seen' \in [Thread -> Content]
    BY <1>9, AbortTypes DEF Replace, FileError, Go
  <2>6. calls' \in [Thread -> Nat]
    BY <1>9, AbortTypes DEF Replace, FileError, Go
  <2> QED BY <2>1, <2>2, <2>3, <2>4, <2>5, <2>6
<1>10. ASSUME NEW t \in Thread, SyncDir(t) PROVE TypeOK'
  <2>1. pc' \in [Thread -> Place]
    BY <1>10 DEF SyncDir, DirSynced, FileError, Abort, End, Go
  <2>2. op' \in [Thread -> {"none", "init", "update", "read"}]
    BY <1>10 DEF SyncDir, DirSynced, FileError, Abort, End, Go
  <2>3. buf' \in [Thread -> Content]
    BY <1>10 DEF SyncDir, DirSynced, FileError, Abort, End, Go
  <2>4. file' \in Content /\ onDisk' \subseteq Content
    BY <1>10 DEF SyncDir, DirSynced, FileError, Abort, End, Go
  <2>5. /\ inside' \subseteq Thread /\ acked' \subseteq Update
         /\ lock' \in [LockOwner -> {"none", "shared", "exclusive"}]
         /\ seen' \in [Thread -> Content]
    BY <1>10 DEF SyncDir, DirSynced, FileError, Abort, End, Go
  <2>6. calls' \in [Thread -> Nat]
    BY <1>10 DEF SyncDir, DirSynced, FileError, Abort, End, Go
  <2> QED BY <2>1, <2>2, <2>3, <2>4, <2>5, <2>6
<1>11. ASSUME NEW t \in Thread, Return(t) PROVE TypeOK'
  BY <1>11 DEF Return, ReleaseLocks, End, Go
<1>12. ASSUME NEW t \in Thread, Raise(t) PROVE TypeOK'
  BY <1>12 DEF Raise, ReleaseLocks, End, Go
<1>13. ASSUME NEW t \in Thread, CallRead(t) PROVE TypeOK'
  BY <1>13 DEF CallRead, Begin, Go
<1>14. ASSUME NEW t \in Thread, LockShared(t) PROVE TypeOK'
  BY <1>14 DEF LockShared, TakeLock, Go
<1>15. ASSUME NEW t \in Thread, ReadShared(t) PROVE TypeOK'
  <2>1. buf' \in [Thread -> Content]
    BY <1>15 DEF ReadShared
  <2> QED BY <1>15, <2>1 DEF ReadShared, Go
<1>16. ASSUME NEW t \in Thread, ReturnShared(t) PROVE TypeOK'
  BY <1>16 DEF ReturnShared, End, Go
<1>17. ASSUME NEW p \in Process, Crash(p) PROVE TypeOK'
  BY <1>17 DEF Crash, Vanish
<1>18. CASE PowerLoss
  BY <1>18 DEF PowerLoss, Vanish
<1>19. CASE Finished \/ UNCHANGED vars
  BY <1>19 DEF Finished, vars
<1> QED
  BY <1>1, <1>2, <1>3, <1>4, <1>5, <1>6, <1>7, <1>8, <1>9, <1>10, <1>11, <1>12, <1>13, <1>14, <1>15, <1>16, <1>17, <1>18, <1>19 DEF Next, Call, Step

\* Every step leaves each thread at a place of the method it is in.
LEMMA MethodStep ==
    ASSUME TypeOK, MethodInv, [Next]_vars
    PROVE  MethodInv'
<1> USE StoreAssumption DEF MethodInv, TypeOK, callVars, lockVars, fileVars
<1>1. ASSUME NEW t \in Thread, CallInit(t) PROVE MethodInv'
  BY <1>1 DEF CallInit, Begin, Go, Exists
<1>2. ASSUME NEW t \in Thread, CallUpdate(t) PROVE MethodInv'
  BY <1>2 DEF CallUpdate, Begin, Go
<1>3. ASSUME NEW t \in Thread, Enter(t) PROVE MethodInv'
  BY <1>3 DEF Enter, Go
<1>4. ASSUME NEW t \in Thread, Lock(t) PROVE MethodInv'
  BY <1>4 DEF Lock, TakeLock, Go
<1>5. ASSUME NEW t \in Thread, LockTimeout(t) PROVE MethodInv'
  BY <1>5 DEF LockTimeout, Go
<1>6. ASSUME NEW t \in Thread, ReadRaw(t) PROVE MethodInv'
  BY <1>6 DEF ReadRaw, Abort, FileError, End, Go
<1>7. ASSUME NEW t \in Thread, Mutate(t) PROVE MethodInv'
  BY <1>7 DEF Mutate, Mutated, Abort, Go, End
<1>8. ASSUME NEW t \in Thread, WriteTemp(t) PROVE MethodInv'
  BY <1>8 DEF WriteTemp, FileError, Abort, End, Go
<1>9. ASSUME NEW t \in Thread, Replace(t) PROVE MethodInv'
  BY <1>9 DEF Replace, FileError, Abort, End, Go
<1>10. ASSUME NEW t \in Thread, SyncDir(t) PROVE MethodInv'
  BY <1>10 DEF SyncDir, DirSynced, FileError, Abort, End, Go
<1>11. ASSUME NEW t \in Thread, Return(t) PROVE MethodInv'
  BY <1>11 DEF Return, ReleaseLocks, End, Go
<1>12. ASSUME NEW t \in Thread, Raise(t) PROVE MethodInv'
  BY <1>12 DEF Raise, ReleaseLocks, End, Go
<1>13. ASSUME NEW t \in Thread, CallRead(t) PROVE MethodInv'
  BY <1>13 DEF CallRead, Begin, Go
<1>14. ASSUME NEW t \in Thread, LockShared(t) PROVE MethodInv'
  BY <1>14 DEF LockShared, TakeLock, Go
<1>15. ASSUME NEW t \in Thread, ReadShared(t) PROVE MethodInv'
  BY <1>15 DEF ReadShared, Go
<1>16. ASSUME NEW t \in Thread, ReturnShared(t) PROVE MethodInv'
  BY <1>16 DEF ReturnShared, End, Go
<1>17. ASSUME NEW p \in Process, Crash(p) PROVE MethodInv'
  BY <1>17 DEF Crash, Vanish
<1>18. CASE PowerLoss
  BY <1>18 DEF PowerLoss, Vanish
<1>19. CASE Finished \/ UNCHANGED vars
  BY <1>19 DEF Finished, vars
<1> QED
  BY <1>1, <1>2, <1>3, <1>4, <1>5, <1>6, <1>7, <1>8, <1>9, <1>10, <1>11, <1>12, <1>13, <1>14, <1>15, <1>16, <1>17, <1>18, <1>19 DEF Next, Call, Step

\* No step lets two updates, or an update and a read, into the store.
LEMMA LockStep ==
    ASSUME SoundLocks, TypeOK, MethodInv, LockInv, [Next]_vars
    PROVE  LockInv'
<1> USE OwnLock, OwnersLock DEF MethodInv, LockInv, Updating, Reading, TypeOK, LockFree,
                                   callVars, lockVars, fileVars
<1>1. ASSUME NEW t \in Thread, CallInit(t) PROVE LockInv'
  BY <1>1 DEF CallInit, Begin, Go, Exists
<1>2. ASSUME NEW t \in Thread, CallUpdate(t) PROVE LockInv'
  BY <1>2 DEF CallUpdate, Begin, Go
<1>3. ASSUME NEW t \in Thread, Enter(t) PROVE LockInv'
  BY <1>3 DEF Enter, Go
<1>4. ASSUME NEW t \in Thread, Lock(t) PROVE LockInv'
  BY <1>4 DEF Lock, TakeLock, Go
<1>5. ASSUME NEW t \in Thread, LockTimeout(t) PROVE LockInv'
  BY <1>5 DEF LockTimeout, Go
<1>6. ASSUME NEW t \in Thread, ReadRaw(t) PROVE LockInv'
  BY <1>6 DEF ReadRaw, Abort, FileError, End, Go
<1>7. ASSUME NEW t \in Thread, Mutate(t) PROVE LockInv'
  BY <1>7 DEF Mutate, Mutated, Abort, Go, End
<1>8. ASSUME NEW t \in Thread, WriteTemp(t) PROVE LockInv'
  BY <1>8 DEF WriteTemp, FileError, Abort, End, Go
<1>9. ASSUME NEW t \in Thread, Replace(t) PROVE LockInv'
  BY <1>9 DEF Replace, FileError, Abort, End, Go
<1>10. ASSUME NEW t \in Thread, SyncDir(t) PROVE LockInv'
  BY <1>10 DEF SyncDir, DirSynced, FileError, Abort, End, Go
<1>11. ASSUME NEW t \in Thread, Return(t) PROVE LockInv'
  BY <1>11 DEF Return, ReleaseLocks, End, Go
<1>12. ASSUME NEW t \in Thread, Raise(t) PROVE LockInv'
  BY <1>12 DEF Raise, ReleaseLocks, End, Go
<1>13. ASSUME NEW t \in Thread, CallRead(t) PROVE LockInv'
  BY <1>13 DEF CallRead, Begin, Go
<1>14. ASSUME NEW t \in Thread, LockShared(t) PROVE LockInv'
  BY <1>14 DEF LockShared, TakeLock, Go
<1>15. ASSUME NEW t \in Thread, ReadShared(t) PROVE LockInv'
  BY <1>15 DEF ReadShared, Go
<1>16. ASSUME NEW t \in Thread, ReturnShared(t) PROVE LockInv'
  BY <1>16 DEF ReturnShared, End, Go
<1>17. ASSUME NEW p \in Process, Crash(p) PROVE LockInv'
  BY <1>17 DEF Crash, Vanish
<1>18. CASE PowerLoss
  BY <1>18 DEF PowerLoss, Vanish
<1>19. CASE Finished \/ UNCHANGED vars
  BY <1>19 DEF Finished, vars
<1> QED
  BY <1>1, <1>2, <1>3, <1>4, <1>5, <1>6, <1>7, <1>8, <1>9, <1>10, <1>11, <1>12, <1>13, <1>14, <1>15, <1>16, <1>17, <1>18, <1>19 DEF Next, Call, Step

\* While one thread updates, no other thread updates or reads.
LEMMA NoOverlap ==
    ASSUME SoundLocks, TypeOK, LockInv, NEW t \in Thread, Updating(t),
           NEW u \in Thread, u # t
    PROVE  ~Updating(u) /\ ~Reading(u)
  BY DEF LockInv

\* A copy stays fresh while neither it nor state.json changes.
LEMMA Untouched ==
    ASSUME NEW u \in Thread, CopyFresh(u), pc'[u] = pc[u], op'[u] = op[u], buf'[u] = buf[u],
           calls'[u] = calls[u], file' = file, onDisk' = onDisk
    PROVE  CopyFresh(u)'
  BY DEF CopyFresh, Job

\* An idle thread, or one that raises, has no copy.
LEMMA NoCopy ==
    ASSUME NEW u \in Thread, pc'[u] \in {"idle", "enter", "lock", "read", "raise", "lockShared",
                                         "readShared"}
    PROVE  CopyFresh(u)'
  BY DEF CopyFresh

\* Beside a thread that replaces state.json no thread has a copy that matters.
LEMMA ReplacedAlone ==
    ASSUME SoundLocks, StoreInv, NEW t \in Thread, pc[t] = "replace",
           NEW u \in Thread, u # t
    PROVE  /\ pc[u] \notin {"mutate", "write", "replace", "return"}
           /\ pc[u] = "sync" => op[u] = "init"
           /\ pc[u] = "returnShared" => buf[u] = Absent
<1> USE DEF StoreInv
<1>0. CopyFresh(t) /\ CopyFresh(u)
  BY DEF BufInv
<1>1. CASE op[t] = "update"
  <2>1. ~Updating(u) /\ ~Reading(u)
    BY <1>1, NoOverlap DEF Updating
  <2>2. file # Absent
    BY <1>0, <1>1 DEF CopyFresh
  <2> QED BY <1>0, <2>1, <2>2 DEF CopyFresh, MethodInv, Updating, Reading
<1>2. CASE op[t] = "init"
  <2>1. op[u] # "init"
    BY <1>2 DEF MethodInv, SoundLocks
  <2>2. file = Absent
    BY <1>0, <1>2 DEF CopyFresh
  <2> QED BY <1>0, <2>1, <2>2 DEF CopyFresh, MethodInv, Absent
<1> QED BY <1>1, <1>2 DEF MethodInv

\* No step makes the copy of an update or a read stale.
LEMMA BufStep ==
    ASSUME SoundLocks, StoreInv, [Next]_vars
    PROVE  BufInv'
<1> SUFFICES ASSUME NEW u \in Thread PROVE CopyFresh(u)'
  BY DEF BufInv
<1> USE DEF TypeOK, callVars, lockVars, fileVars
<1>0. TypeOK /\ CopyFresh(u) /\ MethodInv
  BY DEF StoreInv, BufInv
<1>1. ASSUME NEW t \in Thread, CallInit(t) PROVE CopyFresh(u)'
  <2>1. CASE u # t
    BY <1>0, <1>1, <2>1, Untouched DEF CallInit, Begin, Go
  <2>2. CASE u = t /\ file = Absent
    BY <1>0, <1>1, <2>2 DEF CallInit, Begin, Go, Exists, CopyFresh
  <2>3. CASE u = t /\ file # Absent
    BY <1>0, <1>1, <2>3, NoCopy DEF CallInit, Begin, Go, Exists
  <2> QED BY <2>1, <2>2, <2>3
<1>2. ASSUME NEW t \in Thread, CallUpdate(t) PROVE CopyFresh(u)'
  BY <1>0, <1>2, Untouched, NoCopy DEF CallUpdate, Begin, Go
<1>3. ASSUME NEW t \in Thread, Enter(t) \/ Lock(t) \/ LockTimeout(t) PROVE CopyFresh(u)'
  BY <1>0, <1>3, Untouched, NoCopy DEF Enter, Lock, LockTimeout, TakeLock, Go
<1>4. ASSUME NEW t \in Thread, ReadRaw(t) PROVE CopyFresh(u)'
  <2>1. CASE u # t
    BY <1>0, <1>4, <2>1, Untouched DEF ReadRaw, FileError, Abort, End, Go
  <2>2. CASE u = t /\ pc'[t] = "mutate"
    BY <1>0, <1>4, <2>2 DEF ReadRaw, FileError, Abort, End, Go, CopyFresh
  <2>3. CASE u = t /\ pc'[t] # "mutate"
    BY <1>0, <1>4, <2>3, NoCopy DEF ReadRaw, FileError, Abort, End, Go
  <2> QED BY <2>1, <2>2, <2>3
<1>5. ASSUME NEW t \in Thread, Mutate(t) PROVE CopyFresh(u)'
  <2>1. CASE u # t
    BY <1>0, <1>5, <2>1, Untouched DEF Mutate, Abort, End, Go
  <2>2. CASE u = t /\ pc'[t] = "write"
    <3>1. /\ pc[t] = "mutate" /\ op[t] = "update" /\ op' = op /\ calls' = calls
          /\ buf'[t] = Mutated(t) /\ file' = file
      BY <1>0, <1>5, <2>2 DEF Mutate, Abort, End, Go, MethodInv
    <3>2. buf[t] = file /\ file # Absent
      BY <1>0, <2>2, <3>1 DEF CopyFresh
    <3> QED BY <2>2, <3>1, <3>2 DEF CopyFresh, Mutated, Job
  <2>3. CASE u = t /\ pc'[t] # "write"
    BY <1>0, <1>5, <2>3, NoCopy DEF Mutate, Abort, End, Go
  <2> QED BY <2>1, <2>2, <2>3
<1>6. ASSUME NEW t \in Thread, WriteTemp(t) PROVE CopyFresh(u)'
  <2>1. CASE u # t
    BY <1>0, <1>6, <2>1, Untouched DEF WriteTemp, FileError, Abort, End, Go
  <2>2. CASE u = t /\ pc'[t] = "replace"
    <3>1. /\ pc[t] = "write" /\ op' = op /\ buf' = buf /\ calls' = calls /\ file' = file
      BY <1>0, <1>6, <2>2 DEF WriteTemp, FileError, Abort, End, Go
    <3> QED BY <1>0, <2>2, <3>1 DEF CopyFresh, Job
  <2>3. CASE u = t /\ pc'[t] # "replace"
    BY <1>0, <1>6, <2>3, NoCopy DEF WriteTemp, FileError, Abort, End, Go
  <2> QED BY <2>1, <2>2, <2>3
<1>7. ASSUME NEW t \in Thread, Replace(t) PROVE CopyFresh(u)'
  <2>0. pc[t] = "replace" /\ calls' = calls
    BY <1>7 DEF Replace
  <2>1. CASE u # t
    <3>1. /\ pc[u] \notin {"mutate", "write", "replace", "return"}
          /\ pc[u] = "sync" => op[u] = "init"
          /\ pc[u] = "returnShared" => buf[u] = Absent
      BY <2>0, <2>1, ReplacedAlone
    <3>2. pc'[u] = pc[u] /\ op'[u] = op[u] /\ buf'[u] = buf[u]
      BY <1>0, <1>7, <2>1 DEF Replace, FileError, Abort, End, Go
    <3> QED BY <3>1, <3>2 DEF CopyFresh
  <2>2. CASE u = t /\ pc'[t] = "sync"
    <3>1. file' = buf[t] /\ buf' = buf /\ op' = op
      BY <1>0, <1>7, <2>2 DEF Replace, FileError, Abort, End, Go
    <3>2. op[t] = "update" => Job(t) \in buf[t].applied
      BY <1>0, <2>0, <2>2 DEF CopyFresh
    <3> QED BY <2>0, <2>2, <3>1, <3>2 DEF CopyFresh, Job
  <2>3. CASE u = t /\ pc'[t] # "sync"
    BY <1>0, <1>7, <2>3, NoCopy DEF Replace, FileError, Abort, End, Go
  <2> QED BY <2>1, <2>2, <2>3
<1>8. ASSUME NEW t \in Thread, SyncDir(t) PROVE CopyFresh(u)'
  <2>0. /\ pc[t] = "sync" /\ calls' = calls /\ file' = file
        /\ onDisk' = onDisk \/ onDisk' = {file}
    BY <1>8 DEF SyncDir, DirSynced, FileError, Abort, End, Go
  <2>1. CASE u # t
    <3>1. pc'[u] = pc[u] /\ op'[u] = op[u] /\ buf'[u] = buf[u]
      BY <1>0, <1>8, <2>1 DEF SyncDir, FileError, Abort, End, Go
    <3> QED BY <1>0, <2>0, <3>1 DEF CopyFresh, Job
  <2>2. CASE u = t /\ pc'[t] = "return"
    <3>1. onDisk' = {file} /\ buf' = buf /\ op' = op /\ op[t] = "update"
      BY <1>0, <1>8, <2>2 DEF SyncDir, DirSynced, FileError, Abort, End, Go
    <3> QED BY <1>0, <2>0, <2>2, <3>1 DEF CopyFresh, Job
  <2>3. CASE u = t /\ pc'[t] # "return"
    BY <1>0, <1>8, <2>3, NoCopy DEF SyncDir, FileError, Abort, End, Go
  <2> QED BY <2>1, <2>2, <2>3
<1>9. ASSUME NEW t \in Thread, Return(t) \/ Raise(t) \/ ReturnShared(t) PROVE CopyFresh(u)'
  BY <1>0, <1>9, Untouched, NoCopy DEF Return, Raise, ReturnShared, ReleaseLocks, End, Go
<1>10. ASSUME NEW t \in Thread, CallRead(t) \/ LockShared(t) PROVE CopyFresh(u)'
  BY <1>0, <1>10, Untouched, NoCopy DEF CallRead, LockShared, Begin, TakeLock, Go
<1>11. ASSUME NEW t \in Thread, ReadShared(t) PROVE CopyFresh(u)'
  <2>1. CASE u # t
    BY <1>0, <1>11, <2>1, Untouched DEF ReadShared, Go
  <2>2. CASE u = t
    <3>1. pc'[t] = "returnShared" /\ buf'[t] \in {Absent, file} /\ file' = file
      BY <1>0, <1>11 DEF ReadShared, Go
    <3> QED BY <2>2, <3>1 DEF CopyFresh
  <2> QED BY <2>1, <2>2
<1>12. ASSUME NEW p \in Process, Crash(p) PROVE CopyFresh(u)'
  BY <1>0, <1>12, Untouched, NoCopy DEF Crash, Vanish
<1>13. CASE PowerLoss
  BY <1>13, NoCopy DEF PowerLoss, Vanish
<1>14. CASE Finished \/ UNCHANGED vars
  BY <1>0, <1>14, Untouched DEF Finished, vars
<1> QED
  BY <1>1, <1>2, <1>3, <1>4, <1>5, <1>6, <1>7, <1>8, <1>9, <1>10, <1>11, <1>12, <1>13, <1>14
     DEF Next, Call, Step

\* A call gets a number no update in state.json has.
LEMMA NewJob ==
    ASSUME TypeOK, FreshInv, NEW t \in Thread, calls[t] < MaxCalls[t],
           calls' = [calls EXCEPT ![t] = @ + 1], file' = file, pc' \in [Thread -> Place],
           \A u \in Thread : u # t => pc'[u] = pc[u]
    PROVE  FreshInv'
<1>1. \A u \in file.applied : u[1] \in Thread /\ u[2] \in Nat
  BY DEF TypeOK, Content, Update
<1>2. calls[t] \in Nat /\ calls'[t] = calls[t] + 1
  BY DEF TypeOK
<1>3. \A u \in Thread : calls[u] \in Nat /\ (u # t => calls'[u] = calls[u])
  BY DEF TypeOK
<1>4. \A u \in file.applied : u[2] <= calls'[u[1]]
  BY <1>1, <1>2, <1>3 DEF FreshInv
<1>5. <<t, calls[t] + 1>> \notin file.applied
  <2> SUFFICES ASSUME <<t, calls[t] + 1>> \in file.applied PROVE FALSE
    OBVIOUS
  <2>1. calls[t] + 1 <= calls[t]
    BY DEF FreshInv
  <2> QED BY <1>2, <2>1
<1>6. ASSUME NEW u \in Thread,
             pc'[u] \in {"enter", "lock", "read", "mutate", "write", "replace"}
      PROVE  Job(u)' \notin file.applied
  <2>1. CASE u = t
    BY <1>2, <1>5, <2>1 DEF Job
  <2>2. CASE u # t
    BY <1>3, <1>6, <2>2 DEF Job, FreshInv
  <2> QED BY <2>1, <2>2
<1> QED BY <1>4, <1>6 DEF FreshInv

\* Nothing changes for updates to come when state.json and the calls stay, and no
\* thread goes back to an earlier place of update().
LEMMA StillFresh ==
    ASSUME FreshInv, calls' = calls, file'.applied \subseteq file.applied,
           \A u \in Thread :
              pc'[u] \in {"enter", "lock", "read", "mutate", "write", "replace"} =>
                 pc[u] \in {"enter", "lock", "read", "mutate", "write", "replace"}
    PROVE  FreshInv'
  BY DEF FreshInv, Job

\* No step applies an update before its time, or twice.
LEMMA FreshStep ==
    ASSUME SoundLocks, StoreInv, [Next]_vars, TypeOK'
    PROVE  FreshInv'
<1> USE DEF callVars, lockVars, fileVars
<1>0. TypeOK /\ FreshInv /\ BufInv /\ DocumentInv /\ MethodInv
  BY DEF StoreInv
<1> DEFINE Early == {"enter", "lock", "read", "mutate", "write", "replace"}
<1>1. ASSUME NEW t \in Thread, Call(t) PROVE FreshInv'
  <2>1. /\ calls[t] < MaxCalls[t] /\ calls' = [calls EXCEPT ![t] = @ + 1] /\ file' = file
        /\ \A u \in Thread : u # t => pc'[u] = pc[u]
    BY <1>0, <1>1 DEF Call, CallInit, CallUpdate, CallRead, Begin, Go, TypeOK
  <2>2. pc' \in [Thread -> Place]
    BY DEF TypeOK
  <2> QED BY <1>0, <2>1, <2>2, NewJob
<1>2. ASSUME NEW t \in Thread, Step(t), ~Replace(t) PROVE FreshInv'
  <2>1. calls' = calls /\ file' = file
    BY <1>2 DEF Step, Enter, Lock, LockTimeout, ReadRaw, Mutate, WriteTemp, SyncDir, Return,
                Raise, LockShared, ReadShared, ReturnShared
  <2>2. /\ \A u \in Thread : u # t => pc'[u] = pc[u]
        /\ pc[t] \in Early \/ pc'[t] \notin Early
    BY <1>0, <1>2 DEF Step, Enter, Lock, LockTimeout, ReadRaw, Mutate, WriteTemp, SyncDir, Return,
                Raise, LockShared, ReadShared, ReturnShared, Go, End, Abort, FileError, TypeOK
  <2> QED BY <1>0, <2>1, <2>2, StillFresh
<1>3. ASSUME NEW t \in Thread, Replace(t) PROVE FreshInv'
  <2>1. pc[t] = "replace" /\ calls' = calls /\ CopyFresh(t)
    BY <1>0, <1>3 DEF Replace, BufInv
  <2>2. /\ \A u \in Thread : u # t => pc'[u] = pc[u]
        /\ pc'[t] \notin Early
    BY <1>0, <1>3 DEF Replace, Go, End, Abort, FileError, TypeOK
  <2>3. CASE file' = file
    BY <1>0, <2>1, <2>2, <2>3, StillFresh
  <2>4. CASE file' = buf[t] /\ op[t] = "init"
    BY <1>0, <2>1, <2>2, <2>4, StillFresh DEF CopyFresh, Initial
  <2>5. CASE file' = buf[t] /\ op[t] = "update"
    <3>1. file'.applied = file.applied \cup {Job(t)}
      BY <2>1, <2>5 DEF CopyFresh
    <3>2. \A u \in file'.applied : u[2] <= calls'[u[1]]
      BY <1>0, <2>1, <3>1 DEF FreshInv, Job, TypeOK
    <3>3. \A u \in Thread : pc'[u] \in Early => u # t /\ Job(u)' = Job(u) /\ Job(u) # Job(t)
      BY <2>1, <2>2 DEF Job
    <3>4. \A u \in Thread : pc'[u] \in Early => Job(u)' \notin file'.applied
      BY <1>0, <2>2, <3>1, <3>3 DEF FreshInv
    <3> QED BY <3>2, <3>4 DEF FreshInv
  <2> QED BY <1>0, <1>3, <2>1, <2>3, <2>4, <2>5 DEF Replace, MethodInv
<1>4. ASSUME NEW p \in Process, Crash(p) PROVE FreshInv'
  <2>1. calls' = calls /\ file' = file /\ \A u \in Thread : pc'[u] \in {"idle", pc[u]}
    BY <1>4 DEF Crash, Vanish
  <2> QED BY <1>0, <2>1, StillFresh
<1>5. CASE PowerLoss
  <2>1. calls' = calls /\ file' \in onDisk /\ \A u \in Thread : pc'[u] = "idle"
    BY <1>5 DEF PowerLoss, Vanish
  <2> QED BY <1>0, <2>1, StillFresh DEF DocumentInv
<1>6. CASE Finished \/ UNCHANGED vars
  BY <1>0, <1>6, StillFresh DEF Finished, vars
<1> QED BY <1>1, <1>2, <1>3, <1>4, <1>5, <1>6 DEF Next

\* No step leaves on disk a document that lacks an acknowledged update or that is not
\* part of state.json.
LEMMA DocumentStep ==
    ASSUME SoundLocks, StoreInv, [Next]_vars
    PROVE  DocumentInv'
<1> USE DEF callVars, lockVars, fileVars
<1>0. TypeOK /\ FreshInv /\ BufInv /\ DocumentInv /\ MethodInv
  BY DEF StoreInv
<1>1. ASSUME UNCHANGED <<acked, file, onDisk>> PROVE DocumentInv'
  BY <1>0, <1>1 DEF DocumentInv
<1>2. ASSUME NEW t \in Thread, Call(t) PROVE DocumentInv'
  BY <1>1, <1>2 DEF Call, CallInit, CallUpdate, CallRead
<1>3. ASSUME NEW t \in Thread, Step(t), ~Replace(t), ~SyncDir(t), ~Return(t)
      PROVE  DocumentInv'
  BY <1>1, <1>3 DEF Step, Enter, Lock, LockTimeout, ReadRaw, Mutate, WriteTemp, Raise,
                    LockShared, ReadShared, ReturnShared
<1>4. ASSUME NEW t \in Thread, Replace(t) PROVE DocumentInv'
  <2>1. pc[t] = "replace" /\ acked' = acked /\ CopyFresh(t)
    BY <1>0, <1>4 DEF Replace, BufInv
  <2>2. CASE UNCHANGED fileVars
    BY <1>1, <2>1, <2>2
  <2>3. CASE file' = buf[t] /\ onDisk' = onDisk \cup {buf[t]}
    <3>0. IsFiniteSet(file.applied) /\ file \in Content
      BY <1>0 DEF DocumentInv, TypeOK
    <3>1. /\ file.applied \subseteq buf[t].applied /\ IsFiniteSet(buf[t].applied)
          /\ buf[t].version = Cardinality(buf[t].applied)
      <4>1. CASE op[t] = "init"
        <5>1. file = Absent /\ buf[t] = Initial
          BY <2>1, <4>1 DEF CopyFresh
        <5> QED BY <5>1, FS_EmptySet DEF Absent, Initial
      <4>2. CASE op[t] = "update"
        <5>1. /\ file # Absent /\ buf[t].version = file.version + 1
              /\ buf[t].applied = file.applied \cup {Job(t)}
          BY <2>1, <4>2 DEF CopyFresh
        <5>2. Job(t) \notin file.applied
          BY <1>0, <2>1 DEF FreshInv
        <5>3. file.version = Cardinality(file.applied)
          BY <1>0, <5>1 DEF DocumentInv
        <5>4. /\ IsFiniteSet(file.applied \cup {Job(t)})
              /\ Cardinality(file.applied \cup {Job(t)}) = Cardinality(file.applied) + 1
          BY <3>0, <5>2, FS_AddElement
        <5> QED BY <5>1, <5>3, <5>4
      <4> QED BY <1>0, <2>1, <4>1, <4>2 DEF MethodInv
    <3>2. acked \subseteq buf[t].applied
      BY <1>0, <3>1 DEF DocumentInv
    <3> QED BY <1>0, <2>1, <2>3, <3>1, <3>2 DEF DocumentInv
  <2> QED BY <1>4, <2>2, <2>3 DEF Replace
<1>5. ASSUME NEW t \in Thread, SyncDir(t) PROVE DocumentInv'
  BY <1>0, <1>5 DEF SyncDir, DirSynced, DocumentInv
<1>6. ASSUME NEW t \in Thread, Return(t) PROVE DocumentInv'
  <2>1. pc[t] = "return" /\ op[t] = "update" /\ acked' = acked \cup {Job(t)} /\ UNCHANGED fileVars
    BY <1>0, <1>6 DEF Return, MethodInv
  <2>2. onDisk = {file} /\ Job(t) \in file.applied
    BY <1>0, <2>1 DEF BufInv, CopyFresh
  <2> QED BY <1>0, <2>1, <2>2 DEF DocumentInv
<1>7. ASSUME NEW p \in Process, Crash(p) PROVE DocumentInv'
  BY <1>1, <1>7 DEF Crash, Vanish
<1>8. CASE PowerLoss
  BY <1>0, <1>8 DEF PowerLoss, Vanish, DocumentInv
<1>9. CASE Finished \/ UNCHANGED vars
  BY <1>1, <1>9 DEF Finished, vars
<1> QED BY <1>2, <1>3, <1>4, <1>5, <1>6, <1>7, <1>8, <1>9 DEF Next

\* Only a missing state.json has version -1.
LEMMA AbsentVersion == ASSUME TypeOK, DocumentInv, file.version = -1 PROVE file = Absent
<1>1. IsFiniteSet(file.applied) /\ (file = Absent \/ file.version = Cardinality(file.applied))
  BY DEF DocumentInv
<1>2. Cardinality(file.applied) \in Nat
  BY <1>1, FS_CardinalityType
<1> QED BY <1>1, <1>2

\* A thread that is given state.json as it is, or nothing, knows no more than there is.
LEMMA SeenStill ==
    ASSUME TypeOK, DocumentInv, SeenInv, file' = file, seen' \in [Thread -> Content],
           \A u \in Thread : seen'[u] \in {Absent, file, seen[u]}
    PROVE  SeenInv'
<1>1. \A u \in Thread : /\ seen'[u].version <= file.version
                        /\ seen'[u].version = file.version => seen'[u] = file
                        /\ seen'[u].version = -1 => seen'[u] = Absent
  <2>1. file.version \in Nat \cup {-1} /\ (file.version = -1 => file = Absent)
    BY AbsentVersion DEF TypeOK, Content
  <2> SUFFICES ASSUME NEW u \in Thread
               PROVE  /\ seen'[u].version <= file.version
                      /\ seen'[u].version = file.version => seen'[u] = file
                      /\ seen'[u].version = -1 => seen'[u] = Absent
    OBVIOUS
  <2>2. CASE seen'[u] = Absent
    <3>1. seen'[u].version = -1
      BY <2>2 DEF Absent
    <3> QED BY <2>1, <2>2, <3>1
  <2>3. CASE seen'[u] = file
    BY <2>1, <2>3
  <2>4. CASE seen'[u] = seen[u]
    BY <2>4 DEF SeenInv
  <2> QED BY <2>2, <2>3, <2>4
<1>2. ASSUME NEW u \in Thread, NEW v \in Thread, seen'[u].version = seen'[v].version
      PROVE  seen'[u] = seen'[v]
  <2>1. CASE seen'[u] \in {Absent, file} \/ seen'[v] \in {Absent, file}
    BY <1>1, <1>2, <2>1 DEF Absent
  <2>2. CASE seen'[u] = seen[u] /\ seen'[v] = seen[v]
    BY <1>2, <2>2 DEF SeenInv, VersionTellsContent
  <2> QED BY <2>1, <2>2
<1> QED BY <1>1, <1>2 DEF SeenInv, VersionTellsContent

\* No step gives a caller another document under a version that was given before.
LEMMA SeenStep ==
    ASSUME SoundLocks, StoreInv, [Next]_vars, TypeOK'
    PROVE  SeenInv'
<1> USE DEF callVars, lockVars, fileVars
<1>0. TypeOK /\ BufInv /\ DocumentInv /\ MethodInv /\ SeenInv
  BY DEF StoreInv
<1>1. ASSUME file' = file, \A u \in Thread : seen'[u] \in {Absent, file, seen[u]}
      PROVE  SeenInv'
  BY <1>0, <1>1, SeenStill DEF TypeOK
<1>2. ASSUME NEW t \in Thread, Call(t) PROVE SeenInv'
  BY <1>1, <1>2 DEF Call, CallInit, CallUpdate, CallRead
<1>3. ASSUME NEW t \in Thread, Step(t), ~Replace(t), ~Return(t), ~ReturnShared(t)
      PROVE  SeenInv'
  BY <1>1, <1>3 DEF Step, Enter, Lock, LockTimeout, ReadRaw, Mutate, WriteTemp, SyncDir, Raise,
                    LockShared, ReadShared
<1>4. ASSUME NEW t \in Thread, Return(t) \/ ReturnShared(t) PROVE SeenInv'
  <2>1. buf[t] \in {Absent, file}
    BY <1>0, <1>4 DEF Return, ReturnShared, BufInv, CopyFresh, MethodInv
  <2>2. file' = file /\ \A u \in Thread : seen'[u] \in {seen[u], buf[t]}
    BY <1>0, <1>4 DEF Return, ReturnShared, TypeOK
  <2> QED BY <1>1, <2>1, <2>2
<1>5. ASSUME NEW t \in Thread, Replace(t) PROVE SeenInv'
  <2>1. pc[t] = "replace" /\ seen' = seen /\ CopyFresh(t) /\ op[t] \in {"init", "update"}
    BY <1>0, <1>5 DEF Replace, BufInv, MethodInv
  <2>2. CASE file' = file
    BY <1>1, <2>1, <2>2
  <2>3. CASE file' = buf[t]
    <3>1. file'.version = file.version + 1
      BY <2>1, <2>3 DEF CopyFresh, Initial, Absent
    <3>2. \A u \in Thread : seen[u].version \in Nat \cup {-1} /\ seen[u].version <= file.version
      BY <1>0 DEF SeenInv, TypeOK, Content
    <3>3. file.version \in Nat \cup {-1}
      BY <1>0 DEF TypeOK, Content
    <3>4. \A u \in Thread : seen[u].version < file'.version
      BY <3>1, <3>2, <3>3
    <3>5. \A u \in Thread : seen[u].version <= file'.version /\ seen[u].version # file'.version
      BY <3>1, <3>2, <3>3
    <3> QED BY <1>0, <2>1, <3>5 DEF SeenInv, VersionTellsContent
  <2> QED BY <1>5, <2>2, <2>3 DEF Replace
<1>6. ASSUME NEW p \in Process, Crash(p) PROVE SeenInv'
  BY <1>1, <1>6 DEF Crash, Vanish
<1>7. CASE PowerLoss
  <2>1. \A u \in Thread : seen'[u] = Absent
    BY <1>7 DEF PowerLoss, Vanish
  <2>2. file' \in onDisk /\ onDisk \subseteq Content
    BY <1>0, <1>7 DEF PowerLoss, TypeOK
  <2>3. file'.version \in Nat \cup {-1}
    BY <2>2 DEF Content
  <2>4. file'.version = -1 => file' = Absent
    <3>1. /\ IsFiniteSet(file'.applied)
          /\ file' = Absent \/ file'.version = Cardinality(file'.applied)
      BY <1>0, <2>2 DEF DocumentInv
    <3>2. Cardinality(file'.applied) \in Nat
      BY <3>1, FS_CardinalityType
    <3> QED BY <3>1, <3>2
  <2> QED BY <2>1, <2>3, <2>4 DEF SeenInv, VersionTellsContent, Absent
<1>8. CASE Finished \/ UNCHANGED vars
  BY <1>1, <1>8 DEF Finished, vars
<1> QED BY <1>2, <1>3, <1>4, <1>5, <1>6, <1>7, <1>8 DEF Next

-----------------------------------------------------------------------------
(* Theorems. *)

\* Every step of the store keeps the invariant.
LEMMA InvStep ==
    ASSUME SoundLocks, StoreInv, [Next]_vars
    PROVE  StoreInv'
<1>1. TypeOK'
  BY TypeStep DEF StoreInv
<1>2. MethodInv' /\ LockInv'
  BY MethodStep, LockStep DEF StoreInv
<1>3. BufInv' /\ FreshInv' /\ DocumentInv' /\ SeenInv'
  BY <1>1, BufStep, FreshStep, DocumentStep, SeenStep
<1> QED BY <1>1, <1>2, <1>3 DEF StoreInv

\* The store starts with the invariant.
LEMMA InvInit == ASSUME SoundLocks, Init PROVE StoreInv
<1> USE OwnersLock DEF Init, Absent
<1>1. TypeOK
  BY DEF TypeOK, Place, Content
<1>2. MethodInv /\ LockInv /\ BufInv /\ FreshInv /\ SeenInv
  BY DEF MethodInv, LockInv, Updating, Reading, BufInv, CopyFresh, FreshInv, SeenInv,
         VersionTellsContent
<1>3. DocumentInv
  BY FS_EmptySet DEF DocumentInv
<1> QED BY <1>1, <1>2, <1>3 DEF StoreInv

\* The invariant holds in every reachable state of the store.
THEOREM StoreInvariance == ASSUME SoundLocks PROVE Spec => []StoreInv
<1>1. Init => StoreInv
  BY InvInit
<1>2. StoreInv /\ [Next]_vars => StoreInv'
  BY InvStep
<1> QED BY <1>1, <1>2, PTL DEF Spec

\* An update whose call returned is never lost, by any interleaving, failure, crash
\* or power loss.
THEOREM NothingAcknowledgedIsLost == ASSUME SoundLocks PROVE Spec => []UpdatesSurvive
<1>1. StoreInv => UpdatesSurvive
  BY DEF StoreInv, DocumentInv, UpdatesSurvive
<1> QED BY <1>1, StoreInvariance, PTL

\* A version names one document.
THEOREM VersionsAreNames == ASSUME SoundLocks PROVE Spec => []VersionTellsContent
<1>1. StoreInv => VersionTellsContent
  BY DEF StoreInv, SeenInv
<1> QED BY <1>1, StoreInvariance, PTL

\* A caller is never given an older version than it was given before.
THEOREM VersionsGoForward == ASSUME SoundLocks PROVE Spec => ReadsNeverGoBack
<1>1. ASSUME StoreInv, [Next]_vars
      PROVE  [\A t \in Thread : seen'[t] = Absent \/ seen'[t].version >= seen[t].version]_vars
  <2> USE DEF callVars, lockVars, fileVars
  <2> SUFFICES ASSUME NEW u \in Thread, seen'[u] # Absent
               PROVE  seen'[u].version >= seen[u].version
    OBVIOUS
  <2>0. TypeOK /\ BufInv /\ SeenInv /\ MethodInv
    BY <1>1 DEF StoreInv
  <2>1. seen[u].version \in Int
    BY <2>0 DEF TypeOK, Content
  <2>2. CASE seen'[u] = seen[u]
    BY <2>1, <2>2
  <2>3. CASE seen'[u] = file
    BY <2>0, <2>3 DEF SeenInv, TypeOK, Content
  <2>4. ASSUME NEW t \in Thread, Return(t) \/ ReturnShared(t)
        PROVE  seen'[u] \in {seen[u], file}
    <3>1. seen'[u] \in {seen[u], buf[t]}
      BY <2>0, <2>4 DEF Return, ReturnShared, TypeOK
    <3>2. buf[t] \in {Absent, file}
      BY <2>0, <2>4 DEF Return, ReturnShared, BufInv, CopyFresh, MethodInv
    <3> QED BY <3>1, <3>2
  <2>5. ASSUME NEW t \in Thread, Call(t) \/ Step(t), ~Return(t), ~ReturnShared(t)
        PROVE  seen' = seen
    BY <2>5 DEF Call, CallInit, CallUpdate, CallRead, Step, Enter, Lock, LockTimeout, ReadRaw,
                Mutate, WriteTemp, Replace, SyncDir, Raise, LockShared, ReadShared
  <2>6. ASSUME NEW p \in Process, Crash(p) PROVE seen'[u] = seen[u]
    BY <2>6 DEF Crash, Vanish
  <2>7. CASE PowerLoss
    BY <2>7 DEF PowerLoss, Vanish
  <2>8. CASE Finished \/ UNCHANGED vars
    BY <2>2, <2>8 DEF Finished, vars
  <2> QED BY <1>1, <2>2, <2>3, <2>4, <2>5, <2>6, <2>7, <2>8 DEF Next
<1> QED BY <1>1, StoreInvariance, PTL DEF Spec, ReadsNeverGoBack

\* The store implements the document of VersionedStore: each step is one of its steps,
\* or none.
THEOREM StoreRefinement == ASSUME SoundLocks PROVE Spec => ImplementsDocument
<1> USE DEF callVars, lockVars, fileVars
<1>1. Init => Document!Init
  BY DEF Init, Document!Init, Absent, Document!Absent
<1>2. ASSUME StoreInv, StoreInv', [Next]_vars PROVE [Document!Next]_(Document!vars)
  <2> USE DEF Document!Next, Document!vars
  <2>0. TypeOK /\ BufInv /\ FreshInv /\ DocumentInv /\ MethodInv
    BY <1>2 DEF StoreInv
  <2>1. ASSUME UNCHANGED <<file, acked>> PROVE [Document!Next]_(Document!vars)
    BY <2>1
  <2>2. ASSUME NEW t \in Thread, Replace(t) PROVE [Document!Next]_(Document!vars)
    <3>1. /\ pc[t] = "replace" /\ acked' = acked /\ CopyFresh(t)
          /\ op[t] \in {"init", "update"}
      BY <2>0, <2>2 DEF Replace, BufInv, MethodInv
    <3>2. CASE file' = file
      BY <2>1, <3>1, <3>2
    <3>3. CASE file' = buf[t] /\ op[t] = "init"
      <4>1. Document!Create
        BY <3>1, <3>3 DEF CopyFresh, Document!Create, Absent, Initial, Document!Absent,
                          Document!Empty
      <4> QED BY <4>1
    <3>4. CASE file' = buf[t] /\ op[t] = "update"
      <4>1. /\ file # Absent
            /\ file' = [version |-> file.version + 1, applied |-> file.applied \cup {Job(t)}]
            /\ Job(t) \notin file.applied
        BY <2>0, <3>1, <3>4 DEF CopyFresh, FreshInv
      <4>2. Job(t) \in file'.applied \ file.applied
        BY <4>1
      <4>3. Document!Apply
        BY <3>1, <4>1, <4>2 DEF Document!Apply, Absent, Document!Absent
      <4> QED BY <4>3
    <3> QED BY <2>2, <3>1, <3>2, <3>3, <3>4 DEF Replace
  <2>3. ASSUME NEW t \in Thread, Return(t) PROVE [Document!Next]_(Document!vars)
    <3>1. Job(t) \in file.applied /\ acked' = acked \cup {Job(t)} /\ file' = file
      BY <2>0, <2>3 DEF Return, BufInv, CopyFresh, MethodInv
    <3>2. Document!Acknowledge
      BY <3>1 DEF Document!Acknowledge
    <3> QED BY <3>2
  <2>4. ASSUME NEW t \in Thread, Call(t) \/ Step(t), ~Replace(t), ~Return(t)
        PROVE  UNCHANGED <<file, acked>>
    BY <2>4 DEF Call, CallInit, CallUpdate, CallRead, Step, Enter, Lock, LockTimeout, ReadRaw,
                Mutate, WriteTemp, SyncDir, Raise, LockShared, ReadShared, ReturnShared
  <2>5. ASSUME NEW p \in Process, Crash(p) PROVE UNCHANGED <<file, acked>>
    BY <2>5 DEF Crash, Vanish
  <2>6. CASE PowerLoss
    <3>1. file' \in onDisk /\ acked' = acked
      BY <2>6 DEF PowerLoss, Vanish
    <3>2. /\ acked \subseteq file'.applied /\ file'.applied \subseteq file.applied
          /\ file' = Absent \/ file'.version = Cardinality(file'.applied)
      BY <2>0, <3>1 DEF DocumentInv
    <3>3. file' = [version |-> file'.version, applied |-> file'.applied]
      BY <2>0, <3>1 DEF TypeOK, Content
    <3>4. \/ file' = Document!Absent
          \/ file' = [version |-> Cardinality(file'.applied), applied |-> file'.applied]
      BY <3>2, <3>3 DEF Absent, Document!Absent
    <3>5. Document!LosePower
      BY <3>1, <3>2, <3>4 DEF Document!LosePower, Document!Cardinality, Cardinality
    <3> QED BY <3>5
  <2>7. CASE Finished \/ UNCHANGED vars
    BY <2>7 DEF Finished, vars
  <2> QED BY <1>2, <2>1, <2>2, <2>3, <2>4, <2>5, <2>6, <2>7 DEF Next
<1> QED BY <1>1, <1>2, StoreInvariance, PTL DEF Spec, ImplementsDocument, Document!Spec

-----------------------------------------------------------------------------
(* Locks are given back, with either kind of file lock. *)

\* Whoever takes a lock keeps it only in a call that gives it back: with lockf, another
\* thread's close may take it away, but leaves it to nobody else.
LEMMA HolderStep ==
    ASSUME TypeOK, MethodInv, HolderInv, [Next]_vars
    PROVE  HolderInv'
<1> USE OwnersLock, StoreAssumption DEF MethodInv, HolderInv, InUpdate, Reading, TypeOK, callVars,
                                      lockVars, fileVars
<1>1. ASSUME NEW t \in Thread, CallInit(t) PROVE HolderInv'
  BY <1>1 DEF CallInit, Begin, Go, Exists
<1>2. ASSUME NEW t \in Thread, CallUpdate(t) PROVE HolderInv'
  BY <1>2 DEF CallUpdate, Begin, Go
<1>3. ASSUME NEW t \in Thread, Enter(t) PROVE HolderInv'
  BY <1>3 DEF Enter, Go
<1>4. ASSUME NEW t \in Thread, Lock(t) PROVE HolderInv'
  BY <1>4 DEF Lock, TakeLock, Go
<1>5. ASSUME NEW t \in Thread, LockTimeout(t) PROVE HolderInv'
  BY <1>5 DEF LockTimeout, Go
<1>6. ASSUME NEW t \in Thread, ReadRaw(t) PROVE HolderInv'
  BY <1>6 DEF ReadRaw, Abort, FileError, End, Go
<1>7. ASSUME NEW t \in Thread, Mutate(t) PROVE HolderInv'
  BY <1>7 DEF Mutate, Mutated, Abort, Go, End
<1>8. ASSUME NEW t \in Thread, WriteTemp(t) PROVE HolderInv'
  BY <1>8 DEF WriteTemp, FileError, Abort, End, Go
<1>9. ASSUME NEW t \in Thread, Replace(t) PROVE HolderInv'
  BY <1>9 DEF Replace, FileError, Abort, End, Go
<1>10. ASSUME NEW t \in Thread, SyncDir(t) PROVE HolderInv'
  BY <1>10 DEF SyncDir, DirSynced, FileError, Abort, End, Go
<1>11. ASSUME NEW t \in Thread, Return(t) PROVE HolderInv'
  BY <1>11 DEF Return, ReleaseLocks, End, Go
<1>12. ASSUME NEW t \in Thread, Raise(t) PROVE HolderInv'
  BY <1>12 DEF Raise, ReleaseLocks, End, Go
<1>13. ASSUME NEW t \in Thread, CallRead(t) PROVE HolderInv'
  BY <1>13 DEF CallRead, Begin, Go
<1>14. ASSUME NEW t \in Thread, LockShared(t) PROVE HolderInv'
  BY <1>14 DEF LockShared, TakeLock, Go
<1>15. ASSUME NEW t \in Thread, ReadShared(t) PROVE HolderInv'
  BY <1>15 DEF ReadShared, Go
<1>16. ASSUME NEW t \in Thread, ReturnShared(t) PROVE HolderInv'
  BY <1>16 DEF ReturnShared, End, Go
<1>17. ASSUME NEW p \in Process, Crash(p) PROVE HolderInv'
  BY <1>17 DEF Crash, Vanish
<1>18. CASE PowerLoss
  BY <1>18 DEF PowerLoss, Vanish
<1>19. CASE Finished \/ UNCHANGED vars
  BY <1>19 DEF Finished, vars
<1> QED
  BY <1>1, <1>2, <1>3, <1>4, <1>5, <1>6, <1>7, <1>8, <1>9, <1>10, <1>11, <1>12, <1>13, <1>14, <1>15, <1>16, <1>17, <1>18, <1>19 DEF Next, Call, Step

\* In every configuration, calls do not all wait for each other.
THEOREM NoDeadlock == Spec => []SomebodyMoves
<1> DEFINE Inv == TypeOK /\ MethodInv /\ HolderInv
<1>1. Init => Inv
  <2> SUFFICES ASSUME Init PROVE Inv
    OBVIOUS
  <2> QED
    BY StoreAssumption, OwnersLock
    DEF Init, TypeOK, MethodInv, HolderInv, Place, Content, Absent
<1>2. Inv /\ [Next]_vars => Inv'
  BY TypeStep, MethodStep, HolderStep
<1>3. Inv => SomebodyMoves
  <2> SUFFICES ASSUME Inv, NEW t \in Thread, pc[t] # "idle"
               PROVE  \E u \in Thread : pc[u] # "idle" /\ ~Waits(u)
    BY DEF SomebodyMoves
  <2>1. \A u \in Thread : InUpdate(u) \/ Reading(u) => pc[u] # "idle" /\ ~Waits(u)
    BY DEF InUpdate, Reading, Waits
  <2>2. CASE ~Waits(t)
    BY <2>2
  <2>3. CASE pc[t] = "enter" /\ \E u \in inside : ProcessOf[u] = ProcessOf[t]
    BY <2>1, <2>3 DEF HolderInv, TypeOK
  <2>4. CASE pc[t] = "lockShared" /\ ~LockFree(t, "shared")
    <3>1. \E o \in LockOwner : lock[o] # "none"
      BY <2>4 DEF LockFree
    <3> QED BY <2>1, <3>1 DEF HolderInv
  <2> QED BY <2>2, <2>3, <2>4 DEF Waits
<1> HIDE DEF Inv
<1> QED BY <1>1, <1>2, <1>3, PTL DEF Spec
=============================================================================
