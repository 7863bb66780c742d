----------------------------- MODULE StateStore -----------------------------
(***************************************************************************)
(* StateStore (state.py): the state.json of one run, used by the threads   *)
(* of several processes.  init() creates it, update() reads, changes and   *)
(* replaces it under a thread lock and a file lock, read() reads it under  *)
(* a shared file lock.                                                     *)
(*                                                                         *)
(* Each step is one system call or lock operation of one thread.  A        *)
(* process may be killed between any two of them, and the machine may lose *)
(* power: state.json is then any content whose directory entry may have    *)
(* reached the disk.                                                       *)
(***************************************************************************)
EXTENDS Integers, FiniteSets

CONSTANTS
    Thread,          \* the threads that use the store
    Process,         \* the processes, each with one StateStore object
    ProcessOf,       \* ProcessOf[t]: the process of thread t
    Initializer,     \* the threads that call init()
    MaxCalls,        \* MaxCalls[t]: how many calls t makes (a bound)
    PerProcessLocks, \* fcntl.lockf (macOS), not fcntl.flock (Linux)
    FilesMayFail,    \* whether a file operation may raise OSError
    MutatorMayFail,  \* whether update() may refuse the result of its mutator
    CanCrash,        \* whether a process may be killed
    CanLosePower     \* whether the machine may go down

ASSUME StoreAssumption ==
    /\ ProcessOf \in [Thread -> Process]
    /\ Initializer \subseteq Thread
    /\ MaxCalls \in [Thread -> Nat]
    /\ {PerProcessLocks, FilesMayFail, MutatorMayFail, CanCrash, CanLosePower}
          \subseteq BOOLEAN

VARIABLES
    pc,       \* where each thread is in its call, "idle" outside of one
    op,       \* the method each thread is in
    calls,    \* the number of calls each thread has made
    buf,      \* the document each thread works on
    inside,   \* the threads that hold the _thread_lock of their process
    lock,     \* the lock each owner holds on state.lock
    file,     \* state.json as the processes see it
    onDisk,   \* what state.json may be after a power loss
    acked,    \* the updates that returned to their callers
    seen      \* the document last returned to each thread

callVars == <<pc, op, calls, buf>>
lockVars == <<inside, lock>>
fileVars == <<file, onDisk>>
vars == <<callVars, lockVars, fileVars, acked, seen>>

\* flock belongs to the open file, of which each call has its own; lockf to the process
LockOwner == IF PerProcessLocks THEN Process ELSE Thread
Owner(t) == IF PerProcessLocks THEN ProcessOf[t] ELSE t

Update == Thread \X Nat
Content == [version : Nat \cup {-1}, applied : SUBSET Update]
Absent == [version |-> -1, applied |-> {}]
Initial == [version |-> 0, applied |-> {}]

\* the call thread t is in
Job(t) == <<t, calls[t]>>

Place == {"idle", "enter", "lock", "read", "mutate", "write", "replace", "sync",
          "return", "raise", "lockShared", "readShared", "returnShared"}

TypeOK ==
    /\ pc \in [Thread -> Place]
    /\ op \in [Thread -> {"none", "init", "update", "read"}]
    /\ calls \in [Thread -> Nat]
    /\ buf \in [Thread -> Content]
    /\ inside \subseteq Thread
    /\ lock \in [LockOwner -> {"none", "shared", "exclusive"}]
    /\ file \in Content /\ onDisk \subseteq Content
    /\ acked \subseteq Update
    /\ seen \in [Thread -> Content]

Init ==
    /\ pc = [t \in Thread |-> "idle"] /\ op = [t \in Thread |-> "none"]
    /\ calls = [t \in Thread |-> 0] /\ buf = [t \in Thread |-> Absent]
    /\ inside = {}
    /\ lock = [o \in LockOwner |-> "none"]
    /\ file = Absent /\ onDisk = {Absent}
    /\ acked = {}
    /\ seen = [t \in Thread |-> Absent]

-----------------------------------------------------------------------------
(* Mutants: what some definitions below would be with a plausible bug in the
   code.  No action uses them; each shows that a property can fail. *)

\* update() that takes no file lock
NeverConflicts(t, mode) == TRUE

\* _atomic_write without the fsync of the directory
NoDirSync == onDisk

\* an exception in update() that skips its finally clause
ReleaseForgotten(t) == UNCHANGED lockVars

\* update() that writes back the version it read
SameVersion(t) == [version |-> buf[t].version, applied |-> buf[t].applied \cup {Job(t)}]

\* init() without its existence check
NeverExists == FALSE

-----------------------------------------------------------------------------
(* Helpers. *)

Go(t, place) == pc' = [pc EXCEPT ![t] = place]

Begin(t, method, place) ==
    /\ pc[t] = "idle" /\ calls[t] < MaxCalls[t]
    /\ calls' = [calls EXCEPT ![t] = @ + 1]
    /\ op' = [op EXCEPT ![t] = method]
    /\ Go(t, place)

\* t leaves its method
End(t) ==
    /\ op' = [op EXCEPT ![t] = "none"]
    /\ buf' = [buf EXCEPT ![t] = Absent]
    /\ Go(t, "idle")

\* no other owner holds a lock that excludes this one
LockFree(t, mode) ==
    \A o \in LockOwner \ {Owner(t)} :
        lock[o] = "none" \/ (mode = "shared" /\ lock[o] = "shared")

\* the owner's lock becomes the one asked for, whatever it was
TakeLock(t, mode) == lock' = [lock EXCEPT ![Owner(t)] = mode]

\* what _thread_lock and closing state.lock leave behind a call of update()
ReleaseLocks(t) ==
    /\ lock' = [lock EXCEPT ![Owner(t)] = "none"]
    /\ inside' = inside \ {t}

\* an exception in the middle: update() unwinds through its finally clause
Abort(t) ==
    \/ op[t] = "update" /\ Go(t, "raise") /\ UNCHANGED <<op, buf>>
    \/ op[t] = "init" /\ End(t)

FileError(t) == FilesMayFail /\ Abort(t)

\* the document the mutator made, with its version incremented
Mutated(t) == [version |-> buf[t].version + 1, applied |-> buf[t].applied \cup {Job(t)}]

\* what may be on disk once the directory is synced
DirSynced == {file}

-----------------------------------------------------------------------------
(* init() *)

Exists == file # Absent

\* the existence check is made without a lock, long before the replace
CallInit(t) ==
    /\ t \in Initializer
    /\ \/ /\ ~Exists
          /\ Begin(t, "init", "write")
          /\ buf' = [buf EXCEPT ![t] = Initial]
       \/ /\ Exists                       \* StateAlreadyExists
          /\ Begin(t, "none", "idle")
          /\ UNCHANGED buf
    /\ UNCHANGED <<lockVars, fileVars, acked, seen>>

-----------------------------------------------------------------------------
(* update() *)

CallUpdate(t) ==
    /\ Begin(t, "update", "enter")
    /\ UNCHANGED <<buf, lockVars, fileVars, acked, seen>>

\* with self._thread_lock
Enter(t) ==
    /\ pc[t] = "enter" /\ \A u \in inside : ProcessOf[u] # ProcessOf[t]
    /\ inside' = inside \cup {t}
    /\ Go(t, "lock")
    /\ UNCHANGED <<op, calls, buf, lock, fileVars, acked, seen>>

\* _flock_with_timeout: one attempt succeeds
Lock(t) ==
    /\ pc[t] = "lock" /\ LockFree(t, "exclusive")
    /\ TakeLock(t, "exclusive")
    /\ Go(t, "read")
    /\ UNCHANGED <<op, calls, buf, inside, fileVars, acked, seen>>

\* StateLockTimeout
LockTimeout(t) ==
    /\ pc[t] = "lock" /\ ~LockFree(t, "exclusive")
    /\ Go(t, "raise")
    /\ UNCHANGED <<op, calls, buf, lockVars, fileVars, acked, seen>>

ReadRaw(t) ==
    /\ pc[t] = "read"
    /\ \/ /\ file # Absent
          /\ buf' = [buf EXCEPT ![t] = file]
          /\ Go(t, "mutate")
          /\ UNCHANGED op
       \/ file = Absent /\ Abort(t)        \* FileNotFoundError
       \/ FileError(t)
    /\ UNCHANGED <<calls, lockVars, fileVars, acked, seen>>

\* the mutator, the version check, the increment and the schema
Mutate(t) ==
    /\ pc[t] = "mutate"
    /\ \/ /\ buf' = [buf EXCEPT ![t] = Mutated(t)]
          /\ Go(t, "write")
          /\ UNCHANGED op
       \/ MutatorMayFail /\ Abort(t)
    /\ UNCHANGED <<calls, lockVars, fileVars, acked, seen>>

-----------------------------------------------------------------------------
(* _atomic_write(), for init() and update() *)

\* mkstemp, json.dump, fsync: the content is on disk before it has its name
WriteTemp(t) ==
    /\ pc[t] = "write"
    /\ \/ Go(t, "replace") /\ UNCHANGED <<op, buf>>
       \/ FileError(t)
    /\ UNCHANGED <<calls, lockVars, fileVars, acked, seen>>

\* os.replace
Replace(t) ==
    /\ pc[t] = "replace"
    /\ \/ /\ file' = buf[t]
          /\ onDisk' = onDisk \cup {buf[t]}
          /\ Go(t, "sync")
          /\ UNCHANGED <<op, buf>>
       \/ FileError(t) /\ UNCHANGED fileVars
    /\ UNCHANGED <<calls, lockVars, acked, seen>>

\* _fsync_dir; when it fails the call raises, but state.json has changed
SyncDir(t) ==
    /\ pc[t] = "sync"
    /\ \/ /\ onDisk' = DirSynced
          /\ \/ op[t] = "update" /\ Go(t, "return") /\ UNCHANGED <<op, buf>>
             \/ op[t] = "init" /\ End(t)
       \/ FileError(t) /\ UNCHANGED onDisk
    /\ UNCHANGED <<calls, lockVars, file, acked, seen>>

-----------------------------------------------------------------------------
(* the ways out of update(), and read() *)

Return(t) ==
    /\ pc[t] = "return"
    /\ acked' = acked \cup {Job(t)}
    /\ seen' = [seen EXCEPT ![t] = buf[t]]
    /\ ReleaseLocks(t)
    /\ End(t)
    /\ UNCHANGED <<calls, fileVars>>

Raise(t) ==
    /\ pc[t] = "raise"
    /\ ReleaseLocks(t)
    /\ End(t)
    /\ UNCHANGED <<calls, fileVars, acked, seen>>

\* read() and read_summary() take no thread lock
CallRead(t) ==
    /\ Begin(t, "read", "lockShared")
    /\ UNCHANGED <<buf, lockVars, fileVars, acked, seen>>

\* no LOCK_NB: the thread waits here as long as it takes
LockShared(t) ==
    /\ pc[t] = "lockShared" /\ LockFree(t, "shared")
    /\ TakeLock(t, "shared")
    /\ Go(t, "readShared")
    /\ UNCHANGED <<op, calls, buf, inside, fileVars, acked, seen>>

\* a missing file is read as Absent, and the call raises after its finally clause
ReadShared(t) ==
    /\ pc[t] = "readShared"
    /\ \/ buf' = [buf EXCEPT ![t] = file]
       \/ FilesMayFail /\ buf' = [buf EXCEPT ![t] = Absent]
    /\ Go(t, "returnShared")
    /\ UNCHANGED <<op, calls, lockVars, fileVars, acked, seen>>

ReturnShared(t) ==
    /\ pc[t] = "returnShared"
    /\ lock' = [lock EXCEPT ![Owner(t)] = "none"]
    /\ seen' = IF buf[t] = Absent THEN seen ELSE [seen EXCEPT ![t] = buf[t]]
    /\ End(t)
    /\ UNCHANGED <<calls, inside, fileVars, acked>>

-----------------------------------------------------------------------------
(* Crashes. *)

\* the threads of S are gone, with their locks and all they remembered; the process
\* may be started again
Vanish(S) ==
    LET lost(new, old) == [t \in Thread |-> IF t \in S THEN new ELSE old[t]] IN
    /\ pc' = lost("idle", pc) /\ op' = lost("none", op)
    /\ buf' = lost(Absent, buf) /\ seen' = lost(Absent, seen)
    /\ inside' = inside \ S
    /\ lock' = [o \in LockOwner |-> IF \E t \in S : o = Owner(t) THEN "none" ELSE lock[o]]
    /\ UNCHANGED <<calls, acked>>

Crash(p) ==
    /\ CanCrash
    /\ Vanish({t \in Thread : ProcessOf[t] = p})
    /\ UNCHANGED fileVars

PowerLoss ==
    /\ CanLosePower
    /\ Vanish(Thread)
    /\ file' \in onDisk
    /\ onDisk' = {file'}

Finished ==
    /\ \A t \in Thread : pc[t] = "idle" /\ calls[t] = MaxCalls[t]
    /\ UNCHANGED vars

Call(t) == CallInit(t) \/ CallUpdate(t) \/ CallRead(t)

Step(t) ==
    \/ Enter(t) \/ Lock(t) \/ LockTimeout(t) \/ ReadRaw(t) \/ Mutate(t)
    \/ WriteTemp(t) \/ Replace(t) \/ SyncDir(t) \/ Return(t) \/ Raise(t)
    \/ LockShared(t) \/ ReadShared(t) \/ ReturnShared(t)

Next ==
    \/ \E t \in Thread : Call(t) \/ Step(t)
    \/ \E p \in Process : Crash(p)
    \/ PowerLoss
    \/ Finished

Spec == Init /\ [][Next]_vars

\* A thread that can go on does.  Nothing is assumed of the order in which waiting
\* threads get a lock, nor that anybody calls.
FairSpec == Spec /\ \A t \in Thread : WF_vars(Step(t))

-----------------------------------------------------------------------------
(* Properties. *)

\* An update that returned is in state.json for good: no other update, init or
\* crash removes it, and no power loss either.
UpdatesSurvive == \A c \in onDisk \cup {file} : acked \subseteq c.applied

\* The version is a name for the document: two callers that were given the same
\* version were given the same updates.
VersionTellsContent ==
    \A t, u \in Thread : seen[t].version = seen[u].version => seen[t] = seen[u]

\* What one thread is given never goes back to an earlier version, while it lives.
ReadsNeverGoBack ==
    [][\A t \in Thread : seen'[t] = Absent \/ seen'[t].version >= seen[t].version]_vars

\* The store implements the document it promises.
Document == INSTANCE VersionedStore WITH content <- file
ImplementsDocument == Document!Spec

\* What a call may wait for: the lock of the threads of its process, and a reader the
\* lock of the file.  An update does not wait for that one, it times out.
Waits(t) ==
    \/ pc[t] = "enter" /\ \E u \in inside : ProcessOf[u] = ProcessOf[t]
    \/ pc[t] = "lockShared" /\ ~LockFree(t, "shared")

\* Calls do not all wait for each other, with either kind of file lock, whoever crashed
\* or raised before: while a call is under way, one that is does not wait.
SomebodyMoves ==
    (\E t \in Thread : pc[t] # "idle") => \E t \in Thread : pc[t] # "idle" /\ ~Waits(t)

\* Every call ends, by returning or by raising, if each thread makes finitely many.
EveryCallEnds == \A t \in Thread : pc[t] # "idle" ~> pc[t] = "idle"

-----------------------------------------------------------------------------
(* The inductive invariant behind the theorems of StateStore_proofs. *)

\* What the theorems assume: flock, or lockf and one thread in each process; and a run
\* directory that one thread initialises.
SoundLocks ==
    /\ PerProcessLocks => \A t, u \in Thread : ProcessOf[t] = ProcessOf[u] => t = u
    /\ \A t, u \in Initializer : t = u

\* Which method a place belongs to.
MethodInv ==
    \A t \in Thread :
        /\ pc[t] \in {"enter", "lock", "read", "mutate", "return", "raise"} => op[t] = "update"
        /\ pc[t] \in {"write", "replace", "sync"} => op[t] \in {"init", "update"}
        /\ op[t] = "init" => t \in Initializer /\ pc[t] \in {"write", "replace", "sync"}
        /\ op[t] = "none" => pc[t] = "idle"

Updating(t) ==
    op[t] = "update" /\ pc[t] \in {"read", "mutate", "write", "replace", "sync", "return"}
Reading(t) == pc[t] \in {"readShared", "returnShared"}

\* An update between its lock and its release excludes every other update and read.
LockInv ==
    /\ \A t \in Thread : Updating(t) => lock[Owner(t)] = "exclusive"
    /\ \A t \in Thread : Reading(t) => lock[Owner(t)] = "shared"
    /\ \A t, u \in Thread : lock[Owner(t)] = "exclusive" /\ t # u => lock[Owner(u)] = "none"

\* Whoever has a lock is in a call that will give it back.
InUpdate(t) ==
    op[t] = "update" /\ pc[t] \in {"lock", "read", "mutate", "write", "replace", "sync",
                                  "return", "raise"}
HolderInv ==
    /\ \A t \in inside : InUpdate(t)
    /\ \A o \in LockOwner : lock[o] # "none" =>
          \E t \in Thread : Owner(t) = o /\ (InUpdate(t) \/ Reading(t))

\* The copy an update or a read works on is not stale.
CopyFresh(t) ==
    /\ pc[t] = "mutate" => buf[t] = file /\ file # Absent
    /\ pc[t] \in {"write", "replace"} /\ op[t] = "update" =>
          /\ file # Absent
          /\ buf[t] = [version |-> file.version + 1,
                       applied |-> file.applied \cup {Job(t)}]
    /\ pc[t] \in {"write", "replace"} /\ op[t] = "init" => file = Absent /\ buf[t] = Initial
    /\ pc[t] \in {"sync", "return"} /\ op[t] = "update" =>
          buf[t] = file /\ Job(t) \in file.applied
    /\ pc[t] = "return" => onDisk = {file}
    /\ pc[t] = "returnShared" => buf[t] \in {Absent, file}

BufInv == \A t \in Thread : CopyFresh(t)

\* An update that has not replaced state.json yet is in no document.
FreshInv ==
    /\ \A u \in file.applied : u[2] <= calls[u[1]]
    /\ \A t \in Thread :
          pc[t] \in {"enter", "lock", "read", "mutate", "write", "replace"} =>
              Job(t) \notin file.applied

\* Every document that may be on disk is an earlier state.json, holds what was
\* acknowledged, and its version counts its updates.
DocumentInv ==
    /\ file \in onDisk
    /\ \A c \in onDisk :
          /\ acked \subseteq c.applied /\ c.applied \subseteq file.applied
          /\ IsFiniteSet(c.applied)
          /\ c = Absent \/ c.version = Cardinality(c.applied)

\* Nobody was given a later document than state.json, nor another one with its version.
SeenInv ==
    /\ VersionTellsContent
    /\ \A t \in Thread : /\ seen[t].version <= file.version
                         /\ seen[t].version = file.version => seen[t] = file
                         /\ seen[t].version = -1 => seen[t] = Absent

StoreInv ==
    TypeOK /\ MethodInv /\ LockInv /\ BufInv /\ FreshInv /\ DocumentInv /\ SeenInv
=============================================================================
