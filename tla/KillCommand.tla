---------------------------- MODULE KillCommand ----------------------------
(***************************************************************************)
(* The store of StateStore beside `tab-conductor kill` (cli.py), another   *)
(* process that reads state.json and, when it finds no live worker in it,  *)
(* writes its copy back with status "halting".  It uses no StateStore, so  *)
(* it takes neither of its locks, leaves the version alone, and syncs      *)
(* nothing.                                                                *)
(*                                                                         *)
(* Whether a worker row names a live process is not in this model: both    *)
(* answers are possible for every document.                                *)
(***************************************************************************)
EXTENDS StateStore

VARIABLES killPc,   \* where kill is: "start", "signal", "ended"
          killCopy  \* the document it read

kvars == <<vars, killPc, killCopy>>

KillInit == Init /\ killPc = "start" /\ killCopy = Absent

\* state_path.exists() and json.load
KillReads ==
    /\ killPc = "start"
    /\ killPc' = IF file = Absent THEN "ended" ELSE "signal"
    /\ killCopy' = file
    /\ UNCHANGED vars

\* a worker took the SIGTERM: state.json is left to the supervisor
KillSignals ==
    /\ killPc = "signal"
    /\ killPc' = "ended"
    /\ UNCHANGED <<vars, killCopy>>

\* killed == 0: mkstemp, json.dump and os.replace, or an OSError that is dropped
KillMarks ==
    /\ killPc = "signal"
    /\ killPc' = "ended"
    /\ \/ file' = killCopy /\ onDisk' = onDisk \cup {killCopy}
       \/ FilesMayFail /\ UNCHANGED fileVars
    /\ UNCHANGED <<callVars, lockVars, acked, seen, killCopy>>

Kill == KillReads \/ KillSignals \/ KillMarks

KillNext == (Next /\ UNCHANGED <<killPc, killCopy>>) \/ Kill

KillSpec == KillInit /\ [][KillNext]_kvars

\* docs/ARCHITECTURE.md:42: state.lock is there to "Prevent concurrent writes": each
\* document that replaces another was made from it.
BuildsOn == file' # file => file.applied \subseteq file'.applied
WritesBuildOnEachOther == [][BuildsOn]_kvars

\* It is kill alone that goes back: beside it the updates still build on what they
\* replace, also those that had read before kill wrote.
OnlyKillGoesBack == [][KillMarks \/ BuildsOn]_kvars

-----------------------------------------------------------------------------
(* The inductive invariant behind OnlyKillGoesBack, while the power stays on. *)

\* What a thread is about to write holds all that state.json does.
CopyAhead(t) ==
    /\ op[t] = "update" /\ pc[t] \in {"mutate", "write", "replace"} =>
          file # Absent /\ buf[t] # Absent /\ file.applied \subseteq buf[t].applied
    /\ op[t] = "init" /\ pc[t] \in {"write", "replace"} => file = Absent

\* kill's copy is of an earlier state.json.
KillCopyBehind ==
    killPc = "signal" =>
        file # Absent /\ killCopy # Absent /\ killCopy.applied \subseteq file.applied

KillInv ==
    /\ TypeOK /\ MethodInv /\ LockInv
    /\ killPc \in {"start", "signal", "ended"} /\ killCopy \in Content
    /\ \A t \in Thread : CopyAhead(t)
    /\ KillCopyBehind
=============================================================================
