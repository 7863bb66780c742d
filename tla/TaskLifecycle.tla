--------------------------- MODULE TaskLifecycle ---------------------------
(***************************************************************************)
(* What the supervisor promises about the tasks of one run, with no worker *)
(* process, no loop and no state file in sight: a task is started only     *)
(* when everything it depends on is done, an attempt ends well (done) or   *)
(* badly, a bad one costs one retry until the budget is used up, and       *)
(* "done" and "terminal" are for ever.                                     *)
(*                                                                         *)
(* Orchestrator.tla implements this specification.                         *)
(***************************************************************************)
EXTENDS Integers

CONSTANTS Task,         \* the tasks of the plan
          DependsOn,    \* DependsOn[t]: the tasks that must be done before t
          MaxRetries,   \* MaxRetries[t]: how many bad attempts are forgiven
          PlanStatus,   \* the statuses a plan may give a task to begin with
          PlanRetries   \* and how many bad attempts it may say there were

VARIABLES status,       \* status[t]: where task t is
          retries       \* retries[t]: how many bad attempts were forgiven

vars == <<status, retries>>

Init ==
    /\ status \in [Task -> PlanStatus]
    /\ retries \in [Task -> PlanRetries]

\* The supervisor launches a worker for t.
StartTask(t) ==
    /\ status[t] = "pending"
    /\ \A d \in DependsOn[t] : status[d] = "done"
    /\ status' = [status EXCEPT ![t] = "running"]
    /\ UNCHANGED retries

\* The attempt ended with return code 0.
Succeed(t) ==
    /\ status[t] = "running"
    /\ status' = [status EXCEPT ![t] = "done"]
    /\ UNCHANGED retries

\* The attempt ended badly, or could not be launched at all.
FailTask(t) ==
    /\ status[t] \in {"running", "pending"}
    /\ \A d \in DependsOn[t] : status[d] = "done"
    /\ \/ /\ retries[t] < MaxRetries[t]
          /\ retries' = [retries EXCEPT ![t] = @ + 1]
          /\ status' = [status EXCEPT ![t] = "pending"]
       \/ /\ retries[t] >= MaxRetries[t]
          /\ status' = [status EXCEPT ![t] = "terminal"]
          /\ UNCHANGED retries

Next == \E t \in Task : StartTask(t) \/ Succeed(t) \/ FailTask(t)

Spec == Init /\ [][Next]_vars
=============================================================================
