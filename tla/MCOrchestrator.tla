--------------------------- MODULE MCOrchestrator ---------------------------
(***************************************************************************)
(* Plans for the runs of Orchestrator: shape, priorities, retry budgets.   *)
(***************************************************************************)
EXTENDS Orchestrator

\* Task 2 waits for 1, task 3 for 2, and so on.
Chain == [t \in Task |-> IF t = 1 THEN {} ELSE {t - 1}]

\* Tasks 1 and 2 are free, task 3 joins them.
JoinDeps == [t \in Task |-> IF t = 3 THEN {1, 2} ELSE {}]

NoDeps == [t \in Task |-> {}]

\* A later task is dispatched before an earlier one.
Rising == [t \in Task |-> t]

NoRetry == [t \in Task |-> 0]

\* Only the first task may be retried, once; or only the last one.
FirstRetries == [t \in Task |-> IF t = 1 THEN 1 ELSE 0]
LastRetries == [t \in Task |-> IF t + 1 \in Task THEN 0 ELSE 1]
=============================================================================
