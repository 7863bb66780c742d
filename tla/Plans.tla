------------------------------- MODULE Plans -------------------------------
(***************************************************************************)
(* What a plan is to the supervisor that runs it.  PlanIntake shows that   *)
(* every plan it lets through is of this kind; Orchestrator assumes it.    *)
(***************************************************************************)
EXTENDS Integers, FiniteSets

TaskStatus == {"pending", "ready", "assigned", "running", "done", "failed", "terminal"}

\* D[t] is what t waits for.  Among any tasks there is one that waits for none of
\* them; on a finite set this says that no task waits for itself, however indirectly.
Acyclic(T, D) == \A S \in SUBSET T : S # {} => \E t \in S : D[t] \cap S = {}

\* Tasks T with dependencies D, priorities P and retry budgets M, whose statuses are
\* in St and whose retries already used are in Re.
WellFormedPlan(T, D, P, M, St, Re) ==
    /\ IsFiniteSet(T)
    /\ D \in [T -> SUBSET T]
    /\ Acyclic(T, D)
    /\ P \in [T -> 0 .. 9]
    /\ M \in [T -> 0 .. 10]
    /\ St \subseteq TaskStatus
    /\ Re \subseteq Nat
=============================================================================
