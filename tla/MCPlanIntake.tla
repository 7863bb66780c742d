---------------------------- MODULE MCPlanIntake ----------------------------
(***************************************************************************)
(* Plans of up to three tasks for the runs of PlanIntake: every graph on   *)
(* three ids, an unknown one, an id with a space, and one defect at a time.*)
(***************************************************************************)
EXTENDS PlanIntake

Ids == {"a", "b", "c"}

\* " a" is "a" with a space; "" stands for what is no string or blank.
Texts == Ids \cup {" a", "x", ""}
Strips == [t \in Texts |-> IF t = " a" THEN "a" ELSE t]

N(i) == [kind |-> "number", int |-> i]
Bad == [kind |-> "other", int |-> 0]
Inf == [kind |-> "infinity", int |-> 0]

Plain(id, deps) ==
    [id |-> id, prompt |-> "a", deps |-> deps, priority |-> N(5), maxRetries |-> N(2),
     status |-> "pending", retries |-> N(0)]

Graphs == {Plain(id, deps) : id \in Ids, deps \in SUBSET Ids}

A == Plain("a", {})

Defects ==
    {Plain("", {}), Plain(" a", {" a"}), Plain("b", {"x"}), Plain("c", {""}),
     [A EXCEPT !.prompt = ""], [A EXCEPT !.priority = Bad], [A EXCEPT !.priority = N(10)],
     [A EXCEPT !.maxRetries = N(11)], [A EXCEPT !.maxRetries = Inf],
     [A EXCEPT !.status = "paused"], [A EXCEPT !.status = "done"],
     [A EXCEPT !.retries = Bad], [A EXCEPT !.retries = Inf], [A EXCEPT !.retries = N(-1)],
     [A EXCEPT !.retries = N(3)]}

RawTasks == Graphs \cup Defects
=============================================================================
