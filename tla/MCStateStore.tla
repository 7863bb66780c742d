---------------------------- MODULE MCStateStore ----------------------------
(***************************************************************************)
(* Threads and processes for the runs of StateStore.                       *)
(***************************************************************************)
EXTENDS StateStore

CONSTANTS t1, t2, t3, p1, p2

\* Two threads of one process, and one of another.
TwoAndOne == [t \in Thread |-> IF t = t3 THEN p2 ELSE p1]

\* One call suffices for the second thread of a process.
OneOfTwo == [t \in Thread |-> IF t = t2 THEN 1 ELSE 2]
=============================================================================
