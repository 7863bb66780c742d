--------------------------- MODULE MCKillCommand ---------------------------
(***************************************************************************)
(* One supervisor, and kill, for the run of KillCommand.                   *)
(***************************************************************************)
EXTENDS KillCommand

CONSTANTS t1, p1

OneProcess == [t \in Thread |-> p1]

\* init() and two updates
ThreeCalls == [t \in Thread |-> 3]
=============================================================================
