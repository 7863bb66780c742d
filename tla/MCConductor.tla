---------------------------- MODULE MCConductor ----------------------------
(***************************************************************************)
(* Plans for the runs of Conductor.                                        *)
(***************************************************************************)
EXTENDS Conductor

NoDeps == [t \in Task |-> {}]

Rising == [t \in Task |-> t]

\* The first task may be retried once.
FirstRetries == [t \in Task |-> IF t = 1 THEN 1 ELSE 0]
=============================================================================
