--------------------------- MODULE MCWorkerMonitor ---------------------------
(***************************************************************************)
(* Instances of WorkerMonitor.  The thresholds keep the order they have in *)
(* the code (heartbeats 5 s, waits 5 s, alarms 60 s and 600 s), scaled so  *)
(* that each can be reached within a few ticks.                            *)
(***************************************************************************)
EXTENDS WorkerMonitor
=============================================================================
