SPECIFICATION FairSpec
CONSTANTS
  BeatEvery = 2
  EscalationWait = 2
  HeartbeatTimeout = 3
  CaptureRepeats = 2
  IdleKill = 4
  WorkerCap = 0
  GlobalCap = 1
  LineKind = {"text"}
  PipeSize = 2
  MaxResults = 1
  MaxPause = 1
  ClockMayBeSet = FALSE
CHECK_DEADLOCK FALSE
PROPERTIES
  StuckWorkerKilled
