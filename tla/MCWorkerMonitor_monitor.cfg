SPECIFICATION FairSpec
CONSTANTS
  BeatEvery = 2
  EscalationWait = 2
  HeartbeatTimeout = 3
  CaptureRepeats = 2
  IdleKill = 4
  WorkerCap = 0
  GlobalCap = 1
  LineKind = {"text", "result", "malformed"}
  PipeSize = 2
  MaxResults = 1
  MaxPause = 1
  ClockMayBeSet = TRUE
CHECK_DEADLOCK FALSE
INVARIANTS
  MonitorInv
  NoFalseAlarm
  OnlySpendersAreSignalled
  GraceBeforeSigkill
PROPERTIES
  OverspendingWorkerEnds
  PipeDrains
