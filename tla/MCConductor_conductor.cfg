SPECIFICATION CSpec
CONSTANTS
  Task = {1, 2}
  DependsOn <- NoDeps
  Priority <- Rising
  MaxRetries <- FirstRetries
  PlanStatus = {"pending"}
  PlanRetries = {0}
  Worker = {1, 2}
  MaxParallel = 2
  GlobalCap = 3
  WorkerCap = 1
  Signals = {"SIGTERM"}
  SpawnMayFail = TRUE
  UpdatesMayFail = FALSE
  ClockMayJump = FALSE
  CanDie = FALSE
INVARIANTS
  RecordNeverAhead
  KillMarksOnlyDeadRuns
  KillReachesAllButOne
  OnlyLostGoAstray
  ConductorInv
