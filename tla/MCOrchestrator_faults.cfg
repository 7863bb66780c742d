SPECIFICATION Spec
CONSTANTS
  Task = {1, 2}
  DependsOn <- NoDeps
  Priority <- Rising
  MaxRetries <- NoRetry
  PlanStatus = {"pending"}
  PlanRetries = {0}
  Worker = {1, 2}
  MaxParallel = 1
  GlobalCap = 1
  WorkerCap = 1
  Signals = {"SIGINT", "SIGTERM"}
  SpawnMayFail = TRUE
  UpdatesMayFail = TRUE
  ClockMayJump = FALSE
  CanDie = TRUE
INVARIANTS
  DiskNeverAhead
  ParallelLimit
