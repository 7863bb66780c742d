SPECIFICATION FairSpec
CONSTANTS
  Task = {1, 2}
  DependsOn <- Chain
  Priority <- Rising
  MaxRetries <- FirstRetries
  PlanStatus = {"pending"}
  PlanRetries = {0}
  Worker = {1, 2, 3}
  MaxParallel = 2
  GlobalCap = 1
  WorkerCap = 1
  Signals = {"SIGINT"}
  SpawnMayFail = FALSE
  UpdatesMayFail = FALSE
  ClockMayJump = FALSE
  CanDie = FALSE
PROPERTIES
  RunEnds
