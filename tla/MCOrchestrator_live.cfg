SPECIFICATION FairSpec
CONSTANTS
  Task = {1, 2, 3}
  DependsOn <- JoinDeps
  Priority <- Rising
  MaxRetries <- LastRetries
  PlanStatus = {"pending", "running"}
  PlanRetries = {0}
  Worker = {1, 2, 3, 4}
  MaxParallel = 2
  GlobalCap = 1
  WorkerCap = 1
  Signals = {"SIGINT"}
  SpawnMayFail = TRUE
  UpdatesMayFail = FALSE
  ClockMayJump = FALSE
  CanDie = FALSE
INVARIANTS
  NeverStuck
PROPERTIES
  HaltCompletes
  HardCapReachesEveryWorker
  RunEndsUnlessStarved
