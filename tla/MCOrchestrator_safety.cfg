SPECIFICATION Spec
CONSTANTS
  Task = {1, 2, 3}
  DependsOn <- JoinDeps
  Priority <- Rising
  MaxRetries <- FirstRetries
  PlanStatus = {"pending"}
  PlanRetries = {0}
  Worker = {1, 2, 3, 4}
  MaxParallel = 2
  GlobalCap = 0
  WorkerCap = 1
  Signals = {"SIGINT"}
  SpawnMayFail = FALSE
  UpdatesMayFail = FALSE
  ClockMayJump = FALSE
  CanDie = FALSE
INVARIANTS
  IInv
  NoDoubleRun
  RetryBudget
  NobodyLeftBehind
  ExitCodeHonest
  AtMostOneUnrecorded
  FinalRecordExact
  HaltedRecordExact
  RecordInv
PROPERTIES
  SignalsHitOnlyWorkers
  ImplementsLifecycle
