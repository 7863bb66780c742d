SPECIFICATION KillSpec
CONSTANTS
  t1 = t1
  p1 = p1
  Thread = {t1}
  Process = {p1}
  ProcessOf <- OneProcess
  Initializer = {t1}
  MaxCalls <- ThreeCalls
  PerProcessLocks = FALSE
  FilesMayFail = FALSE
  MutatorMayFail = FALSE
  CanCrash = FALSE
  CanLosePower = FALSE
PROPERTIES
  WritesBuildOnEachOther
