SPECIFICATION Spec
CONSTANTS
  t1 = t1
  t2 = t2
  t3 = t3
  p1 = p1
  p2 = p2
  Thread = {t1, t2, t3}
  Process = {p1, p2}
  ProcessOf <- TwoAndOne
  Initializer = {t1}
  MaxCalls <- OneOfTwo
  PerProcessLocks = TRUE
  FilesMayFail = FALSE
  MutatorMayFail = FALSE
  CanCrash = FALSE
  CanLosePower = FALSE
INVARIANTS
  UpdatesSurvive
