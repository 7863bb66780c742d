SPECIFICATION FairSpec
CONSTANTS
  t1 = t1
  t2 = t2
  t3 = t3
  p1 = p1
  p2 = p2
  Thread = {t1, t2, t3}
  Process = {p1, p2}
  ProcessOf <- TwoAndOne
  Initializer = {t1}
  MaxCalls <- OneOfTwo
  PerProcessLocks = FALSE
  FilesMayFail = TRUE
  MutatorMayFail = TRUE
  CanCrash = TRUE
  CanLosePower = TRUE
INVARIANTS
  UpdatesSurvive
  VersionTellsContent
  StoreInv
PROPERTIES
  ReadsNeverGoBack
  ImplementsDocument
  EveryCallEnds
