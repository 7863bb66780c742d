SPECIFICATION FairSpec
CONSTANTS
  Text <- Texts
  Strip <- Strips
  RawTask <- RawTasks
  MaxTasks = 3
  ParserDepth = 3
  SupervisorDepth = 2
INVARIANTS
  IntakeInv
  PlanIsWellFormed
  CyclesAreReal
  SecondCheckAgrees
  ValidPlansAreSound
PROPERTIES
  IntakeEnds
