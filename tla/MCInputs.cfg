SPECIFICATION Spec
CONSTANTS
  None = None
  Workflows <- AllShapes
  MaxValues = 5
  MaxTasks = 4
  MaxRepeat = 2
INVARIANTS WithinLimits EveryValueServed TaskIsARun RunnerAccepts
CHECK_DEADLOCK FALSE
