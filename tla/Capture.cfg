SPECIFICATION Spec
CONSTANTS
  PipeCap = 1
  FifoCap = 2
  MaxGen = 2
  MaxPerGen = 3
  MaxSignals = 1
INVARIANTS TypeOK OnlySessionsLoseTails WaitedForDies
CHECK_DEADLOCK FALSE
