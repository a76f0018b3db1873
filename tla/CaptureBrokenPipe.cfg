SPECIFICATION FairSpec
CONSTANTS
  PipeCap = 1
  FifoCap = 1
  MaxGen = 1
  MaxPerGen = 3
  MaxSignals = 1
PROPERTY BrokenPipeEnds
CHECK_DEADLOCK FALSE
