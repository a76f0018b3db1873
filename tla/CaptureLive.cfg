SPECIFICATION FairSpec
CONSTANTS
  PipeCap = 1
  FifoCap = 2
  MaxGen = 1
  MaxPerGen = 2
  MaxSignals = 1
PROPERTIES SilentStreamerReplaced DeadStreamerReplaced FifoReachesMain TerminationHeeded ShutdownOnceDrained
CHECK_DEADLOCK FALSE
