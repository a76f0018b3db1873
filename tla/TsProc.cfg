SPECIFICATION Spec
CONSTANTS
  Wrap = 16
  Damping = 4
  MinSamples = 3
  RefPeriods = {2, 3}
  Lapses = {0, 1, 7, 8, 13}
  MaxFrames = 9
INVARIANTS TypeOK StaysClose StatsFollowClocks
PROPERTIES CorrectionsHelp
CHECK_DEADLOCK FALSE
