SPECIFICATION Spec
CONSTANTS
  Wrap = 16
  Damping = 4
  MinSamples = 3
  RefPeriods = {3}
  Lapses = {0, 1, 7, 8, 13}
  MaxFrames = 11
INVARIANTS JIsTwo
CHECK_DEADLOCK FALSE
