SPECIFICATION Spec
CONSTANTS
  MaxFrames = 4
  Rates = {0, 25, 30}
  Heights = {0, 240, 288, 720}
  Bodies = {10, 100, 500}
  MaxDst = 500
INVARIANTS NoFpsIsFatal
CHECK_DEADLOCK FALSE
