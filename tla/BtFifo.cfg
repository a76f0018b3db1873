SPECIFICATION Spec
CONSTANTS
  BSize = 5
  UseWmin = FALSE
  Wmin = 0
  MaxBytes = 16
INVARIANTS TypeOK InOrder FlushComplete
PROPERTY ImplementsByteQueue
CHECK_DEADLOCK FALSE
