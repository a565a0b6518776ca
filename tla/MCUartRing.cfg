SPECIFICATION Spec
CONSTANTS
  BufSize = 4
  MaxBytes = 12
INVARIANT WrapAroundHandled
CHECK_DEADLOCK FALSE
