SPECIFICATION Spec
CONSTANTS
  MaxProcesses = 3
  MaxFds = 3
  StdFds = 1
  FileSize = 1
  MaxFiles = 5
  Half = 2
  NULL = NULL
INVARIANTS CountCovers SharedByFork
PROPERTY Implements
CHECK_DEADLOCK FALSE
