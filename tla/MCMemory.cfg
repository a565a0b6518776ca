CONSTANTS
  Frames <- MCFrames
  TotalPages = 26
  ReservedPages = 1
  AlignPages = 2
  BlockPages = 2
  MaxProcesses = 3
  MaxCode = 2
  MaxAsid = 2
  FlushAll = TRUE
  NULL = NULL
SPECIFICATION MSpec
CHECK_DEADLOCK FALSE
INVARIANTS RefCountCovers OneOwner Accounted UserSeesOwnPages LoadedTableIntact TranslationsCurrent ImpossiblePanics
PROPERTIES UsesPaging Implements
