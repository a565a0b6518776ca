SPECIFICATION Spec
CONSTANTS
  TotalPages = 6
  ReservedPages = 1
  AlignPages = 2
  BlockPages = 2
  NULL = NULL
PROPERTY Implements
