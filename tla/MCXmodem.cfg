SPECIFICATION Spec
CONSTANTS
  Blocks = 11
  DestSize = 10
  Word = 5
  MaxRetrans = 3
  DataTries = 4
  SyncTries = 2
  EotTries = 2
  Depth = 2
INVARIANTS
  StoredInOrder
  CompleteAtEnd
CHECK_DEADLOCK FALSE
