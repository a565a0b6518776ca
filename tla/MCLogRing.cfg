SPECIFICATION Spec
CONSTANTS
  Length = 3
  MaxMessages = 5
INVARIANTS
  PrintedInOrder
  LocksMask
