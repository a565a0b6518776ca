SPECIFICATION Spec
CONSTANTS
  TotalPages = 8
  ReservedPages = 1
  AlignPages = 2
  BlockPages = 3
INVARIANTS
  NoDuplicates
  Exclusive
  Conserved
  CounterExact
  BlocksAligned
PROPERTY Implements
