SPECIFICATION Spec
CONSTANTS
  TotalClusters = 4
  Word = 8
  Handles = {h1, h2}
  Names = {a, b}
  Slots = 3
  MaxSize = 3
  NULL = NULL
INVARIANTS SizeCovered ChainsSound
SYMMETRY MCSymmetry
