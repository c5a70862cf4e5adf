SPECIFICATION MCSpec
CONSTANTS
  b1 = b1
  b2 = b2
  b3 = b3
  b4 = b4
  b5 = b5
  b6 = b6
  b7 = b7
  Blocks <- MCBlocks
  Capacity = 3
  NULL = NULL
  Inputs <- MCInputs
INVARIANTS
  BlocksSound
  InBounds
  FilterExact
PROPERTY ImplementsBatch
