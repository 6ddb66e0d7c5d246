SPECIFICATION Spec
CONSTANTS
  Operations <- MCOperations
  Memory = 3696
  SliceCount = 2
  SizeRange = 1073741824
  IntRange = 262144
INVARIANTS
  TilesComputeTheResult
  SlicesAreInside
PROPERTY OnlyNoProgressIsEndless
CHECK_DEADLOCK FALSE
