SPECIFICATION Spec
CONSTANTS
  Counts <- MCCounts
  Alignments <- MCAlignments
  MaxDmaStrides = 2
  Area = 32
  Included = {}
INVARIANTS
  CopyArrives
  OnlyDestinationChanges
  DmaIsPossible
  SizeCoversThePart
