SPECIFICATION Spec
CONSTANTS
  Counts <- MCCounts
  Alignments <- MCAlignments
  MaxDmaStrides = 2
  Area = 32
  Included = {"strided loads"}
INVARIANTS
  CopyArrives
