SPECIFICATION ScanSpec
CONSTANTS
  a = a
  b = b
  c = c
  d = d
  Value <- MCValue
  ValueBytes <- MCValueBytes
  SizeBytes = 17
  ReservedBytes = 1
  WordSizeBytes = 2
  LargeAllocSizeBytes = 4
INVARIANTS PoolTypeOK ReadsInBounds NoOverlap UsedSizeIsExact
PROPERTIES ImplementsPool ImplementsAddressPool SearchEnds
