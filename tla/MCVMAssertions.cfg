SPECIFICATION Spec
CONSTANTS
  b1 = b1
  b2 = b2
  b3 = b3
  b4 = b4
  v1 = v1
  v2 = v2
  i1 = i1
  Value <- TheValue
  ValueBytes <- TheValueBytes
  Alias <- TheAlias
  Parent <- TheParent
  AliasBytes <- TheAliasBytes
  Invocation = {i1}
  SizeBytes = 8
  ReservedBytes = 1
  WordSizeBytes = 1
  LargeAllocSizeBytes = 3
  MaxOps = 6
  MaxOperands = 1
INVARIANT AssertionsHold
