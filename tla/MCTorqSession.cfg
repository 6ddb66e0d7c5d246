CONSTANTS
  t1 = t1 t2 = t2
  Thread = {t1, t2}
  Layouts <- TheLayouts
  Net = {"n1", "n2"}
  Program <- TheProgram
  XramStarts = {0, 2048}
  XramSize = 4096
  MaxRetries = 2
  MaxRuns = 3
SPECIFICATION FairSpec
INVARIANTS DeviceIsTheSessions ResultsAreFinished NothingIsLeft
PROPERTY RunReturns
