SPECIFICATION Spec
CONSTANTS
  MaxSteps = 4
  Iterations = {2, 3}
  SliceCount = 2
  NssTaskSize = 3
  MemSize = 20
  Kinds = {"load", "kernel", "into", "view", "css", "host", "forall"}
INVARIANTS
  ResultsMatch
  UsedBuffersAreLive
  ExecutorIsIdle
  ProgramsAreLoaded
  XramIsMapped
