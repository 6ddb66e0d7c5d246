SPECIFICATION Spec
CONSTANTS
  MaxSteps = 2
  Iterations = {2}
  SliceCount = 2
  NssTaskSize = 3
  MemSize = 30
  Kinds = {"load", "kernel"}
INVARIANT ProgramsAreMapped
