CONSTANTS
  f1 = f1 f2 = f2 t1 = t1 t2 = t2 n1 = n1 n2 = n2 a1 = a1 d1 = d1 d2 = d2
  File = {f1, f2}
  Thread = {t1}
  Net = {n1, n2}
  Addr = {a1}
  Data = {d1}
  Command = {"create", "start", "run", "wait", "stop", "write", "release"}
  IdleDomain = {"default"}
  Bits = {}
  MaxSegments = 1
  MaxCompletions = 1
SPECIFICATION Spec
SYMMETRY Symmetric
INVARIANTS NoForeignJob JobFindsItsLram
PROPERTY WaitMeansFinished
