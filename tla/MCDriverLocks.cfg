CONSTANTS
  f1 = f1 f2 = f2 t1 = t1 t2 = t2 n1 = n1 n2 = n2 a1 = a1 d1 = d1 d2 = d2
  File = {f1, f2}
  Thread = {t1, t2}
  Net = {n1}
  Addr = {a1}
  Data = {d1}
  Command = {"create", "start", "run", "wait", "stop", "destroy", "write", "read", "release"}
  IdleDomain = {"default", "none"}
  Bits = {}
  MaxSegments = 0
  MaxCompletions = 0
SPECIFICATION FairSpec
VIEW Locks
INVARIANTS DomainFollowsActive NoFreedNetworkInUse
  WritesReachTheirNetwork CallsAreClocked
PROPERTIES CallReturns ImplementsNpuDriver
