SPECIFICATION Spec
CONSTANTS
  s1 = s1
  s2 = s2
  t1 = t1
  t2 = t2
  t3 = t3
  Semaphore = {s1, s2}
  Thread = {t1, t2, t3}
  MaxPayload = 2
  Job <- MCJob
INVARIANT WorkAfterWait
PROPERTY WaitReturns
