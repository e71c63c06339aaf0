SPECIFICATION Spec
CONSTANTS
  t1 = t1
  t2 = t2
  t3 = t3
  w1 = w1
  d1 = d1
  d2 = d2
  Threads = {t1,t2,t3}
  Maintainers = {t1}
  Wrappers = {w1}
  Conns = {d1,d2}
  InitialSize = 1
  Increment = 1
  MaxSize = 1
  DriverMax = 0
  None = None
INVARIANT InUseIsNotGiven
