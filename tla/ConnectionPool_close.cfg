SPECIFICATION Spec
CONSTANTS
  t1 = t1
  w1 = w1
  w2 = w2
  d1 = d1
  d2 = d2
  d3 = d3
  Threads = {t1}
  Maintainers = {t1}
  Wrappers = {w1,w2}
  Conns = {d1,d2,d3}
  InitialSize = 2
  Increment = 1
  MaxSize = 2
  DriverMax = 0
  None = None
PROPERTY ClosedPoolIsClosed
