SPECIFICATION FairSpec
CONSTANTS
  t1 = t1
  t2 = t2
  t3 = t3
  w1 = w1
  w2 = w2
  w3 = w3
  d1 = d1
  d2 = d2
  d3 = d3
  Threads = {t1,t2,t3}
  Maintainers = {t1}
  Wrappers = {w1,w2,w3}
  Conns = {d1,d2,d3}
  InitialSize = 1
  Increment = 1
  MaxSize = 3
  DriverMax = 2
  None = None
INVARIANTS
  TypeOK
  PoolBounded
  BusyHasUser
PROPERTY
  WaiterObtains
  KeepsLoans
