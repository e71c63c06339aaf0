SPECIFICATION InvocationSpec
CONSTANTS
  c1 = c1
  c2 = c2
  c3 = c3
  Clients = {c1, c2, c3}
  Expire = 1
  Timeout = 0
  AttemptMax = 1
  HoldMax = 1
  Skew = 0
  NoTime = NoTime
  MaxTime = 3
  MaxFaults = 0
SYMMETRY Symmetry
INVARIANT MethodsExclude
