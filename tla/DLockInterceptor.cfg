SPECIFICATION FairInvocationSpec
CONSTANTS
  c1 = c1
  c2 = c2
  Clients = {c1, c2}
  Expire = 3
  Timeout = 0
  AttemptMax = 1
  HoldMax = 1
  Skew = 1
  NoTime = NoTime
  MaxTime = 4
  MaxFaults = 1
INVARIANTS
  InvocationTypeOK
  
  
  KeyExpires
  NothingOwnedOutside
PROPERTIES
  
  InvocationEnds
