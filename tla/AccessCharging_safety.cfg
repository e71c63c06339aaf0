SPECIFICATION Spec
CONSTANTS
  w1 = w1
  w2 = w2
  w3 = w3
  Workers = {w1,w2,w3}
  InitialCount = 3
  InitialMoney = 3
  MaxRows = 2
  MaxCost = 2
  MaxTaken = 8
SYMMETRY Symmetry
INVARIANTS
  TypeOK
  CountNeverNegative
  CountNeverOvercharged
  DebtIsPerWorker
PROPERTY
  IsPrepaidAccount
