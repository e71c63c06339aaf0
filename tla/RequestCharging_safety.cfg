SPECIFICATION Spec
CONSTANTS
  r1 = r1
  r2 = r2
  r3 = r3
  Requests = {r1,r2,r3}
  Results <- MCTwoResults
  Chargings <- MCChargings
  InitialMoney = 3
  MaxCost = 2
  MaxCredit = 1
  None = None
SYMMETRY Symmetry
INVARIANTS
  TypeOK
  OverdraftBounded
  ExactUnlessRaced
  NeverOvercharged
  DeliveredIsLogged
