SPECIFICATION Spec
CONSTANTS
  r1 = r1
  r2 = r2
  Requests = {r1,r2}
  Results <- MCResults
  Chargings <- MCChargings
  InitialMoney = 3
  MaxCost = 2
  MaxCredit = 0
  None = None
SYMMETRY Symmetry
INVARIANTS
  ChargesAreKept
