SPECIFICATION SessionSpec
CONSTANTS
  r1 = r1
  r2 = r2
  i1 = i1
  i2 = i2
  v1 = v1
  Requests = {r1,r2}
  SessionIds = {i1,i2}
  Values = {v1}
  NoValue = NoValue
  MaxRepeats = 1
INVARIANTS
  SessionTypeOK
  TakenOnce
  HashesExpire
SYMMETRY RequestSymmetry
