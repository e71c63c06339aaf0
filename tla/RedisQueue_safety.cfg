SPECIFICATION Spec
CONSTANTS
  n1 = n1
  n2 = n2
  k1 = k1
  k2 = k2
  m1 = m1
  m2 = m2
  m3 = m3
  Nodes = {n1,n2}
  Keys = {k1,k2}
  Messages = {m1,m2,m3}
  KeyOf <- MCKeyOf
  ConsumerKeys <- MCConsumerKeys
  MaxFaults = 1
  None = None
INVARIANTS
  TypeOK
  NothingVanishes
  HandledOnce
  HandledInOrder
SYMMETRY Symmetry
