CONSTANTS
  p1 = p1
  p2 = p2
  c1 = c1
  c2 = c2
  v1 = v1
  v2 = v2
  None = None
  Producer = {p1, p2}
  Consumer = {c1, c2}
  Item = {v1, v2}
SPECIFICATION Spec
INVARIANTS
  TypeOK
  LenAccounting
PROPERTIES
  EveryItemYielded
