CONSTANTS
  p1 = p1
  p2 = p2
  c1 = c1
  x1 = x1
  x2 = x2
  None = None
  Producer = {p1, p2}
  Consumer = {c1}
  Part = {x1, x2}
  RingSize = 2
  MaxSeq = 2
SPECIFICATION Spec
INVARIANT
  PoppedSlotIsWritten
