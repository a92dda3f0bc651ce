CONSTANTS
  t1 = t1
  t2 = t2
  t3 = t3
  Thread = {t1}
  Baseline = 10
  MaxLen = 4
SPECIFICATION Spec
INVARIANT
  IsEmptyMeansEmpty
