CONSTANTS
  NaN = NaN
  Usage <- MCUsage
  One = 10
  UsageCap = 1
  StatusCap = 2
  MaxSent = 4
SPECIFICATION Spec
INVARIANTS
  TypeOK
  DeliveredInOrder
PROPERTIES
  StreamEnds
  DepartureIsNoticed
