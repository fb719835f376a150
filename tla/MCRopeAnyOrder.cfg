SPECIFICATION Spec
CONSTANTS
  SIZE = 8
  Strings <- ShortStrings
  Positions <- NearPositions
  Ranges <- AnyOrder
  Nil = Nil
  a = a
  b = b
INVARIANTS DeleteTakesAnyOrder
CHECK_DEADLOCK FALSE
