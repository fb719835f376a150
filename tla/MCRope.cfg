SPECIFICATION Spec
CONSTANTS
  SIZE = 8
  Strings <- ShortStrings
  Positions <- NearPositions
  Ranges <- Forward
  Nil = Nil
  a = a
  b = b
INVARIANTS WellFormed
PROPERTIES IsText
CHECK_DEADLOCK FALSE
