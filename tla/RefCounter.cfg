\* A heap of a few words, counted by an integer that just suffices.
SPECIFICATION Spec
CONSTANTS
  CAP_HEAP = 5
  CAP_BLOCKS = 5
  BITS = 2
  U8 = 5
  Lens = {1, 2}
  Nil = Nil
INVARIANTS CountsCover
PROPERTIES NeverReused CyclesReclaimed
CHECK_DEADLOCK FALSE
