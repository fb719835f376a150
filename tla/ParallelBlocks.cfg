\* Three workers on a buffer whose side is not a multiple of the block's.
SPECIFICATION Spec
CONSTANTS
  BUFFER_WIDTH = 5
  BUFFER_HEIGHT = 5
  N = 2
  THREAD_CAP = 3
  U16 = 12
INVARIANTS NoRace Printed
PROPERTIES WrittenOnce Finishes
CHECK_DEADLOCK FALSE
