\* Every order of insertion of a few keys into small leaves and blocks.
SPECIFICATION Spec
CONSTANTS
  CAP_LEAF_BUFFER = 2
  CAP_NODES = 3
  CAP_BLOCKS = 8
  CAP_LEAFS = 8
  Keys = {1,2,3,4,5,6,7,8}
INVARIANTS WellFormed
PROPERTIES IsDictionary
CHECK_DEADLOCK FALSE
