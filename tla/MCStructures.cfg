SPECIFICATION MCSpec
CONSTANTS
  CAP_NODES = 6
  Node <- FewNodes
  Address = {a1, a2, a3, a4}
  NULL = NULL
  T = {v, w}
  MAP_X = 3
  MAP_Y = 3
  Walls <- AllWalls
  Starts <- FewStarts
  Arrays <- FewArrays
  Numbers = {0, 1, 2, 3, 4, 5, 6, 7, 8}
  MAX = 255
  Texts <- FewTexts
  Garbage = {0, 2, 5}
  COUNT_X = 3
  COUNT_Y = 2
  COUNT_Z = 1
  COUNT_LISTS = 5
  EPSILON = 1
  CubeLists <- FewCubeLists
  Queries <- FewQueries
  PointArrays <- FewPointArrays
  Targets <- FewTargets
  Radii = {2, 5}
  WIDTH = 9
  HEIGHT = 8
  Names = {"x", "y"}
  Values = {1, 2}
  CAP_SCOPES = 3
  CAP_LISTS = 2
  None = None
INVARIANTS Ordered Shortest WithinArrays SortedRight SearchedRight DistanceRight QueryRight FoundWithinRadius LineDrawn
PROPERTIES IsQueue FifoIsQueue IsEnvironment
CHECK_DEADLOCK FALSE
