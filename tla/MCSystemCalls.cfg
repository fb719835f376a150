SPECIFICATION MCSpec
CONSTANTS
  ROUNDS = 4
  OPEN_MAX = 6
  Requests <- FewRequests
INVARIANTS OnlySpuriousHurts DescriptorsAccounted OwnWords
PROPERTIES SignalIsHeard
CHECK_DEADLOCK FALSE
