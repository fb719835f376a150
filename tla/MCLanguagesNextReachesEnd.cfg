SPECIFICATION MCSpec
CONSTANTS
  Alphabet = {"a", "b"}
  Regexes <- ShortRegexes
  Strings <- ShortStrings
  CAP_TOKENS = 16
  CAP_EXPRS = 14
  CAP_PRE_INSTS = 32
  CAP_LABELS = 16
  CAP_INSTS = 16
  CAP_STRING = 4
  CAP_THREADS = 11
  Exprs <- ShortExprs
  Inputs <- ShortInputs
  STATE_CAP = 10
  STACK_CAP = 8
  Sources <- ShortSources
  CAP_BUFFER = 32
  LIFT_CAP_EXPRS = 64
  CAP_EXPR_LISTS = 16
  LABEL = 4
  Fuel = 4
  Idents = {"x", "y", "z", "f", "g"}
  Numbers = {"1", "2"}
  Worth <- Worths
  Programs <- AllPrograms
  CAP_NODES = 52
  CAP_VARS = 8
  CAP_SCOPES = 8
  STACK = 60
  Expressions <- ShortInfixes
  POSTFIX_STACK = 2
INVARIANTS NextReachesEnd
CHECK_DEADLOCK FALSE
