\* The collector on halves of a few words, two locals and one literal.
SPECIFICATION Spec
CONSTANTS
  CAP_MEMORY = 5
  CAP_STACK = 2
  Locals = {a, b}
  Sizes = {1, 2}
  Literals = {7}
  Nil = Nil
INVARIANTS CollectionSafe ExhaustionIsReal
PROPERTIES Precise Terminates Invisible
CHECK_DEADLOCK FALSE
