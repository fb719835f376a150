\* One parent and one child, as in the program: nothing to bound.
SPECIFICATION Spec
INVARIANTS TrylockBusy
CHECK_DEADLOCK FALSE
