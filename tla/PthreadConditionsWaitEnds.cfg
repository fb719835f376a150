\* One parent and one child, as in the program: nothing to bound.
SPECIFICATION Spec
PROPERTIES WaitEnds
CHECK_DEADLOCK FALSE
