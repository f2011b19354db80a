CONSTANTS
  Writers = {w1, w2, w3}
  NoWriter = NoWriter
SPECIFICATION Spec
INVARIANT Exclusive
CHECK_DEADLOCK FALSE
