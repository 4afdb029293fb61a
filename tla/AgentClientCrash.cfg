SPECIFICATION Spec
CONSTANTS
  MaxRetries = 1
  K = 2
  Listed = {0, 2, 3}
  Usage = {1}
INVARIANT NeverACrash
CHECK_DEADLOCK FALSE
