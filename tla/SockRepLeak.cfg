SPECIFICATION Spec
CONSTANTS
  Buf = {b1, b2}
  MaxFd = 2
  Concurrent = FALSE
INVARIANT AreasFreed
CHECK_DEADLOCK FALSE
