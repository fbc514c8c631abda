SPECIFICATION Spec
CONSTANTS
  Buf = {b1, b2, b3}
  MaxFd = 2
  Concurrent = TRUE
INVARIANTS
  TypeOK
  SocketStaysOurs
  ClosedOnce
  
\* All sockbufs may be gone, or the program terminated.
CHECK_DEADLOCK FALSE
