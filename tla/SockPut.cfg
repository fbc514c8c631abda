SPECIFICATION FairSpec
CONSTANTS
  Cap = 3
  SndBuf = 2
  MaxArg = 7
  MaxBytes = 7
INVARIANTS
  TypeOK
  WireInOrder
  NothingLost
  CountsAreTold
  FlushReachesWire
PROPERTIES
  ImplementsStream
  CallsReturn
  NonblockReturns
  
\* A destroyed or terminated sockbuf takes no further step.
CHECK_DEADLOCK FALSE
