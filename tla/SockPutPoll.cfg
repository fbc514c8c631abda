SPECIFICATION FairSpec
CONSTANTS
  Cap = 2
  SndBuf = 1
  MaxArg = 2
  MaxBytes = 2
PROPERTIES PollReturns
CHECK_DEADLOCK FALSE
