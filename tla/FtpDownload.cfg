SPECIFICATION FairSpec
CONSTANTS
  Cuts = {3, 5}
  Byte = 2
  Reserved = {1}
  First = 2
  MaxCmds = 2
  MaxUntidy = 1
PROPERTIES
  DownloadReturns
\* A terminated client takes no further step.
CHECK_DEADLOCK FALSE
