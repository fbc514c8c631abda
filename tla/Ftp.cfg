SPECIFICATION FairSpec
CONSTANTS
  Cuts = {3, 5}
  Byte = 2
  Reserved = {1}
  First = 2
  MaxCmds = 4
  MaxUntidy = 1
INVARIANTS
  TypeOK
  InStep
  DataReachesUs
PROPERTIES
  CommandsReturn
\* A terminated client takes no further step.
CHECK_DEADLOCK FALSE
