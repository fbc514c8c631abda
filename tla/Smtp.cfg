SPECIFICATION Spec
CONSTANTS
  Cuts = {5}
  Chunk = 2
  MaxText = 3
  MaxCmds = 3
  MaxUntidy = 1
INVARIANTS
  TypeOK
  MessageDelivered
  InStep
\* A client may wait for ever.
CHECK_DEADLOCK FALSE
