SPECIFICATION FairSpec
CONSTANT N = 2
INVARIANTS
  TypeOK
  ListSound
  NoneOutlives
  StrayOnlyIf
  
PROPERTIES
  
  ExitReturns
  Reaped
\* A process that is gone takes no further step.
CHECK_DEADLOCK FALSE
