SPECIFICATION FairSpec
CONSTANTS
  Cap = 2
  MaxArg = 4
  MaxBytes = 4
  MaxUngot = 1
INVARIANTS
  TypeOK
  CharsInOrder
  GetConserved
  EndMeansEnd
PROPERTIES
  ImplementsInput
  MarkSignalled
  CallsReturn
  TimedCallsReturn
