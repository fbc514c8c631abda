SPECIFICATION Spec
CONSTANTS
  Signo = {s1}
  Handler = {h1, h2}
  MaxCalls = 4
  MaxRaised = 1
INVARIANT DeletionRemoves
CHECK_DEADLOCK FALSE
