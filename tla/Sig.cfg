SPECIFICATION Spec
CONSTANTS
  Signo = {s1, s2}
  Handler = {h1, h2}
  MaxCalls = 4
  MaxRaised = 2
INVARIANTS
  TypeOK
  RegisteredIsHandled
  AllInvoked
  DeadAreUnlisted
CHECK_DEADLOCK FALSE
SYMMETRY Symmetry
