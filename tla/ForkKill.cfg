SPECIFICATION Spec
CONSTANT N = 2
INVARIANT KillsFirst
CHECK_DEADLOCK FALSE
