SPECIFICATION Spec
CONSTANTS
  MaxCalls = 4
INVARIANTS AlwaysCleanup
CHECK_DEADLOCK FALSE
