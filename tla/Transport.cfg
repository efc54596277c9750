SPECIFICATION Spec
CONSTANTS
  MaxCalls = 8
INVARIANTS TypeOK LeftBehind CurlOutlivesHandles
CHECK_DEADLOCK FALSE
