SPECIFICATION FairSpec
CONSTANTS
  MaxCalls = 5
INVARIANTS TypeOK Authorised
PROPERTIES OneStep CallEnds
CHECK_DEADLOCK FALSE
