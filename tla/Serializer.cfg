SPECIFICATION Spec
CONSTANTS
  u1 = u1
  u2 = u2
  None = None
  NilUuid = NilUuid
  BeginLaunchArgs <- BeginLaunchMC
  EndLaunchArgs <- EndLaunchMC
  BeginItemArgs <- BeginItemMC
  EndItemArgs <- EndItemMC
  Batches <- BatchesMC
  Memory = {"", "?"}
  MaxSent = 2
  Minute = 2
  Micros = 3
  Nanos = 2
  Word = 16
  Seconds <- SecondsMC
  Offset <- ZoneMC
  Instants <- InstantsMC
INVARIANTS RequestTellsCall MembersReadBack TimeKept CheckedInOrder
CHECK_DEADLOCK FALSE
