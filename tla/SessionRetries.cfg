SPECIFICATION Spec
CONSTANTS
  s1 = s1
  s2 = s2
  s3 = s3
  s4 = s4
  s5 = s5
  c0 = c0
  c1 = c1
  c2 = c2
  ServerIds <- ServerIds5
  ClientIds = {c0, c1, c2}
  NilUuid = nil
  Statuses = {passed}
  Inherit = inherit
  MaxAborts = 2
  MaxLogs = 0
  LaunchOwnId = c0
  N = 2
  Parent <- Nested2
  ItemOwnId <- OwnIds2
SYMMETRY Symmetry
INVARIANTS OrphanPerAbort OrphansAreInert EndFinishes FinishedByEnd ReportedTree DistinctIdentities
PROPERTIES IdentityKept
CHECK_DEADLOCK FALSE
