SPECIFICATION MainSpec
CONSTANTS
  ServerIds = {s1, s2, s3, s4}
  ClientIds = {c0, c1, c2, c3}
  c1 = c1
  c2 = c2
  c3 = c3
  NilUuid = nil
  Statuses = {"passed"}
  Inherit = "inherit"
  MaxAborts = 1
  MaxLogs = 3
  LaunchOwnId = c0
  N = 3
  Parent <- Chain
  ItemOwnId <- OwnIds
INVARIANTS WhatMainReports NothingEndsEarly
CHECK_DEADLOCK FALSE
