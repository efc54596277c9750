SPECIFICATION Spec
CONSTANTS
  None = None
  NilUuid = NilUuid
  MovedFrom = MovedFrom
  Keys = {"k"}
  Values = {v1, v2}
  Tags = {"s", "t", "u"}
  Texts = {"", "d"}
  Reruns = {r1}
  OwnId = u1
  LaunchId = l1
  MaxEdits = 4
  MaxStarts = 2
INVARIANTS TypeOK RecordTells RerunAgrees TagsExact TagsKept
CHECK_DEADLOCK FALSE
