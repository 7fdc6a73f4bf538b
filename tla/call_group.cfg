CONSTANTS
  Users = {a, b, c}
  Sessions = {s1, s2}
  Procs = {p1, p2}
  MaxConnects = 1
  Faults = {}
  CallTypes = {"CALL"}
  Endpoints = {"token", "delete", "leave"}
  None = None
SPECIFICATION GroupSpec
SYMMETRY Symmetry
CONSTRAINT GroupBound
INVARIANT ExclusiveCall
PROPERTIES
  LeaveSparesOthers
  OnlyCallerEndsGroup
CHECK_DEADLOCK FALSE
