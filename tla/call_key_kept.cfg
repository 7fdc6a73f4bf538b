CONSTANTS
  Users = {a, b}
  Sessions = {s1}
  Procs = {p1}
  MaxConnects = 1
  Faults = {}
  CallTypes = {"CALL"}
  Endpoints = {"token"}
  None = None
SPECIFICATION NoCleanupSpec
SYMMETRY Symmetry
INVARIANT KeyWipedOnEnd
CHECK_DEADLOCK FALSE
