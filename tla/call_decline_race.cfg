CONSTANTS
  Users = {a, b, c}
  Sessions = {s1}
  Procs = {p1, p2}
  MaxConnects = 1
  Faults = {}
  CallTypes = {"CALL"}
  Endpoints = {"leave"}
  None = None
SPECIFICATION NoCleanupSpec
SYMMETRY Symmetry
INVARIANT DeclinedByAllEnds
CHECK_DEADLOCK FALSE
