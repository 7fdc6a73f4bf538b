CONSTANTS
  Users = {a, b}
  Sessions = {s1}
  Procs = {p1, p2}
  MaxConnects = 1
  Faults = {}
  CallTypes = {"CALL"}
  Endpoints = {"leave"}
  None = None
SPECIFICATION Spec
SYMMETRY Symmetry
PROPERTY TerminalIsFinal
CHECK_DEADLOCK FALSE
