CONSTANTS
  Users = {a, b}
  Sessions = {s1}
  Procs = {p1, p2}
  MaxConnects = 1
  Faults = {"crash", "db", "livekit"}
  CallTypes = {"CALL"}
  Endpoints = {"token", "leave"}
  None = None
SPECIFICATION Spec
SYMMETRY Symmetry
INVARIANTS
  TypeOK
  LiveCallHasKey
  UnansweredKeyWiped
  AnsweredByTwo
  WipedCallReleased
CHECK_DEADLOCK FALSE
