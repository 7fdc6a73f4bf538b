CONSTANTS
  Users = {a, b}
  Sessions = {s1}
  Procs = {p1}
  MaxConnects = 1
  Faults = {"livekit", "redis"}
  CallTypes = {"CALL", "BROADCAST"}
  Endpoints = {"token", "delete", "leave", "kick"}
  None = None
SPECIFICATION LiveSpec
PROPERTIES
  ImplementsCallLine
  RingingEnds
  FinishedRoomEndsCall
CHECK_DEADLOCK FALSE
