SPECIFICATION FairPreSpec
CONSTANTS
  Sockets = {k1, k2}
  MaxSockets = 3
PROPERTY StaleIsCleanedUp
CHECK_DEADLOCK FALSE
