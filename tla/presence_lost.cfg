SPECIFICATION PreSpec
CONSTANTS
  Sockets = {k1, k2}
  MaxSockets = 3
INVARIANT ConnectedIsPresent
CHECK_DEADLOCK FALSE
