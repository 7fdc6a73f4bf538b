SPECIFICATION PreSpec
CONSTANTS
  Sockets = {k1, k2, k3, k4}
  MaxSockets = 3
INVARIANT PresenceWithinLimit
CHECK_DEADLOCK FALSE
