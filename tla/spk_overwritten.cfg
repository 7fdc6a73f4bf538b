SPECIFICATION PkSpec
CONSTANTS
  Contacts = {f1}
  Threshold = 1
  MaxBatches = 51
  MaxEvents = 0
INVARIANT OldSpkKept
CHECK_DEADLOCK FALSE
