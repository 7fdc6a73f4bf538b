SPECIFICATION PkSpec
CONSTANTS
  Contacts = {}
  Threshold = 1
  MaxBatches = 51
  MaxEvents = 0
INVARIANT OfferedOtpsKept
CHECK_DEADLOCK FALSE
