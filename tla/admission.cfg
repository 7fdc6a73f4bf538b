CONSTANTS
  Users <- MCUsers
  Locks <- MCLocks
  Hash <- MCHash
  Txns = {t1, t2, t3}
  MaxParties = 2
  NoTxn = NoTxn
SPECIFICATION LiveSpec
INVARIANTS
  CheckedFree
  DeadlockNeedsCollision
PROPERTIES
  AdmissionIsRing
  AdmissionSettles
CHECK_DEADLOCK FALSE
