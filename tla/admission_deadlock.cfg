CONSTANTS
  Users <- MCUsers
  Locks <- MCLocks
  Hash <- MCHash
  Txns = {t1, t2}
  MaxParties = 2
  NoTxn = NoTxn
SPECIFICATION Spec
INVARIANT NoDeadlock
CHECK_DEADLOCK FALSE
