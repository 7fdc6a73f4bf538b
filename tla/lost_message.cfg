SPECIFICATION FairDlvSpec
CONSTANTS
  Msgs = {m1, m2}
  Runs = {q1}
  MAX_RETRY_COUNT = 2
  MaxKills = 0
PROPERTIES QueueKeepsUnsent
CHECK_DEADLOCK FALSE
