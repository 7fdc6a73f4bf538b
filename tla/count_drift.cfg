SPECIFICATION FairFolSpec
CONSTANTS
  Users = {a, b}
  Private = {}
  Workers = {w1, w2}
  MaxRequests = 4
PROPERTIES FollowingRepaired
CHECK_DEADLOCK FALSE
