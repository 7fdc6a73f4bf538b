SPECIFICATION FairServicesSpec
CONSTANTS
  Tips = {}
  Purchases = {p1}
  Instances = {w1, w2}
  CoinAmount = 2
  GiftCost = 1
  GiftDiamonds = 1
  TipDiamonds = 1
  MaxOpen = 1
  MaxAdverse = 0
  MaxRows = 1
  MaxGifts = 0
  MaxFaults = 1
  o1 = o1
  o2 = o2
  Orders = {o1, o2}
  Requests = {}
  Quantity <- MCQuantity
  InitialStock = 0
  MaxSellerRequests = 0
  MaxRedeliveries = 0
  Users = {a, b}
  Private = {b}
  Workers = {w1, w2}
  MaxRequests = 3
  Subs = {s1, s2}
  MaxChanges = 2
  MaxMemberCalls = 0
  Sockets = {k1, k2}
  MaxSockets = 1
  Msgs = {m1}
  Runs = {q1, q2}
  MAX_RETRY_COUNT = 2
  MaxKills = 1
  Items = {i1, i2}
  Passes = {c1, c2}
  TakeLimit = 1
  MaxOwner = 0
  MaxDeaths = 1
  MaxOverruns = 1
  Contacts = {}
  Threshold = 1
  MaxBatches = 1
  MaxEvents = 1
  Alice = alice
  Bob = bob
  MaxPrevious = 2
  Bundles = {0}
  MaxTurns = 0
PROPERTIES
  ChargedIsCredited FollowersRepaired MembershipEnds GhostsExpire QueuedIsSettled DueIsPublished BundlesVerifyAgain
CHECK_DEADLOCK FALSE
