SPECIFICATION ServicesSpec
CONSTANTS
  Tips = {1, 2}
  Purchases = {p1, p2}
  Instances = {w1, w2}
  CoinAmount = 2
  GiftCost = 1
  GiftDiamonds = 1
  TipDiamonds = 1
  MaxOpen = 2
  MaxAdverse = 1
  MaxRows = 1
  MaxGifts = 1
  MaxFaults = 1
  o1 = o1
  o2 = o2
  Orders = {o1, o2}
  Requests = {r1, r2}
  Quantity <- MCQuantity
  InitialStock = 2
  MaxSellerRequests = 2
  MaxRedeliveries = 1
  Users = {a, b}
  Private = {b}
  Workers = {w1, w2}
  MaxRequests = 4
  Subs = {s1, s2}
  MaxChanges = 1
  MaxMemberCalls = 1
  Sockets = {k1, k2, k3}
  MaxSockets = 1
  Msgs = {m1, m2}
  Runs = {q1, q2}
  MAX_RETRY_COUNT = 1
  MaxKills = 1
  Items = {i1, i2}
  Passes = {c1, c2}
  TakeLimit = 1
  MaxOwner = 1
  MaxDeaths = 1
  MaxOverruns = 1
  Contacts = {f1}
  Threshold = 1
  MaxBatches = 2
  MaxEvents = 1
  Alice = alice
  Bob = bob
  MaxPrevious = 2
  Bundles = {0, 1, 4}
  MaxTurns = 4
CONSTRAINT ServicesBound
INVARIANTS
  ServicesTypeOK
  CoinsCreditedOnce CoinLedgerCovers DiamondLedgerBacked DiamondsPaidFor
  UnitsNeverLeak ShippedWasCharged
  DriftNeedsOverlap
  StoredOnce QueuedIsKept
  AnnouncedOnce FirstContactAnswerable
  DecryptsOnce ReadableWithSession OneStarterReadsAll
CHECK_DEADLOCK FALSE
