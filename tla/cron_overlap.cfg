SPECIFICATION PubSpec
CONSTANTS
  Items = {i1, i2}
  Passes = {c1, c2}
  TakeLimit = 100
  MaxOwner = 1
  MaxDeaths = 0
  MaxOverruns = 1
INVARIANT NoItemInTwoPasses
CHECK_DEADLOCK FALSE
