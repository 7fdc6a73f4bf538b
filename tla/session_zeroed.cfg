SPECIFICATION SigSpec
CONSTANTS
  Alice = alice
  Bob = bob
  MaxPrevious = 5
  Bundles = {2}
  MaxTurns = 5
INVARIANT KeptForStragglers
CHECK_DEADLOCK FALSE
