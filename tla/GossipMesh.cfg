SPECIFICATION FairSpec
CONSTANTS
  b1 = b1
  b2 = b2
  b3 = b3
  b4 = b4
  None = None
  Bridge = {b1, b2, b3, b4}
  Peering <- Paw
  MaxAge = 2
  RefreshEvery = 4
  Plans <- AllPlans
INVARIANT DirectoriesConsistent
PROPERTY GoneExpires
CHECK_DEADLOCK FALSE
