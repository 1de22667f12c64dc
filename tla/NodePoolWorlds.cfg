SPECIFICATION FairNodePoolSpec
CONSTANTS
  h1 = h1
  h2 = h2
  h3 = h3
  Host = {h1, h2, h3}
  Slot = {1, 2}
  Call = {1, 2, 3}
  Plan <- AllPlans
  MaxPeers = 2
  MaxCooldown = 8
  Batch = 2
INVARIANT PoolTypeOK
PROPERTIES PoolFills SyncsToTip EveryCallSettles
CHECK_DEADLOCK FALSE
