SPECIFICATION Spec
CONSTANTS
  b1 = b1
  b2 = b2
  b3 = b3
  b4 = b4
  t1 = t1
  t2 = t2
  Bridge = {b1, b2, b3}
  Tx = {t1, t2}
  Peering <- Triangle
  Selective = {b3}
  MaxMempool = 1
  MaxSeen = 1
  MaxTxOrigins = 1
  MaxRequested = 1
  Clients <- OneWrite
  Observed <- TwoObserve
  MaxDrops = 1
INVARIANTS TypeOK ChatterNeverUpgraded SelectiveHoldsNoChatter
CHECK_DEADLOCK FALSE
