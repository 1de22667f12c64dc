SPECIFICATION FairSpec
CONSTANTS
  b1 = b1
  b2 = b2
  b3 = b3
  b4 = b4
  t1 = t1
  t2 = t2
  Bridge = {b1, b2, b3, b4}
  Tx = {t1, t2}
  Peering <- Row
  Selective = {b3, b4}
  MaxMempool = 2
  MaxSeen = 2
  MaxTxOrigins = 2
  MaxRequested = 2
  Clients <- ThreeWrite
  Observed <- MidObserve
  MaxDrops = 0
INVARIANT OneFetchPerTx
PROPERTIES RelayedReachesClassic WritesReachAll
CHECK_DEADLOCK FALSE
