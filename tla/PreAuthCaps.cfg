SPECIFICATION FairServerSpec
CONSTANTS
  w1 = w1
  w2 = w2
  w3 = w3
  w4 = w4
  home = home
  north = north
  south = south
  Ws = {w1, w2, w3, w4}
  Ip = {home, north, south}
  Remote <- Crowd
  MaxPreAuthPerIp = 1
  MaxPreAuthTotal = 2
INVARIANT CapsHold
PROPERTIES PoolSpec SlotsReturn
CHECK_DEADLOCK FALSE
