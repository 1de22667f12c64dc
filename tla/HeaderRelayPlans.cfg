SPECIFICATION FairSpec
CONSTANTS
  b1 = b1
  b2 = b2
  b3 = b3
  Checkpoint = Checkpoint
  NoHeader = NoHeader
  Bridge = {b1, b2, b3}
  Dials <- Line
  Header <- Forks
  Height <- Heights
  prevHash <- ForksPrev
  Plans <- AllPlans
INVARIANT HeadersConsistent
PROPERTIES LinkedWhenAdded ChainsSynchronise TrafficEnds
CHECK_DEADLOCK FALSE
