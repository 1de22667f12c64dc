SPECIFICATION FairSpec
CONSTANTS
  Peer = {p1}
  UptimeWindow = 5
  LatencyWindow = 1
  AccuracyWindow = 2
  Unit = 60
  StakePoints <- Points
  SevenDays = 28
  HeadersBatch = 2
  Grace = 1
  Inactive = 2
  MaxStakes = 1
  MaxDuplicates = 1
  MaxClosing = 1
INVARIANTS ReputationConsistent NoLowScoreConnected
PROPERTY OnlineAgain
CHECK_DEADLOCK FALSE
