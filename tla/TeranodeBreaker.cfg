SPECIFICATION FairSpec
CONSTANTS
  Run = {1, 2}
  TripReconnects = 2
  BackoffBase = 1
  BackoffMax = 4
  MaxRestarts = 5
  Left <- Troubles
INVARIANTS WatchdogConsistent OneListener
PROPERTY FeedReturns
CHECK_DEADLOCK FALSE
