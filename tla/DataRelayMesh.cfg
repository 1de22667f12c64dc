SPECIFICATION FairSpec
CONSTANTS
  b1 = b1
  b2 = b2
  b3 = b3
  rates = rates
  Bridge = {b1, b2, b3}
  Peering <- Triangle
  Envelope <- Envelopes
  Topic = {rates}
  TopicOf <- Topics
  HashOf <- Hashes
  Stamp <- Stamps
  Ttl <- Ttls
  Sound <- Sounds
  MaxPerTopic = 1
  MaxSeen = 1
  MaxTtl = 1
  MaxFuture = 1
  Limit = 1
  MaxClock = 4
  Plans <- AllPlans
INVARIANTS CachesServeInterest OnlyToInterested
PROPERTY FloodEnds
CHECK_DEADLOCK FALSE
