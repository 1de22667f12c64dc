SPECIFICATION FairWalletSpec
CONSTANTS
  f = f
  g = g
  s = s
  x = x
  Tx = {f, g, s, x}
  Plan <- AllPlans
INVARIANTS CoinsConsistent NoFalseFailure
PROPERTIES OnlySpentMarked EverythingEnds
CHECK_DEADLOCK FALSE
