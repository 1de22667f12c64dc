SPECIFICATION FairSpec
CONSTANTS
  lo = lo
  hi = hi
  Node = {lo, hi}
  Lower = lo
  Dials <- TwoDials
  Slots <- TwoSlots
  Plans <- AllPlans
INVARIANT MapsConsistent
PROPERTIES LinksUp ReplacedByWorking
CHECK_DEADLOCK FALSE
