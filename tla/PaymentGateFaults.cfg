SPECIFICATION FairSpec
CONSTANTS
  r1 = r1
  r2 = r2
  r3 = r3
  t1 = t1
  t2 = t2
  plain = plain
  aware = aware
  NoRequest = NoRequest
  Request = {r1, r2, r3}
  Txid = {t1, t2}
  Route = {plain, aware}
  Aware = {aware}
  Naming <- Namings
  RouteOf <- Mixed
  Price <- Prices
  Paid <- Varied
  MaxGate = 1
  MaxConcurrent = 1
  MaxCrashes = 1
  MaxReadErrors = 1
  MaxStuckClaims = 1
INVARIANTS ClaimsConsistent PaidInFull PaymentUsedOnce
PROPERTIES LedgerSpec EverythingResolves
CHECK_DEADLOCK FALSE
