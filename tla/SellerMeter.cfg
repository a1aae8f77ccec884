SPECIFICATION FairSpec
CONSTANTS
  Requests = {r1, r2}
  TICK = 2
  FundedTicks = 2
  TokensPerWeek = 2
  SubWeeks = 2
  Shapes = {TRUE, FALSE}
  Allowance = 2
  ConcurrencyLimit = 2
  Grants = {2}
  Usages = {1, 3}
  MaxCrashes = 1
  MaxFaults = 1
  MaxRequests = 3
INVARIANTS
  ClaimsBacked
  RestartReconciles
  NoRequestOutlivesPurchase
PROPERTIES
  BilledIsClaimed
CHECK_DEADLOCK FALSE
