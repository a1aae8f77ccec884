SPECIFICATION FairSpec
CONSTANTS
  Buyers = {b1}
  Seller = seller
  NoBuyer = nobody
  P = 20
  MaxTicks = 4
  TICK_SIZE = 2
  BPS_DENOMINATOR = 100
  PLATFORM_FEE_BPS = 25
  REBATE_SLOPE_BPS = 10
  REBATE_MAX_BPS = 20
  PROBE_WINDOW = 1
  DISPUTE_WINDOW = 1
  MATCH_OPEN_TIMEOUT = 2
  MIN_SECONDS_PER_TICK = 1
  SUB_WEEK_LEN = 2
  SUB_WEEKS = 2
  Shapes = {TRUE}
  FillTicks = {4}
  BondPayments <- ExactBond
  Withdrawals = {}
  MaxFills = 2
  MaxTime = 9
INVARIANTS
  KeeperTimingIrrelevant
  ExitsPriced
  WeeksAddUp
PROPERTIES
  EscrowNeverFrozen
