SPECIFICATION KeeperSpec
CONSTANTS
  Buyers = {b1}
  Seller = seller
  NoBuyer = nobody
  P = 20
  MaxTicks = 4
  TICK_SIZE = 1
  BPS_DENOMINATOR = 100
  PLATFORM_FEE_BPS = 25
  REBATE_SLOPE_BPS = 10
  REBATE_MAX_BPS = 20
  PROBE_WINDOW = 1
  DISPUTE_WINDOW = 1
  MATCH_OPEN_TIMEOUT = 2
  MIN_SECONDS_PER_TICK = 2
  SUB_WEEK_LEN = 3
  SUB_WEEKS = 2
  Shapes = {TRUE}
  FillTicks = {4}
  BondPayments = {}
  Withdrawals = {}
  MaxFills = 1
  MaxTime = 10
  Skews <- Clocks
  NoSnapshot = NoSnapshot
  MaxRestarts = 1
INVARIANTS
  DoneMeansClosed
PROPERTIES
  NoFalseAlarm
  KeeperCloses
