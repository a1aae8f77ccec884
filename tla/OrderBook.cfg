SPECIFICATION Spec
CONSTANTS
  d1 = d1
  d2 = d2
  d3 = d3
  Buyers = {b1, b2}
  Seller = seller
  NoNote = none
  Deals = {d2, d3}
  NoDeal = nodeal
  AskPrice <- TwoLevels
  AskTicks <- Volumes
  BuyPrices = {8}
  BuyTicks = {5}
  BuyFlags = {{}, {"FOK", "TEE"}, {"AON"}}
  SellFlags = {{"TEE"}, {"AON", "POST_ONLY"}}
  Lifetimes = {1}
  Surplus = {0}
  BPS_DENOMINATOR = 100
  PLATFORM_FEE_BPS = 25
  SUB_WEEKS = 2
  SUB_TICKS_PER_WEEK = 2
  MAX_MATCHES_PER_CALL = 1
  MAX_SCAN_PER_CALL = 1
  MAX_CANCEL_PER_CALL = 1
  MAX_PRECHECK_LEVELS = 3
  MAX_PRECHECK_SCAN = 4
  QUEUE_PLACE_LIMIT = 1
  QUEUE_CAPACITY = 2
  Awake = {d2}
  MaxRequests = 2
  MaxOffers = 2
  MaxTime = 1
SYMMETRY Symmetry
INVARIANTS
  RequestsAccounted
  NoExecutableCross
  FillsOnTerms
  LatchTracksOffer
  HandoversAccounted
  WalkAdvances
PROPERTIES
  PriceTimePriority
