SPECIFICATION Spec
CONSTANTS
  Accounts = {"a"}
  Tickers = {"t"}
  Tokens = {1}
  OrderRefs = {"none"}
  NoRef = "none"
  OrderRequests <- QueueRequests
  ActionRequests = {}
  OrderStatuses = {}
  FundSnapshots = {}
  PositionSnapshots = {}
  LockSettings = {}
  LimitSettings = {}
  InitLimits <- SmallLimits
  NameWithin <- Identity
  TokenTicker <- QueueTokenTicker
  RefTicker <- LimitsRefTicker
  DBResults = {TRUE}
  ResponseCap = 4
  MaxFlow = 10
  MaxTickerCancels = 1
  MaxOrderCancels = 0
INVARIANTS NeverBlocked
