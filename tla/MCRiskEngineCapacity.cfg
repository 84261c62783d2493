SPECIFICATION Spec
CONSTANTS
  Accounts = {"a"}
  Tickers = {"t", "u"}
  Tokens = {1, 2, 3}
  OrderRefs = {"none", "r1", "r2", "r3"}
  NoRef = "none"
  OrderRequests <- CapacityRequests
  ActionRequests = {}
  OrderStatuses <- CapacityStatuses
  FundSnapshots = {2, 4}
  PositionSnapshots = {2}
  LockSettings = {}
  LimitSettings = {}
  InitLimits <- SmallLimits
  NameWithin <- Identity
  TokenTicker <- CapacityTokenTicker
  RefTicker <- CapacityRefTicker
  DBResults = {TRUE}
  ResponseCap = 2
  MaxFlow = 3
  MaxTickerCancels = 1
  MaxOrderCancels = 0
INVARIANTS TypeOK ReservationsAccounted PendingAgree
PROPERTIES ImplementsLedger
