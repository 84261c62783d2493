SPECIFICATION Spec
CONSTANTS
  Accounts = {"a"}
  Tickers = {"t"}
  Tokens = {1, 2}
  OrderRefs = {"none", "r1"}
  NoRef = "none"
  OrderRequests <- LimitsRequests
  ActionRequests <- LimitsActions
  OrderStatuses <- LimitsStatuses
  FundSnapshots <- OneFund
  PositionSnapshots = {1}
  LockSettings <- LimitsLocks
  LimitSettings <- NewLimits
  InitLimits <- SmallLimits
  NameWithin <- Identity
  TokenTicker <- LimitsTokenTicker
  RefTicker <- LimitsRefTicker
  DBResults = {TRUE, FALSE}
  ResponseCap = 2
  MaxFlow = 2
  MaxTickerCancels = 2
  MaxOrderCancels = 2
INVARIANTS CancelCountsOfPending
PROPERTIES CancelCountsDurable LockedAdmitsNothing
