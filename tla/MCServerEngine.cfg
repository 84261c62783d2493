SPECIFICATION FairSpec
CONSTANTS
  u1 = u1
  s1 = s1
  s2 = s2
  t1 = t1
  t2 = t2
  m1 = m1
  o1 = o1
  Users <- OneUser
  Sessions <- TwoSessions
  UserOf <- SameUser
  AdminSessions = {s2}
  AdminUser = u1
  Development = TRUE
  Threads <- TwoThreads
  MaxChanges = 3
  Conns <- OneDesktop
  Orders <- OneOrder
  NoSession = noSession
  NoOrder = noOrder
  Watcher = watcher
  Statuses <- AckOrError
  Capacity = 2
  Rounds = 2
  SnapShot = TRUE
  MaxMessages = 4
  MaxCrashes = 1
  MaxEvents = 4
CHECK_DEADLOCK FALSE
INVARIANTS
  TypeOK
  HandledOnce
  SubscribedByLogin
  ReferencesFollowReports
  GrantsAgree
PROPERTIES
  ForwardedOnOwnLogin
  ForwardedOnGrounds
  Handled
  RestartKeepsDecisions
