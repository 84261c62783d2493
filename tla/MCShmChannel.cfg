SPECIFICATION FairSpec
CONSTANTS
  c1 = c1
  c2 = c2
  NoClient = none
  Clients <- TwoClients
  NumChannels = 2
  RingCap = 2
  QueueCap = 1
  InitData <- Funds
  Interval = 1
  Margin = 1
  MaxStarts <- OneRestart
  MaxAsks = 2
  MaxRestarts = 1
INVARIANTS
  TypeOK
  OneClientPerChannel
  AnswersReachAsker
  LiveStaysConnected
  RequestsKeepType
PROPERTIES
  Answered
