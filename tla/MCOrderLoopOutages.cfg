SPECIFICATION FairSpec
CONSTANTS
  t1 = t1
  t2 = t2
  Tokens <- OneToken
  Refs <- OneRef
  NoToken = 0
  NoRef = 0
  Unchecked = {}
  FreeCancels = {}
  Faults <- Outages
  Numbers = {1}
  MaxKinds = 2
  MaxRequests = 1
  MaxSubjects = 2
  MaxCancels = 0
CHECK_DEADLOCK FALSE
PROPERTIES
  EndedIsFreed
