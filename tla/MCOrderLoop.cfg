SPECIFICATION Spec
CONSTANTS
  t1 = t1
  t2 = t2
  Tokens <- OneToken
  Refs <- TwoRefs
  NoToken = 0
  NoRef = 0
  Unchecked = {t1}
  FreeCancels = {}
  Faults <- Restarts
  Numbers = {1}
  MaxKinds = 2
  MaxRequests = 2
  MaxSubjects = 2
  MaxCancels = 0
CHECK_DEADLOCK FALSE
INVARIANTS
  TypeOK
  OnceAtCounter
