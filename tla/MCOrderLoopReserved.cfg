SPECIFICATION Spec
CONSTANTS
  t1 = t1
  t2 = t2
  Tokens <- TwoTokens
  Refs <- TwoRefs
  NoToken = 0
  NoRef = 0
  Unchecked = {}
  FreeCancels = {1, 2}
  Faults <- BreakRestart
  Numbers = {1}
  MaxKinds = 1
  MaxRequests = 1
  MaxSubjects = 2
  MaxCancels = 1
CHECK_DEADLOCK FALSE
SYMMETRY Swap
INVARIANTS
  CheckedBeforeCounter
  LiveOrdersReserved
