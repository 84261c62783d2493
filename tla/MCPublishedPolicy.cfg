SPECIFICATION FairSpec
CONSTANTS
  empty = empty
  unparsable = unparsable
  good = good
  r1 = r1
  r2 = r2
  MaxVersion = 3
  Requests <- TwoRequests
  Contents <- AllContents
  Empty = empty
  Valid <- ValidOnes
  Parsable <- ParsedOnes
  NoPolicy = none
INVARIANTS
  TypeOK
  AtMostOnePublished
  NoDraftInForce
PROPERTIES
  NeverBackToDraft
  RetiredByNewer
  PolicyFollows
