SPECIFICATION Spec
CONSTANTS
  None = None
  s1 = s1
  s2 = s2
  s3 = s3
  alice = alice
  Ids <- MCIds
  Data <- MCData
  Expiries <- BothExpiries
  N = 2
  Reuse = FALSE
  MaxDelay = 1
  MaxTime = 3
INVARIANT TypeOK
INVARIANT ClosedStaysClosed
PROPERTY EvictsExpiredFirst
PROPERTY ImplementsMap
