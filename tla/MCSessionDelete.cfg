SPECIFICATION Spec
CONSTANTS
  None = None
  s1 = s1
  s2 = s2
  s3 = s3
  alice = alice
  Ids <- MCIds
  Data <- MCData
  Expiries <- LoginExpiry
  N = 2
  Reuse = TRUE
  MaxDelay = 0
  MaxTime = 2
INVARIANT ClosedStaysClosed
