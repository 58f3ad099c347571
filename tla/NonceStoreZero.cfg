SPECIFICATION Spec
CONSTANTS
  None = None
  Nonces = {0, 1, 2}
  N = 2
  Lifetime = 2
  MaxIssued = 4
  MaxAccepted = 5
  MaxTime = 3
INVARIANT OnlyIssuedAccepted
