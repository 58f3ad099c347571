SPECIFICATION Spec
CONSTANTS
  None = None
  c1 = c1
  c2 = c2
  n1 = n1
  n2 = n2
  i1 = i1
  i2 = i2
  i3 = i3
  alice = alice
  bob = bob
  secret = secret
  Clients <- MCClients
  Nonces <- MCNonces
  NonceSlots = 2
  Lifetime = 1
  Ids <- MCIds
  Capacity = 2
  Window = 1
  Names <- MCNames
  Passwords <- MCPasswords
  StoredNames <- MCNames
  StoredPasswords <- MCPasswords
  Submitted <- MCSubmitted
  OtherParts <- MCOtherParts
  DropCookies = TRUE
  MaxIssued = 1
  MaxTime = 2
SYMMETRY MCSymmetry
VIEW MCView
INVARIANT ActiveStaysLoggedIn
