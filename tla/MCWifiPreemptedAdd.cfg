SPECIFICATION Spec
CONSTANTS
  None = None
  Empty = Empty
  TooLong = TooLong
  t1 = t1
  t2 = t2
  a = a
  b = b
  cc = cc
  DefaultCountry = cc
  Tasks <- MCTasks
  Text <- MCTexts
  CountryCodes <- MCCountryCodes
  N = 3
  Env <- NoEnv
  Calls <- NetworkCalls
  Preemptive = TRUE
  WritesMayFail = FALSE
  ReadsMayFail = FALSE
  PowerMayFail = FALSE
SYMMETRY TaskSymmetry
PROPERTY ConnectNamesNewest
