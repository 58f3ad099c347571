SPECIFICATION Spec
CONSTANTS
  None = None
  Empty = Empty
  TooLong = TooLong
  t1 = t1
  t2 = t2
  a = a
  b = b
  cc = cc
  DefaultCountry = cc
  Tasks <- MCTasks
  Text <- MCTexts
  CountryCodes <- MCCountryCodes
  N = 2
  Env <- NoEnv
  Calls <- NetworkCalls
  Preemptive = FALSE
  WritesMayFail = TRUE
  ReadsMayFail = FALSE
  PowerMayFail = FALSE
SYMMETRY TaskSymmetry
INVARIANT NetworksSynced
