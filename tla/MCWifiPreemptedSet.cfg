SPECIFICATION Spec
CONSTANTS
  None = None
  Empty = Empty
  TooLong = TooLong
  t1 = t1
  t2 = t2
  a = a
  b = b
  cc = cc
  DefaultCountry = cc
  Tasks <- MCTasks
  Text <- MCTexts
  CountryCodes <- MCCountryCodes
  N = 1
  Env <- NoEnv
  Calls <- ScalarCalls
  Preemptive = TRUE
  WritesMayFail = FALSE
  ReadsMayFail = FALSE
  PowerMayFail = FALSE
SYMMETRY TaskSymmetry
INVARIANT ScalarsSynced
