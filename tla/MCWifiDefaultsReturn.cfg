SPECIFICATION Spec
CONSTANTS
  None = None
  Empty = Empty
  TooLong = TooLong
  t1 = t1
  t2 = t2
  a = a
  b = b
  cc = cc
  DefaultCountry = cc
  Tasks <- MCTasks
  Text <- MCTexts
  CountryCodes <- MCCountryCodes
  N = 2
  Env <- StaEnv
  Calls <- NetworkCalls
  Preemptive = FALSE
  WritesMayFail = FALSE
  ReadsMayFail = FALSE
  PowerMayFail = TRUE
SYMMETRY TaskSymmetry
PROPERTY DefaultsOnce
