SPECIFICATION Spec
CONSTANTS
  None = None
  Garbage = Garbage
  t1 = t1
  t2 = t2
  u1 = u1
  u2 = u2
  wifi = wifi
  app = app
  k1 = k1
  k2 = k2
  v1 = v1
  Tasks = {t1, t2}
  Stores = {wifi, app}
  Keys = {k1, k2}
  Vals = {v1}
  Uploaders = {}
  Chunks = 1
  Truncated = FALSE
  Layouts <- TwoLevels
  MaxCalls = 2
PROPERTY StoresAreAtomic
