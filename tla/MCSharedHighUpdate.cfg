SPECIFICATION Spec
CONSTANTS
  None = None
  Garbage = Garbage
  t1 = t1
  t2 = t2
  u1 = u1
  u2 = u2
  wifi = wifi
  app = app
  k1 = k1
  k2 = k2
  v1 = v1
  Tasks = {t1, t2}
  Stores = {wifi, app}
  Keys = {k1, k2}
  Vals = {v1}
  Uploaders = {u1}
  Chunks = 1
  Truncated = FALSE
  Layouts <- HighUpdates
  MaxCalls = 2
INVARIANT NoPanic
