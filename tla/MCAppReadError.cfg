SPECIFICATION Spec
CONSTANTS
  None = None
  t1 = t1
  t2 = t2
  admin = admin
  user = user
  secret = secret
  empty = empty
  Tasks <- MCTasks
  Fields <- MCFields
  Order <- MCOrder
  Key <- MCKey
  Default <- MCDefault
  Requests <- MCRequests
  Zero = empty
  Preemptive = FALSE
  WritesMayFail = TRUE
  ReadsMayFail = TRUE
PROPERTY DefaultsFillGaps
