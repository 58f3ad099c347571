SPECIFICATION Spec
CONSTANTS
  None = None
  Bytes = {0, 1, 2, 255}
  StartMax = 5
  Bodies <- MCBodies
  NameMax = 3
  BufMax = 36
  TypeA = 1
  TypeAny = 255
INVARIANT TypeOK
INVARIANT InBounds
PROPERTY Answers
PROPERTY Serves
