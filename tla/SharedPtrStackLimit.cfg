CONSTANTS
  Threads = {t1, t2}
  Blocks = {n1, n2, n3}
  Null = Null
  Limit = 1
  MaxStamp = 3
SPECIFICATION Spec
PROPERTY ImplementsStack
CHECK_DEADLOCK FALSE
