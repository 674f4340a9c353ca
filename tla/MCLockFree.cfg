CONSTANTS
  Threads = {t1, t2, t3}
  Nodes = {n1, n2, n3}
  Pair = {v1, v2}
  Owner = Owner
  Sentinel = Sentinel
  Null = Null
SPECIFICATION Spec
INVARIANTS NoUseAfterFree NoLeak
PROPERTIES
  ImplementsStack ImplementsQueue ImplementsStealing ImplementsSharedStack
SYMMETRY Symmetry
