CONSTANTS
  Threads = {1, 2, 3}
  Main = 3
  Out = 4
  Pair = 5
  Futures = {1, 2, 4}
  Values = {1, 2, 5}
  Nothing = 0
SPECIFICATION Spec
INVARIANT CallbackOnce
