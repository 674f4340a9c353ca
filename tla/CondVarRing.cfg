\* A waiter is a whole ring late with its store(0): the ring of 100 is cut to 2.
CONSTANTS
  Waiters = {w1, w2}
  Notifiers = {n1}
  Size = 2
  MaxTickets = 3
  Nobody = Nobody
SPECIFICATION FairSpec
PROPERTY NotifiedReturns
CHECK_DEADLOCK FALSE
