CONSTANTS
  Callers = {t1, t2, t3, t4}
  Drawers = {t1, t2, t3}
  MaxDraws = 5
SPECIFICATION FairSpec
INVARIANTS TypeOK NoLostWakeup
PROPERTIES
  RefusedOnlyWhenBusy InTicketOrder MutexIsLock TicketLockIsLock MutexProgress TicketLockoutFree
CHECK_DEADLOCK FALSE
