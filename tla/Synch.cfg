\* Safety, refinement and liveness: three threads, two conditions.
CONSTANTS
  Threads = {t1, t2, t3}
  Conds = {c1, c2}
  Lock = lock
  NULL = NULL
SPECIFICATION LiveSpec
CHECK_DEADLOCK FALSE
INVARIANTS LocksExact LockNotLost SignalNotLost
PROPERTIES ImplementsMonitor LockProgress SignalledReturns
