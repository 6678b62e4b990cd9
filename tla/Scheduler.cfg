\* Safety and liveness: every interleaving of interrupts and switches.
CONSTANTS
  Threads = {main, idle, t1, t2}
  Main = main
  Idle = idle
  NULL = NULL
  Semas = {idle_started, s1}
  IdleStarted = idle_started
  TIME_SLICE = 1
  MaxTicks = 2
  MaxValue = 2
SPECIFICATION LiveSpec
INVARIANTS QueuesExact AlarmNotEarly NoLostWakeup
PROPERTIES TickWakesAllDue ThreadsProgress
