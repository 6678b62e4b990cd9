\* Liveness: main runs two tasks, the first of which may start the second.
CONSTANTS
  Procs = {main, p1, p2}
  Root = main
  RootIsMain = TRUE
  Statuses = {1}
  UninitTids = {NULL}
  TornCount = FALSE
  NULL = NULL
SPECIFICATION LiveSpec
PROPERTIES WaitReturns ExecReturns
