\* Counterexample: the value wait() returns; main runs two tasks.
CONSTANTS
  Procs = {main, p1, p2}
  Root = main
  RootIsMain = TRUE
  Statuses = {1}
  UninitTids = {NULL}
  TornCount = FALSE
  NULL = NULL
SPECIFICATION Spec
INVARIANTS WaitReturnsStatus
