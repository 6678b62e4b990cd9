\* Counterexample: an increment of alive_count lost in a decrement; main runs two tasks.
CONSTANTS
  Procs = {main, p1, p2}
  Root = main
  RootIsMain = TRUE
  Statuses = {1}
  UninitTids = {NULL}
  TornCount = TRUE
  NULL = NULL
SPECIFICATION Spec
INVARIANTS RelationAlive
