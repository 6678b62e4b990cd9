\* Safety: a process and its children or grandchildren, any uninitialised awaited_tid,
\* increments of alive_count that are lost.  A parent whose relation is freed under it
\* may wait for ever: the system may stop.
CONSTANTS
  Procs = {root, p1, p2}
  Root = root
  RootIsMain = FALSE
  Statuses = {1}
  UninitTids = {NULL, p1, p2}
  TornCount = TRUE
  NULL = NULL
SYMMETRY Symmetry
SPECIFICATION Spec
CHECK_DEADLOCK FALSE
INVARIANTS RelationKept AliveCountExact ReturnListExact WaitersExact StartHandshake
