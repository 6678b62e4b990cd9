\* inode_reopen() of an inode that was closed in the meantime.
CONSTANTS
  Users = {u1, u2}
  Main = main
  Names = {a}
  LastSector = 5
  Sizes = {1}
  DirSlots = 1
  MaxInodes = 2
  MaxFiles = 1
  MaxLost = 1
  NULL = NULL
SYMMETRY Symmetry
SPECIFICATION Spec
INVARIANT ReopenOpen
CHECK_DEADLOCK FALSE
