\* Safety: the command line and two user programs; room for two files.
CONSTANTS
  Users = {u1, u2}
  Main = main
  Names = {a}
  LastSector = 5
  Sizes = {1}
  DirSlots = 1
  MaxInodes = 2
  MaxFiles = 1
  MaxLost = 1
  NULL = NULL
SYMMETRY Symmetry
SPECIFICATION Spec
INVARIANTS InodesExact SectorsExact DiskConsistent DeadlockOnlyAtPowerOff
CHECK_DEADLOCK FALSE
