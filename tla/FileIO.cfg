\* Safety: a file of one and a half sectors.
CONSTANTS
  Threads = {t1, t2, t3}
  DISK_SECTOR_SIZE = 2
  Length = 3
  Requests <- SampleRequests
  Values = {1, 2}
  NULL = NULL
SPECIFICATION Spec
SYMMETRY Symmetry
INVARIANTS Consistent ReadSnapshot WriteIntact TransferExact
