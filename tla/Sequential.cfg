\* One component at a time: containers, allocators, drivers, the C library,
\* page tables, the loader and the system calls on descriptors.
CONSTANTS
  ListElems = {"e1", "e2", "e3", "e4"}
  Key <- MCKey
  Keys = {1, 2, 3, 4}
  Payloads = {"x", "y"}
  MIN_BUCKETS = 2
  BEST_ELEMS_PER_BUCKET = 1
  ELEM_BITS = 2
  BitmapSizes = {0, 3, 4}
  PGSIZE = 16
  ArenaSize = 6
  MinBlock = 3
  BitmapBytes = 8
  SizeWrap = 128
  FreePages = {7}
  PageLimits = {1, 3}
  Sizes = {0, 2, 6, 11, 26}
  MaxLive = 3
  COL_CNT = 3
  ROW_CNT = 2
  TabStop = 2
  MaxRows = 4
  Chars_ = {1, 2, 3}
  MemSize = 5
  Half = 4
  SBoxSize = 4
  Seeds <- MCSeeds
  MaxString = 3
  MaxArray = 5
  MaxBytes = 3
  FmtValues = {0, 7, 12, 1234, 4090, 74565}
  FmtWidths <- MCWidths
  FmtPrecisions <- MCPrecisions
  FmtStrings <- MCStrings
  PerLine = 4
  MaxDump = 7
  DirSize = 2
  TableSize = 2
  Frames = {"f1", "f2", "f3"}
  PdPages = {0, 2}
  PdFrames = {"f1", "f2"}
  KernelPages = {0, 1, 2, 3}
  PageSize = 4
  AddrWrap = 32
  FileLen = 9
  Executables <- MCExecutables
  UserFrames <- MCUserFrames
  SectorSize = 2
  ArgBytes = 3
  MaxBuffers = 5
  HeapPages = {0, 1}
  LineLen = 6
  LEN_FILE_LIST = 2
  FileData <- MCFileData
  MaxPos = 1
  BufSizes = {0, 2}
  MaxLost = 1
SPECIFICATION Spec
INVARIANTS ContainersExact MemoryExact TypedAndShown LibrariesExact FormatExact PageTablesExact LoadExact DescriptorsExact
CHECK_DEADLOCK FALSE
