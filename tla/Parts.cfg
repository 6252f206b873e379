SPECIFICATION PartsSpec
CONSTANTS
  Parts = {"log", "memory", "console", "parser", "scheduling", "image"}
  Procs = {p1, p2}
  Blocks = {b1, b2, b3}
  Data = {0, 1}
  Empty = 0
  LogSize = 4
  DiskLogSize = 4
  MaxOpBlocks = 2
  OpBlocks = 1
  MemProcs = {1, 2}
  Frames = {1, 2, 3, 4, 5, 6, 7, 8, 9, 10, 11, 12}
  PGSIZE = 2
  KERNBASE = 8
  NPTE = 2
  Increments <- MCIncrements
  Segments = {0, 1, 8}
  ConsReaders = {r1, r2}
  NoReader = NoReader
  INPUT_BUF = 2
  IndexMod = 4
  ReadCounts = {2}
  Columns = 2
  Rows = 3
  Words = {"a", "f"}
  MAXARGS = 3
  NJobs = 3
  MaxArrival = 3
  MaxDuration = 3
  NBlocks = 4
  NInodes = 2
  FileNames = {"a", "b", "c"}
  LongNames = {"c"}
  Sizes = {1, 2}
  Values = {1, 2}
INVARIANTS
  LogFits
  CommitAlone
  PagesOwned
  SizeMapped
  ReadersWoken
  CursorOnScreen
  ParsesBack
  SchedulesRight
  ImageSound
PROPERTIES
  CrashAtomic
  SleepersWoken
  IsTerminal
