SPECIFICATION ProgramsSpec
CONSTANTS
  Programs = {"shell", "buffer"}
  Words = {"a", "f"}
  MAXARGS = 3
  ShProcs = {1, 2, 3, 4}
  NFILE = 4
  NOFILE = 6
  NPipes = 1
  Commands <- MCCommands
  Lines <- MCLines
  Filters = {"f"}
  p1 = p1
  p2 = p2
  c1 = c1
  c2 = c2
  None = None
  Producers = {p1, p2}
  Consumers = {c1, c2}
  Threads = {p1, p2, c1, c2}
  buffer_size = 2
  item_size = 3
  Data = {1, 2, 3}
INVARIANTS
  FilesExact
  NoSignalMissed
  Accounted
PROPERTIES
  PipelinesEnd
  IsQueue
  ItemsConsumed
CHECK_DEADLOCK FALSE
