SPECIFICATION ProgressSpec
CONSTANTS
  Parts = {"disk", "input", "output", "clock", "log"}
  DiskUsers = {1, 2, 3}
  Writers = {1, 2}
  NUM = 7
  WRAP = 14
  MaxRequests = 4
  MaxKills = 1
  ConsoleUsers = {1, 2}
  Faulty = {2}
  INPUT_BUF_SIZE = 3
  UINT = 6
  ReadSizes = {1, 3}
  MaxTyped = 4
  MaxReads = 3
  TtyWriters = {"w1", "w2"}
  Echoers = {1}
  UART_TX_BUF_SIZE = 2
  FifoDepth = 2
  MaxPuts = 5
  MaxEchoes = 2
  MaxWakes = 1
  Sleepers = {1, 2}
  TICKMOD = 6
  Naps = {0, 1, 3}
  MaxLag = 2
  p1 = p1
  p2 = p2
  NIL = NIL
  Procs = {p1, p2}
  Readers = {}
  Home = {11, 12}
  Blocks = {0, 1, 2, 11, 12}
  NBUF = 3
  MAXOPBLOCKS = 2
  LOGSIZE = 2
  NLog = 3
  OpBlocks = 2
  OpWrites = 2
  MaxOps = 2
  MaxCrash = 2
INVARIANTS
  ChainsDisjoint
  RequestDone
  OutputInOrder
PROPERTIES
  SleepsExactly
  ImplementsTerminal
  AtomicTransactions
  SleepersAnswered
CHECK_DEADLOCK FALSE
