SPECIFICATION Spec
CONSTANTS
  p1 = p1
  p2 = p2
  NIL = NIL
  Procs = {p1, p2}
  Readers = {p1, p2}
  Home = {11, 12}
  Blocks = {0, 1, 2, 11, 12}
  NBUF = 4
  MAXOPBLOCKS = 1
  LOGSIZE = 2
  NLog = 3
  OpBlocks = 1
  OpWrites = 1
  MaxOps = 3
  MaxCrash = 1
INVARIANTS BufferCache DurableWhenQuiet LogFits
PROPERTIES AtomicTransactions
SYMMETRY Sym
