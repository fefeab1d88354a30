CONSTANTS
  Procs = {p1, p2}
  NIL = NIL
  NInodes = 3
  NBlocks = 7
  BSIZE = 2
  NDIRECT = 2
  NINODE = 3
  NFILE = 2
  NOFILE = 1
  NDEV = 1
  MAXOPBLOCKS = 6
  MaxActive = 2
  Scenes = {"data", "names", "dirs", "cwd"}
  Short = {"data", "names", "dirs"}
  MaxCalls = 4
  MaxCrash = 1
SPECIFICATION Spec
SYMMETRY Symmetry
INVARIANTS
  DurableConsistent
  FilesHoldTheirData
  InCoreIsCurrent
  OpFitsLog
  NoPanic
  NothingLeaks
  SomebodyMoves
