SPECIFICATION KernelSpec
CONSTANTS
  NPROC = 3
  NPAGES = 16
  PGSIZE = 2
  FAN = 3
  U64 = 64
  Growth <- MCGrowth
  Programs <- MCPrograms
  MaxArgs = 2
  MaxPipes = 2
  MaxCalls = 6
  c1 = c1
  c2 = c2
  k1 = k1
  k2 = k2
  CPUs = {c1, c2}
  KThreads = {k1, k2}
  w1 = w1
  w2 = w2
  r1 = r1
  r2 = r2
  NIL = NIL
  Writers = {w1, w2}
  Readers = {r1, r2}
  PIPESIZE = 2
  Word = 4
  Counts = {2}
  MaxBytes = 5
  Killable = {w1, r1, r2}
INVARIANTS
  PagesOwnedOnce
  SizeIsMapped
  CopyExact
  InOrder
  FreedUnused
  SleepsUnlessKilled
  NoInterruptWhileLocked
  InterruptsRestored
SYMMETRY Sym
CHECK_DEADLOCK FALSE
