SPECIFICATION AnySpec
CONSTANTS
  Sizes <- MCSizes
  Breaks = {8192}
  HeapLimit = 16384
  MayFail = FALSE
  Word = 16777216
  Cells = 1
  MaxPacks = 6
  MaxFreed = 0
INVARIANTS NeverClobbered
CHECK_DEADLOCK FALSE
