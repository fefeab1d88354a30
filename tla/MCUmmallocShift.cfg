SPECIFICATION ScriptSpec
CONSTANTS
  Sizes <- MCSizes
  Breaks = {8192}
  HeapLimit = 1048576
  MayFail = FALSE
  Word = 16777216
  Cells = 1
  MaxPacks = 40
  MaxFreed = 0
INVARIANTS NeverFaults
CHECK_DEADLOCK FALSE
