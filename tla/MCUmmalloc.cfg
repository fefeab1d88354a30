SPECIFICATION HeapSpec
CONSTANTS
  Sizes <- MCSizes
  Breaks = {8192, 8204}
  HeapLimit = 1048576
  MayFail = TRUE
  Word = 16777216
  Cells = 2
  MaxPacks = 40
  MaxFreed = 1
INVARIANTS
  OneFreeAtTop
  BoundaryTags
  FreeLists
  SlotInRange
  RoomAboveTiny
  BlocksDisjoint
  NeverImpossible
  FastPages
PROPERTIES FreshBlock
CHECK_DEADLOCK FALSE
