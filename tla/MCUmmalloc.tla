----------------------------- MODULE MCUmmalloc -----------------------------
(***************************************************************************)
(* Instances of the allocator for TLC.  A behaviour makes any requests of  *)
(* a few sizes in a small heap, or one request of each page count in turn, *)
(* which a breadth-first search of all requests would never reach.         *)
(***************************************************************************)
EXTENDS Ummalloc

VARIABLE script

(* The n-th request is 8 bytes past a page boundary, so that malloc_brk's  *)
(* remainder adds 4088 bytes to the free chunk; the last one is any of the *)
(* largest that the slots are made for.                                    *)
Menu(n) ==
  IF n <= 15 THEN {4096 * n} ELSE {65528 - 64 * j : j \in 0 .. 60}

ScriptSizes == UNION {Menu(n) : n \in 1 .. 16}

ScriptedMalloc ==
  /\ script /\ Cardinality(blocks) < 16
  /\ \E size \in Menu(Cardinality(blocks) + 1) : Malloc(size)
  /\ UNCHANGED script

(* The bounds of the small heap: a successful sbrk past SmallLimit is not  *)
(* followed, one that fails there is.                                      *)
AnySizes == {24, 488, 504, 3080, 4100}
SmallLimit == 28672
SmallPacks == 6
InSmallHeap ==
  /\ ~ script
  /\ heap'.brk <= SmallLimit
  /\ UNCHANGED script

MCSizes == AnySizes \cup ScriptSizes

HeapInit == Init /\ script \in BOOLEAN

HeapNext ==
  \/ \E ok \in BOOLEAN : MmInit(ok) /\ UNCHANGED script
  \/ ScriptedMalloc
  \/ \E size \in AnySizes :
       Cardinality(DOMAIN heap.mem) < SmallPacks /\ Malloc(size) /\ InSmallHeap
  \/ \E b \in blocks : Free(b) /\ InSmallHeap
  \/ \E b \in blocks, size \in AnySizes : Realloc(b, size) /\ InSmallHeap
  \/ \E b \in blocks : UseBlock(b) /\ InSmallHeap

HeapSpec == HeapInit /\ [][HeapNext]_<<vars, script>>

ScriptSpec == HeapInit /\ script = TRUE /\ [][HeapNext]_<<vars, script>>
AnySpec == HeapInit /\ script = FALSE /\ [][HeapNext]_<<vars, script>>
=============================================================================
