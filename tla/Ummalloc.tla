------------------------------ MODULE Ummalloc ------------------------------
(***************************************************************************)
(* The user-space allocator of user/ummalloc.c and memory/*.h: boundary-   *)
(* tagged chunks ("packs") between a first pack and a zero-sized tail      *)
(* pack, 64 segregated lists with a bitmap, 32-byte cells carved out of    *)
(* fast pages, and sbrk when no list can serve a request.                  *)
(*                                                                         *)
(* heap is the allocator's whole state; every C helper is an operator that *)
(* maps one heap to the next, and the entry points mm_* are the actions.   *)
(* Packs are named by the address of their header; a list of nodes is the  *)
(* sequence of its packs.                                                  *)
(***************************************************************************)
EXTENDS Integers, Sequences, FiniteSets

CONSTANTS
  Sizes,      \* byte counts the client asks for
  Breaks,     \* program breaks mm_init may find
  HeapLimit,  \* physical memory: the break cannot pass it
  MayFail,    \* TRUE: sbrk may also fail below HeapLimit
  Word,       \* modulus of uint
  Cells,      \* 32-byte cells of one word of a fast page's bitmap (64)
  MaxPacks,   \* bound: packs in the heap when a request is made
  MaxFreed    \* bound: blocks the client lets go of

PAGE_SIZE == 4096
HUGE_MAX == 65536   \* the largest chunk that has a slot
NSLOTS == 64
HEAD == 114514     \* the previous size of the first pack: always invalid
SlotIds == 0 .. NSLOTS - 1

(* ALIGN(size) + sizeof(struct pack), computed in uint. *)
NeedOf(size) == ((((size + 7) % Word) \div 8) * 8 + 8) % Word

ASSUME UmmallocAssumption ==
  /\ Word \in Nat /\ Word % 8 = 0 /\ Word > HUGE_MAX
  /\ Sizes \subseteq 0 .. Word - 1
  /\ \A s \in Sizes : NeedOf(s) <= HUGE_MAX   \* larger: "Not supported yet"
  /\ Breaks \subseteq Nat
  /\ HeapLimit \in Nat
  /\ MayFail \in BOOLEAN
  /\ Cells \in 1 .. 64
  /\ MaxPacks \in Nat /\ MaxFreed \in Nat

VARIABLES
  heap,     \* the allocator's globals, the packs in memory and the break
  blocks,   \* what the client holds: the pointers and sizes it was given
  freed     \* number of blocks it has let go of

vars == <<heap, blocks, freed>>

PREV_INUSE == "prev"
THIS_INUSE == "this"
BOTH_INUSE == {PREV_INUSE, THIS_INUSE}

Pack(prev, size, meta) == [prev |-> prev, size |-> size, meta |-> meta]

NoPacks == [x \in {} |-> 0]

(* mem with the pack r written at address a. *)
Put(mem, a, r) ==
  [x \in DOMAIN mem \cup {a} |-> IF x = a THEN r ELSE mem[x]]

PgRoundUp(a) == ((a + PAGE_SIZE - 1) \div PAGE_SIZE) * PAGE_SIZE
-----------------------------------------------------------------------------
(* The slot of a free chunk. *)
GetIndex(size) ==
  IF size <= 512 THEN (size - 1) \div 16
  ELSE IF size > 4096
       THEN IF size < 6144 THEN 48 ELSE (size - 1) \div 4096 + 48
       ELSE IF size <= 640 THEN (size + 1535) \div 64
                           ELSE 34 + (size - 513) \div 256

PackNext(mem, a) == a + mem[a].size
PackPrev(mem, a) == a - mem[a].prev

(* s without its k-th element. *)
DropAt(s, k) == [j \in 1 .. Len(s) - 1 |-> IF j < k THEN s[j] ELSE s[j + 1]]

(* Mutated form: the bit stays when the list has become empty. *)
UnlinkKeepsBit(h, i, k) == [h EXCEPT !.slots[i] = DropAt(@, k)]

(* Unlinks the k-th node of slot i; the slot's bit goes with its last one. *)
Unlink(h, i, k) ==
  [h EXCEPT !.slots[i] = DropAt(@, k),
            !.bitmap = IF Len(h.slots[i]) = 1 THEN @ \ {i} ELSE @]

(* Where the IMPOSSIBLE assertions of free_chunk and get_index stand. *)
FreeChunk(h, a) ==
  LET i == GetIndex(h.mem[a].size) IN
  [h EXCEPT !.slots[i] = <<a>> \o @,
            !.bitmap = @ \cup {i},
            !.impossible = \/ @
                           \/ h.mem[a].meta # {PREV_INUSE}
                           \/ h.mem[PackNext(h.mem, a)].meta # {THIS_INUSE}
                           \/ h.mem[a].size <= 32]

(* Mutated form: the next pack does not learn that this one is in use. *)
PackAllocateNoTag(h, a) ==
  [h EXCEPT !.mem = [@ EXCEPT ![a].meta = BOTH_INUSE], !.ret = a + 8]

AllocatedIn(mem, a) ==
  LET n == PackNext(mem, a) IN
  [mem EXCEPT ![a] = Pack(mem[a].prev, mem[a].size, BOTH_INUSE),
              ![n] = Pack(mem[a].size, mem[n].size, mem[n].meta \cup {PREV_INUSE})]

PackAllocate(h, a) == [h EXCEPT !.mem = AllocatedIn(h.mem, a), !.ret = a + 8]

SplitIn(mem, a, need) ==
  LET rest == mem[a].size - need
      n    == PackNext(mem, a)
      m    == [mem EXCEPT ![a] = Pack(mem[a].prev, need, BOTH_INUSE),
                          ![n] = Pack(rest, mem[n].size, {THIS_INUSE})]
  IN Put(m, a + need, Pack(need, rest, {PREV_INUSE}))

SplitAllocate(h, a, need) ==
  [FreeChunk([h EXCEPT !.mem = SplitIn(h.mem, a, need)], a + need)
     EXCEPT !.ret = a + 8]

(* Mutated form: any remainder is split off. *)
TrySplitAllocateAlways(h, a, need) ==
  IF h.mem[a].size <= need THEN PackAllocate(h, a)
                           ELSE SplitAllocate(h, a, need)

(* rest is a size_t: a chunk smaller than need gives a huge one, and the   *)
(* new pack is written at a + need, past the end of the heap.              *)
TrySplitAllocate(h, a, need) ==
  LET size == h.mem[a].size IN
  IF size < need THEN [h EXCEPT !.stop = "fault", !.ret = 0]
  ELSE IF size - need >= need \/ size - need >= 512
       THEN SplitAllocate(h, a, need)
       ELSE PackAllocate(h, a)

(* list_extract: the bit is cleared when the list has become empty. *)
ListExtract(h, i) == Unlink(h, i, 1)

PositionIn(s, a) == CHOOSE k \in 1 .. Len(s) : s[k] = a

TrySafeRemove(h, a) ==
  LET i == GetIndex(h.mem[a].size) IN Unlink(h, i, PositionIn(h.slots[i], a))

MergedIn(mem, p, a) ==
  LET size == mem[p].size + mem[a].size
      n    == PackNext(mem, a)
      m    == [mem EXCEPT ![p] = Pack(mem[p].prev, size, mem[p].meta),
                          ![n] = Pack(size, mem[n].size, mem[n].meta)]
  IN [x \in DOMAIN mem \ {a} |-> m[x]]

(* try_merge_prev: a's header becomes data of the free chunk before it. *)
TryMergePrev(h, a) ==
  LET p == PackPrev(h.mem, a) IN
  IF PREV_INUSE \in h.mem[a].meta THEN h
  ELSE [TrySafeRemove(h, p) EXCEPT !.mem = MergedIn(h.mem, p, a)]

MergedPack(h, a) ==
  IF PREV_INUSE \in h.mem[a].meta THEN a ELSE PackPrev(h.mem, a)

(* Mutated forms: no merge with the free chunk; a page too many. *)
MallocBrkSized(h, need, size, merge, ok) ==
  LET a == h.base - 8
      k == [h EXCEPT !.mem = Put([@ EXCEPT ![a].size = size],
                                 a + size, Pack(0, 0, {THIS_INUSE})),
                     !.base = @ + size,
                     !.brk = @ + size]
  IN IF ~ok THEN [h EXCEPT !.ret = 0]
     ELSE IF merge
     THEN TrySplitAllocate(TryMergePrev(k, a), MergedPack(k, a), need)
     ELSE TrySplitAllocate(k, a, need)
MallocBrkNoMerge(h, need, ok) ==
  MallocBrkSized(h, need, PgRoundUp(need), FALSE, ok)
MallocBrkExtraPage(h, need, ok) ==
  MallocBrkSized(h, need, PgRoundUp(need + 1), TRUE, ok)

(* The old tail becomes a chunk and base moves before sbrk is tried.  A    *)
(* base that an earlier failure left past the break makes the write to the *)
(* tail pack fault.  sbrk hands out zeroed memory.                         *)
ResizedIn(mem, a, size) ==
  [mem EXCEPT ![a] = Pack(mem[a].prev, size, mem[a].meta)]

MallocBrk(h, need, ok) ==
  LET a    == h.base - 8
      size == PgRoundUp(need)
      m    == ResizedIn(h.mem, a, size)
      g    == [h EXCEPT !.mem = m, !.base = h.base + size]
      k    == [h EXCEPT !.mem = Put(m, a + size, Pack(0, 0, {THIS_INUSE})),
                        !.base = h.base + size,
                        !.brk = h.brk + size]
  IN IF a >= PgRoundUp(h.brk) THEN [h EXCEPT !.stop = "fault", !.ret = 0]
     ELSE IF ~ok THEN [g EXCEPT !.ret = 0]
     ELSE TrySplitAllocate(TryMergePrev(k, a), MergedPack(k, a), need)

(* next_free(63) shifts a 64-bit word by 64, which is undefined: the mask  *)
(* is 0 or, where the machine takes the count modulo 64, all ones.         *)
NextFree(h, i, all) ==
  IF i = 63 THEN IF all THEN h.bitmap ELSE {} ELSE {b \in h.bitmap : b > i}

Lowest(S) == CHOOSE b \in S : \A c \in S : b <= c

NextAllocate(h, i, need, all, ok) ==
  LET S == NextFree(h, i, all)
      j == Lowest(S)
  IN IF S = {} THEN MallocBrk(h, need, ok)
     ELSE TrySplitAllocate(ListExtract(h, j), h.slots[j][1], need)
-----------------------------------------------------------------------------
(* Mutated form: every node of the slot is taken to be large enough. *)
FitsAny(h, i, need, limit) ==
  {k \in 1 .. Len(h.slots[i]) : k <= limit}

(* The first of at most limit nodes of slot i that is large enough. *)
Fits(h, i, need, limit) ==
  {k \in 1 .. Len(h.slots[i]) :
     k <= limit /\ h.mem[h.slots[i][k]].size >= need}

IterativeAllocate(h, i, need, limit) ==
  LET k == Lowest(Fits(h, i, need, limit))
  IN PackAllocate(Unlink(h, i, k), h.slots[i][k])

MallocListed(h, need, limit, all, ok) ==
  LET i == GetIndex(need)
  IN IF Fits(h, i, need, limit) # {} THEN IterativeAllocate(h, i, need, limit)
     ELSE NextAllocate(h, i, need, all, ok)

MallocHuge(h, need, all, ok) == MallocListed(h, need, 8, all, ok)

MallocMiddle(h, need, all, ok) == MallocListed(h, need, 4, all, ok)
-----------------------------------------------------------------------------
(* The two bitmap words of a fast page: cells 0.. and 64.. *)
LowCells  == 0 .. Cells - 1
HighCells == 64 .. 63 + Cells

Highest(S) == CHOOSE b \in S : \A c \in S : c <= b

(* Mutated form: a page is given one cell fewer than its bitmap has bits. *)
FastBinReserve127(h, all, ok) ==
  LET g == MallocHuge(h, 4096 + 48, all, ok)
      a == g.ret - 8
  IN IF h.slots[1] # <<>> THEN h
     ELSE IF g.ret = 0 THEN [g EXCEPT !.stop = "fault"]
     ELSE [g EXCEPT !.slots[1] = <<a>> \o @,
                    !.pages = Put(@, a, [count |-> 2 * Cells - 1,
                                         free  |-> LowCells \cup HighCells])]

(* The result of malloc_huge is used unchecked: NULL faults. *)
FastBinReserve(h, all, ok) ==
  LET g == MallocHuge(h, 4096 + 48, all, ok)
      a == g.ret - 8
  IN IF h.slots[1] # <<>> THEN h
     ELSE IF g.ret = 0 THEN [g EXCEPT !.stop = "fault"]
     ELSE [g EXCEPT !.slots[1] = <<a>> \o @,
                    !.pages = Put(@, a, [count |-> 2 * Cells,
                                         free  |-> LowCells \cup HighCells])]

(* Mutated form: cells of 16 bytes. *)
CellDataTight(page, cell) == page + 8 + 40 + cell * 16 + 8

(* The cell's header follows the node (16 bytes) and the map (24 bytes). *)
CellData(page, cell) == page + 8 + 40 + cell * 32 + 8

(* Mutated form: the cell's bit is not cleared. *)
FastAllocateKeepsBit(h) ==
  LET a    == h.slots[1][1]
      page == h.pages[a]
      cell == Highest(page.free)
      full == page.count = 1
  IN [h EXCEPT !.slots[1] = IF full THEN DropAt(@, 1) ELSE @,
               !.full     = IF full THEN <<a>> \o @ ELSE @,
               !.pages[a] = [page EXCEPT !.count = @ - 1],
               !.ret = CellData(a, cell)]

FastAllocate(h) ==
  LET a    == h.slots[1][1]
      page == h.pages[a]
      cell == IF page.free \cap LowCells # {}
              THEN Highest(page.free \cap LowCells)
              ELSE Highest(page.free \cap HighCells)
      full == page.count = 1
  IN [h EXCEPT !.slots[1] = IF full THEN DropAt(@, 1) ELSE @,
               !.full     = IF full THEN <<a>> \o @ ELSE @,
               !.pages[a] = [count |-> page.count - 1,
                             free  |-> page.free \ {cell}],
               !.impossible = @ \/ page.count = 0 \/ page.free = {},
               !.ret = CellData(a, cell)]

MallocFast(h, all, ok) ==
  LET g == FastBinReserve(h, all, ok)
  IN IF g.stop = "no" THEN FastAllocate(g) ELSE g

(* tiny_allocate takes the first node of the slot whatever its size. *)
MallocTiny(h, size, all, ok) ==
  LET i == (size - 1) \div 16
  IN IF size <= 32 THEN MallocFast(h, all, ok)
     ELSE IF h.slots[i] # <<>>
     THEN PackAllocate(ListExtract(h, i), h.slots[i][1])
     ELSE NextAllocate(h, i, (i + 1) * 16, all, ok)

MmMalloc(h, size, all, ok) ==
  LET need == NeedOf(size)
  IN IF need <= 512 THEN MallocTiny(h, need, all, ok)
     ELSE IF need > 4096 THEN MallocHuge(h, need, all, ok)
     ELSE MallocMiddle(h, need, all, ok)

(* mm_align_init; sbrk to the end of a page that is already mapped cannot  *)
(* fail.  A failed first sbrk leaves heap = -1 and the first pack at 0, in *)
(* the read-only text.                                                     *)
MmAlignInit(h, ok) ==
  LET top  == PgRoundUp(h.brk + PAGE_SIZE)
      low  == ((h.brk + 7) \div 8) * 8 + 8
      size == top - low
      mem  == Put(Put(NoPacks, low - 8, Pack(HEAD, size, {PREV_INUSE})),
                  top - 8, Pack(size, 0, {THIS_INUSE}))
  IN IF ~ok THEN [h EXCEPT !.stop = "fault"]
     ELSE FreeChunk([h EXCEPT !.mem = mem, !.base = top, !.brk = top,
                              !.stop = "no"], low - 8)
-----------------------------------------------------------------------------
(* What sbrk(n) may answer. *)
SbrkOutcomes(h, n) ==
  {ok \in BOOLEAN :
     IF PgRoundUp(h.brk + n) > HeapLimit THEN ~ok ELSE ok \/ MayFail}

Init ==
  /\ \E b \in Breaks :
       heap = [mem |-> NoPacks, slots |-> [i \in SlotIds |-> <<>>],
               bitmap |-> {}, base |-> 0, brk |-> b, pages |-> NoPacks,
               full |-> <<>>, ret |-> 0, impossible |-> FALSE,
               stop |-> "init"]
  /\ blocks = {}
  /\ freed = 0

MmInit(ok) ==
  /\ heap.stop = "init"
  /\ ok \in SbrkOutcomes(heap, PAGE_SIZE)
  /\ heap' = MmAlignInit(heap, ok)
  /\ UNCHANGED <<blocks, freed>>

(* The only sbrk of a request is for its own need, or for a fast page. *)
BrkNeed(size) ==
  LET need == NeedOf(size)
  IN IF need <= 32 THEN 4096 + 48
     ELSE IF need <= 512 THEN ((need - 1) \div 16 + 1) * 16 ELSE need

Malloc(size) ==
  /\ heap.stop = "no"
  /\ Cardinality(DOMAIN heap.mem) < MaxPacks
  /\ \E all \in BOOLEAN, ok \in SbrkOutcomes(heap, PgRoundUp(BrkNeed(size))) :
       heap' = MmMalloc(heap, size, all, ok)
  /\ blocks' = IF heap'.stop = "no" /\ heap'.ret # 0
               THEN blocks \cup {[ptr |-> heap'.ret, size |-> size]}
               ELSE blocks
  /\ UNCHANGED freed

(* mm_free does nothing; the client lets go of the block. *)
Free(b) ==
  /\ heap.stop = "no"
  /\ freed < MaxFreed
  /\ blocks' = blocks \ {b}
  /\ freed' = freed + 1
  /\ UNCHANGED heap

(* mm_realloc of a live block to a size other than 0 answers 0 and leaves  *)
(* the block alone; to size 0 it is Free(b), and mm_realloc(0, size) is    *)
(* Malloc(size).                                                           *)
Realloc(b, size) ==
  /\ heap.stop = "no"
  /\ size # 0
  /\ heap' = [heap EXCEPT !.ret = 0]
  /\ UNCHANGED <<blocks, freed>>

(* Headers of packs and of the cells the client holds. *)
Headers == DOMAIN heap.mem \cup {b.ptr - 8 : b \in blocks}

Overlaps(b, a) == b.ptr < a + 8 /\ a < b.ptr + b.size

(* The client may fill every byte it asked for.  Filling a block that      *)
(* covers a header leaves the allocator with the client's bytes as sizes.  *)
UseBlock(b) ==
  /\ heap.stop = "no"
  /\ \E a \in Headers : Overlaps(b, a)
  /\ heap' = [heap EXCEPT !.stop = "clobbered"]
  /\ UNCHANGED <<blocks, freed>>

Next ==
  \/ \E ok \in BOOLEAN : MmInit(ok)
  \/ \E size \in Sizes : Malloc(size)
  \/ \E b \in blocks : Free(b)
  \/ \E b \in blocks, size \in Sizes : Realloc(b, size)
  \/ \E b \in blocks : UseBlock(b)

Spec == Init /\ [][Next]_vars
-----------------------------------------------------------------------------
Running == heap.stop = "no"

Metas == SUBSET BOTH_INUSE

(* Every field of the allocator's state has its type: packs carry sizes    *)
(* and flags, lists carry addresses, the bitmap has 64 bits.               *)
TypeOK ==
  /\ DOMAIN heap.mem \subseteq Nat
  /\ \A a \in DOMAIN heap.mem :
       heap.mem[a] \in [prev : Nat, size : Nat, meta : Metas]
  /\ heap.slots \in [SlotIds -> Seq(Nat)]
  /\ heap.bitmap \subseteq SlotIds
  /\ heap.base \in Nat /\ heap.brk \in Nat /\ heap.ret \in Nat
  /\ heap.impossible \in BOOLEAN
  /\ heap.stop \in {"init", "no", "fault", "clobbered"}
  /\ \A b \in blocks : b.ptr \in Nat /\ b.size \in Sizes

FreePacks == {a \in DOMAIN heap.mem : THIS_INUSE \notin heap.mem[a].meta}

TailPack == Highest(DOMAIN heap.mem)

(* The packs tile the heap: following sizes leads from every pack to the   *)
(* one that physically follows it, up to the tail, and the boundary tag    *)
(* of that one (size of and in-use flag for its predecessor) is true.      *)
BoundaryTags ==
  Running =>
    \A a \in DOMAIN heap.mem \ {TailPack} :
      LET n == PackNext(heap.mem, a) IN
      /\ n \in DOMAIN heap.mem /\ n > a
      /\ \A x \in DOMAIN heap.mem : ~(a < x /\ x < n)
      /\ heap.mem[n].prev = heap.mem[a].size
      /\ PREV_INUSE \in heap.mem[n].meta <=> THIS_INUSE \in heap.mem[a].meta

(* A free chunk is on the list of its size class, once, and on no other;   *)
(* only free chunks are on the lists (slot 1 holds fast pages); a slot's   *)
(* bit is set exactly while its list has a node.                           *)
FreeLists ==
  Running =>
    /\ \A i \in SlotIds \ {1} :
         /\ i \in heap.bitmap <=> heap.slots[i] # <<>>
         /\ \A k \in DOMAIN heap.slots[i] :
              /\ heap.slots[i][k] \in FreePacks
              /\ GetIndex(heap.mem[heap.slots[i][k]].size) = i
    /\ \A a \in FreePacks :
         \E k \in DOMAIN heap.slots[GetIndex(heap.mem[a].size)] :
           heap.slots[GetIndex(heap.mem[a].size)][k] = a
    /\ 1 \notin heap.bitmap

(* mm_free gives nothing back, so the allocator never holds more than one  *)
(* free chunk, and it is the last one before the tail: the only merge that *)
(* malloc_brk tries is the only one there is.                              *)
OneFreeAtTop ==
  Running =>
    \A a \in FreePacks : PackNext(heap.mem, a) = TailPack

(* The free chunk stays below 64 KiB however the requests and the page     *)
(* remainders of malloc_brk add up, so free_chunk never indexes slots or   *)
(* shifts the bitmap past 63.                                              *)
SlotInRange ==
  Running => \A a \in FreePacks : heap.mem[a].size < HUGE_MAX

(* No IMPOSSIBLE assertion of free_chunk, get_index and fast_allocate      *)
(* fires.                                                                  *)
NeverImpossible == ~heap.impossible

(* The pointers the client holds are 8-byte aligned, inside the heap, and  *)
(* the byte ranges it asked for do not meet.                               *)
BlocksDisjoint ==
  Running =>
    \A b \in blocks :
      /\ b.ptr % 8 = 0
      /\ b.ptr + b.size <= heap.brk
      /\ \A c \in blocks :
           c # b => b.ptr + b.size <= c.ptr \/ c.ptr + c.size <= b.ptr

(* mm_malloc never answers with a block that the client already holds.     *)
FreshBlock ==
  [][heap' # heap /\ heap'.stop = "no" /\ heap'.ret # 0
       => Cardinality(blocks') = Cardinality(blocks) + 1]_vars

(* A request of more than 512 bytes in all gets a chunk that holds it,     *)
(* whichever of the list walk, the bitmap search, the split and the merge  *)
(* with fresh pages served it.                                             *)
RoomAboveTiny ==
  Running =>
    \A b \in blocks :
      NeedOf(b.size) > 512 => heap.mem[b.ptr - 8].size - 8 >= b.size

(* A fast page counts its free cells right, is on the list of slot 1       *)
(* exactly while it has one and on fast_full from then on, and no cell in  *)
(* the client's hands is marked free.                                      *)
FastPages ==
  Running =>
    \A p \in DOMAIN heap.pages :
      LET page == heap.pages[p] IN
      /\ page.count = Cardinality(page.free)
      /\ page.count > 0 <=> \E k \in DOMAIN heap.slots[1] : heap.slots[1][k] = p
      /\ page.count = 0 <=> \E k \in DOMAIN heap.full : heap.full[k] = p
      /\ \A c \in page.free, b \in blocks : b.ptr # CellData(p, c)

(* mm_malloc hands out as many bytes as were asked for: a client that uses *)
(* its blocks never writes over a header of the allocator.                 *)
NeverClobbered == heap.stop # "clobbered"

(* Running out of memory is reported by NULL: no call of the allocator     *)
(* touches an address outside the heap.                                    *)
NeverFaults == heap.stop # "fault"
=============================================================================
