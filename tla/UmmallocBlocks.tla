--------------------------- MODULE UmmallocBlocks ---------------------------
(***************************************************************************)
(* What the client of Ummalloc is given: where its blocks are, that they   *)
(* do not meet, and that the fast pages' books are right.  The invariant   *)
(* BInv says of each block which chunk or which cell of which fast page it *)
(* is; it rests on IInv, the invariant of the chunks and the lists.        *)
(***************************************************************************)
EXTENDS UmmallocProofs

AllCellIds == LowCells \cup HighCells

Aligned(mem) == \A x \in DOMAIN mem : x % 8 = 0

(* The block is a chunk of its own, short of its need by at most 8 bytes   *)
(* if it was served by tiny_allocate.                                      *)
Whole(h, t, b) ==
  LET a == b.ptr - 8 IN
  /\ a \in DOMAIN h.mem \ {t} /\ a \notin DOMAIN h.pages /\ ~IsFree(h.mem, a)
  /\ h.mem[a].size >= NeedOf(b.size) - 8
  /\ NeedOf(b.size) > 512 => h.mem[a].size >= NeedOf(b.size)

(* The block is a cell that is not free. *)
InCell(h, b) ==
  /\ NeedOf(b.size) <= 32
  /\ \E p \in DOMAIN h.pages : \E c \in AllCellIds \ h.pages[p].free :
       b.ptr = CellData(p, c)

FastBytes == 4096 + 48

(* A fast page is a chunk in use, and in slot 1 or on fast_full.           *)
PageAt(h, t, p) ==
  /\ p \in DOMAIN h.mem \ {t} /\ ~IsFree(h.mem, p)
  /\ h.mem[p].size >= FastBytes
  /\ h.pages[p].free \subseteq AllCellIds
  /\ h.pages[p].count = Cardinality(h.pages[p].free)
  /\ h.pages[p].free # {} <=> h.slots[1] = <<p>>
  /\ h.pages[p].free = {} <=> \E k \in DOMAIN h.full : h.full[k] = p

PageInv(h, t) ==
  /\ \A p \in DOMAIN h.pages : PageAt(h, t, p)
  /\ h.full \in Seq(DOMAIN h.pages)

BlockInv(h, t, B) ==
  /\ IsFiniteSet(B)
  /\ \A b \in B : Whole(h, t, b) \/ InCell(h, b)
  /\ \A b, c \in B : b.ptr = c.ptr => b = c

BInv ==
  /\ heap.stop = "no" =>
       \A t \in Nat : Lively(heap, t) =>
         Aligned(heap.mem) /\ PageInv(heap, t) /\ BlockInv(heap, t, blocks)
  /\ heap.stop = "init" => /\ heap.ret = 0 /\ heap.pages = NoPacks
                           /\ heap.full = <<>> /\ blocks = {}
-----------------------------------------------------------------------------
(* m is mem with the chunk a, which n bytes of it now serve, in use: the   *)
(* other packs keep their sizes and stay in use if they were.              *)
Cut(m, mem, a, n) ==
  /\ DOMAIN mem \subseteq DOMAIN m
  /\ \A x \in DOMAIN mem \ {a} :
       m[x].size = mem[x].size /\ (~IsFree(mem, x) => ~IsFree(m, x))
  /\ ~IsFree(m, a) /\ m[a].size = n
  /\ Aligned(m)

(* pack_allocate gives the whole chunk. *)
LEMMA AllocatedCut ==
  ASSUME NEW mem, NEW t \in Nat, NEW a \in Nat, TakenIn(mem, a, t), Aligned(mem)
  PROVE  Cut(AllocatedIn(mem, a), mem, a, mem[a].size)
<1> DEFINE m == AllocatedIn(mem, a)
<1>1. a \in DOMAIN mem /\ t \in DOMAIN mem /\ a # t /\ t = PackNext(mem, a)
  BY Zenon DEF TakenIn, Geometry, PackNext
<1>2. /\ DOMAIN m = DOMAIN mem
      /\ m[a] = Pack(mem[a].prev, mem[a].size, BOTH_INUSE)
      /\ m[t] = Pack(mem[a].size, mem[t].size, mem[t].meta \cup {PREV_INUSE})
      /\ \A x \in DOMAIN mem \ {a, t} : m[x] = mem[x]
  BY <1>1, Zenon DEF AllocatedIn
<1> HIDE DEF m
<1>3. \A x \in DOMAIN mem : m[x].size = mem[x].size
  BY <1>2 DEF Pack
<1>4. \A x \in DOMAIN mem : ~IsFree(mem, x) => ~IsFree(m, x)
  BY <1>2 DEF Pack, IsFree, BOTH_INUSE
<1>5. ~IsFree(m, a)
  BY <1>2 DEF Pack, IsFree, BOTH_INUSE
<1> QED
  BY <1>1, <1>2, <1>3, <1>4, <1>5, Zenon DEF Cut, Aligned, m

(* split_allocate gives exactly what is needed; the rest starts at an      *)
(* aligned address.                                                        *)
LEMMA SplitCut ==
  ASSUME NEW mem, NEW t \in Nat, NEW a \in Nat, NEW need \in Nat,
         TakenIn(mem, a, t), need > 0, need % 8 = 0, mem[a].size > need,
         Aligned(mem)
  PROVE  Cut(SplitIn(mem, a, need), mem, a, need)
<1> DEFINE m == SplitIn(mem, a, need)
           rest == mem[a].size - need
           w == a + need
           k == [mem EXCEPT ![a] = Pack(mem[a].prev, need, BOTH_INUSE),
                            ![t] = Pack(rest, mem[t].size, {THIS_INUSE})]
<1>1. /\ a \in DOMAIN mem /\ t \in DOMAIN mem /\ a # t /\ t = PackNext(mem, a)
      /\ mem[a].size \in Nat /\ t = a + mem[a].size
  BY Zenon DEF TakenIn, Geometry, PackNext, IsMem, PackRecords
<1>2. w \notin DOMAIN mem /\ w # a /\ w # t
  <2>1. a < w /\ w < a + mem[a].size
    BY <1>1
  <2>2. w \notin DOMAIN mem
    BY <1>1, <2>1, Zenon DEF TakenIn, Geometry
  <2> QED
    BY <1>1, <2>2, Zenon
<1>3. /\ DOMAIN k = DOMAIN mem
      /\ k[a] = Pack(mem[a].prev, need, BOTH_INUSE)
      /\ k[t] = Pack(rest, mem[t].size, {THIS_INUSE})
      /\ \A x \in DOMAIN mem \ {a, t} : k[x] = mem[x]
  BY <1>1, Zenon
<1>4. m = Put(k, w, Pack(need, rest, {PREV_INUSE}))
  BY <1>1, Zenon DEF SplitIn
<1> HIDE DEF m, k
<1>5. /\ DOMAIN m = DOMAIN mem \cup {w}
      /\ \A x \in DOMAIN mem : m[x] = k[x]
  BY <1>2, <1>3, <1>4, Zenon DEF Put
<1>6. \A x \in DOMAIN mem \ {a} : m[x].size = mem[x].size
  BY <1>3, <1>5 DEF Pack
<1>7. \A x \in DOMAIN mem : ~IsFree(mem, x) => ~IsFree(m, x)
  BY <1>3, <1>5 DEF Pack, IsFree, BOTH_INUSE
<1>8. ~IsFree(m, a) /\ m[a].size = need
  BY <1>1, <1>3, <1>5 DEF Pack, IsFree, BOTH_INUSE
<1>9. Aligned(m)
  <2>1. a % 8 = 0
    BY <1>1, Zenon DEF Aligned
  <2>2. w % 8 = 0
    BY <2>1
  <2> QED
    BY <2>2, <1>5, Zenon DEF Aligned
<1> QED
  BY <1>5, <1>6, <1>7, <1>8, <1>9, Zenon DEF Cut, m

(* try_split_allocate gives at least what is needed, or faults. *)
LEMMA TrySplitCut ==
  ASSUME NEW h, NEW t \in Nat, NEW a \in Nat, NEW need \in Nat, DOMAIN h = Fields,
         TakenIn(h.mem, a, t), need > 0, need % 8 = 0, Aligned(h.mem),
         TrySplitAllocate(h, a, need).stop = "no"
  PROVE  LET g == TrySplitAllocate(h, a, need) IN
         /\ g.ret = a + 8
         /\ \E n \in Nat : n >= need /\ Cut(g.mem, h.mem, a, n)
<1> DEFINE g == TrySplitAllocate(h, a, need)
<1>1. h.mem[a].size \in Nat
  BY Zenon DEF TakenIn, IsMem, PackRecords
<1>2. ~(h.mem[a].size < need)
  BY TrySplitFaults, Zenon
<1>3. CASE h.mem[a].size - need >= need \/ h.mem[a].size - need >= 512
  <2>1. h.mem[a].size > need
    BY <1>1, <1>3
  <2>2. Cut(SplitIn(h.mem, a, need), h.mem, a, need)
    BY <2>1, SplitCut, Zenon
  <2>3. g = SplitAllocate(h, a, need)
    BY <1>2, <1>3, Zenon DEF TrySplitAllocate
  <2> DEFINE k == [h EXCEPT !.mem = SplitIn(h.mem, a, need)]
             f == FreeChunk(k, a + need)
  <2>4. DOMAIN k = Fields /\ k.mem = SplitIn(h.mem, a, need)
    BY Zenon DEF Fields
  <2> HIDE DEF k
  <2>5. DOMAIN f = Fields /\ f.mem = SplitIn(h.mem, a, need)
    BY <2>4, FreeChunkFields
  <2>6. g = [f EXCEPT !.ret = a + 8]
    BY <2>3, Zenon DEF SplitAllocate, k
  <2> HIDE DEF f, g
  <2>7. g.ret = a + 8 /\ g.mem = SplitIn(h.mem, a, need)
    BY <2>5, <2>6, Zenon DEF Fields
  <2>8. need >= need
    OBVIOUS
  <2> QED
    BY <2>2, <2>7, <2>8, Zenon DEF g
<1>4. CASE ~(h.mem[a].size - need >= need \/ h.mem[a].size - need >= 512)
  <2>1. g = PackAllocate(h, a)
    BY <1>2, <1>4, Zenon DEF TrySplitAllocate
  <2> HIDE DEF g
  <2>2. g.ret = a + 8 /\ g.mem = AllocatedIn(h.mem, a)
    BY <2>1, Zenon DEF PackAllocate, Fields
  <2>3. Cut(AllocatedIn(h.mem, a), h.mem, a, h.mem[a].size)
    BY AllocatedCut, Zenon
  <2>4. h.mem[a].size >= need
    BY <1>1, <1>2
  <2> QED
    BY <1>1, <2>2, <2>3, <2>4, Zenon DEF g
<1> QED
  BY <1>3, <1>4, Zenon
-----------------------------------------------------------------------------
(* r is h with the packs that are in use below the tail as they were, and  *)
(* a is none of them.                                                      *)
Spares(r, mem, t, a) ==
  /\ Aligned(r)
  /\ \A x \in DOMAIN mem \ {t} :
       ~IsFree(mem, x) => /\ x \in DOMAIN r \ {a} /\ ~IsFree(r, x)
                          /\ r[x].size = mem[x].size
  /\ a \in DOMAIN mem \ {t} => IsFree(mem, a)

(* What serving a request for n bytes with a chunk does to the packs of h, *)
(* whose tail is t: those in use stay, and the answer is none of them.     *)
Grants(g, h, t, n) ==
  /\ Aligned(g.mem)
  /\ \A x \in DOMAIN h.mem \ {t} :
       ~IsFree(h.mem, x) => /\ x \in DOMAIN g.mem /\ ~IsFree(g.mem, x)
                            /\ g.mem[x].size = h.mem[x].size
  /\ \E u \in DOMAIN g.mem : u >= t
  /\ g.ret # 0 =>
       /\ g.ret - 8 \in DOMAIN g.mem /\ ~IsFree(g.mem, g.ret - 8)
       /\ g.mem[g.ret - 8].size \in Nat /\ g.mem[g.ret - 8].size >= n
       /\ \E u \in DOMAIN g.mem : u > g.ret - 8
       /\ g.ret - 8 \in DOMAIN h.mem \ {t} => IsFree(h.mem, g.ret - 8)

LEMMA CutGrants ==
  ASSUME NEW g, NEW h, NEW r, NEW t \in Nat, NEW u \in Nat, NEW a \in Nat,
         NEW n \in Nat, NEW need \in Nat, n >= need, u >= t,
         TakenIn(r, a, u), Spares(r, h.mem, t, a), Cut(g.mem, r, a, n),
         g.ret = a + 8
  PROVE  Grants(g, h, t, need)
<1>1. g.ret - 8 = a
  OBVIOUS
<1>2. a \in DOMAIN r /\ u \in DOMAIN r /\ u > a /\ a \in DOMAIN g.mem /\ u \in DOMAIN g.mem
  <2>1. a \in DOMAIN r /\ u \in DOMAIN r /\ a < u
    BY Zenon DEF TakenIn, Geometry
  <2> QED
    BY <2>1, Zenon DEF Cut
<1>3. g.mem[a].size \in Nat /\ g.mem[a].size >= need
  BY Zenon DEF Cut
<1>4. \A x \in DOMAIN h.mem \ {t} :
        ~IsFree(h.mem, x) => /\ x \in DOMAIN g.mem /\ ~IsFree(g.mem, x)
                             /\ g.mem[x].size = h.mem[x].size
  BY Zenon DEF Spares, Cut
<1>5. Aligned(g.mem) /\ ~IsFree(g.mem, a)
  BY Zenon DEF Cut
<1>6. a \in DOMAIN h.mem \ {t} => IsFree(h.mem, a)
  BY Zenon DEF Spares
<1> QED
  BY <1>1, <1>2, <1>3, <1>4, <1>5, <1>6, Zenon DEF Grants

(* try_merge_prev in malloc_brk takes nothing from the packs in use. *)
LEMMA BrkSpares ==
  ASSUME NEW k, DOMAIN k = Fields, NEW mem, NEW t \in Nat, NEW size \in Nat,
         size > 0, size % 8 = 0, IsMem(mem), Chain(mem, t), Aligned(mem),
         k.mem = GrownIn(mem, t, size)
  PROVE  Spares(TryMergePrev(k, t).mem, mem, t, MergedPack(k, t))
<1> DEFINE n == GrownIn(mem, t, size)
           u == t + size
<1>1. /\ u \notin DOMAIN mem
      /\ DOMAIN n = DOMAIN mem \cup {u}
      /\ n[t] = Pack(mem[t].prev, size, mem[t].meta)
      /\ n[u] = Pack(0, 0, {THIS_INUSE})
      /\ \A x \in DOMAIN mem \ {t} : n[x] = mem[x]
      /\ IsMem(n)
  BY GrownPacks, ZenonT(60)
<1>2. t \in DOMAIN mem /\ n[t].meta = mem[t].meta /\ n[t].size = size
  BY <1>1 DEF Chain, Geometry, Pack
<1>3. Aligned(n)
  <2>1. t % 8 = 0
    BY <1>2, Zenon DEF Aligned
  <2>2. u % 8 = 0
    BY <2>1
  <2> QED
    BY <1>1, <2>2, Zenon DEF Aligned
<1> HIDE DEF n
<1>4. k.mem = n
  BY Zenon DEF n
<1>5. CASE PREV_INUSE \in mem[t].meta
  <2>1. TryMergePrev(k, t).mem = n /\ MergedPack(k, t) = t
    BY <1>2, <1>4, <1>5, Zenon DEF TryMergePrev, MergedPack
  <2>2. Spares(n, mem, t, t)
    BY <1>1, <1>3, Zenon DEF Spares, IsFree
  <2> QED
    BY <2>1, <2>2, Zenon
<1>6. CASE PREV_INUSE \notin mem[t].meta
  <2>1. PICK p \in DOMAIN mem : IsFree(mem, p)
    BY <1>6, Zenon DEF Chain
  <2>2. PackPrev(n, t) = p
    BY <2>1, GrowMerged, Zenon DEF n
  <2> DEFINE m == MergedIn(n, p, t)
             i == GetIndex(k.mem[p].size)
             r == Unlink(k, i, PositionIn(k.slots[i], p))
  <2>3. MergedPack(k, t) = p /\ TryMergePrev(k, t) = [r EXCEPT !.mem = m]
    BY <1>2, <1>4, <1>6, <2>2, Zenon DEF MergedPack, TryMergePrev, TrySafeRemove
  <2>4. DOMAIN r = Fields
    BY Zenon DEF Unlink
  <2> HIDE DEF r, m
  <2>5. TryMergePrev(k, t).mem = m
    BY <2>3, <2>4, Zenon DEF Fields
  <2>6. /\ DOMAIN m = DOMAIN n \ {t}
        /\ \A x \in DOMAIN mem \ {t, p} : m[x] = mem[x]
    <3> DEFINE w == PackNext(n, t)
               s == n[p].size + n[t].size
               q == [n EXCEPT ![p] = Pack(n[p].prev, s, n[p].meta),
                              ![w] = Pack(s, n[w].size, n[w].meta)]
    <3>1. w = u
      BY <1>2, Zenon DEF PackNext
    <3>2. m = [x \in DOMAIN n \ {t} |-> q[x]]
      BY Zenon DEF MergedIn, m
    <3>3. \A x \in DOMAIN n \ {p, u} : q[x] = n[x]
      BY <3>1
    <3> HIDE DEF q
    <3> QED
      BY <1>1, <3>2, <3>3
  <2>7. Spares(m, mem, t, p)
    <3>1. Aligned(m)
      BY <1>3, <2>6, Zenon DEF Aligned
    <3>2. \A x \in DOMAIN mem \ {t} :
            ~IsFree(mem, x) => x # p /\ x \in DOMAIN m /\ m[x] = mem[x]
      BY <1>1, <2>1, <2>6, Zenon
    <3> QED
      BY <2>1, <3>1, <3>2, Zenon DEF Spares, IsFree
  <2> QED
    BY <2>3, <2>5, <2>7, Zenon
<1> QED
  BY <1>5, <1>6, Zenon
-----------------------------------------------------------------------------
(* malloc_brk grants a chunk, or answers 0 and changes the tail only. *)
LEMMA MallocBrkGrants ==
  ASSUME NEW h, NEW t \in Nat, Lively(h, t), Aligned(h.mem), h.stop = "no",
         NEW need \in Nat, need > 32, need <= HUGE_MAX, need % 8 = 0,
         NEW ok \in BOOLEAN, MallocBrk(h, need, ok).stop = "no"
  PROVE  Grants(MallocBrk(h, need, ok), h, t, need)
<1> DEFINE a    == h.base - 8
           size == PgRoundUp(need)
           m    == ResizedIn(h.mem, a, size)
           f    == [h EXCEPT !.mem = m, !.base = h.base + size]
           k    == [h EXCEPT !.mem = Put(m, a + size, Pack(0, 0, {THIS_INUSE})),
                             !.base = h.base + size,
                             !.brk = h.brk + size]
           g    == MallocBrk(h, need, ok)
<1>1. /\ h.base \in Nat /\ h.brk \in Nat /\ PgRoundUp(h.brk) = h.brk
      /\ DOMAIN h = Fields
  BY PageRound DEF Lively, Base
<1>2. size \in Nat /\ size > 0 /\ size % 8 = 0
  BY PageRound DEF PAGE_SIZE
<1>3. ~(a >= h.brk)
  <2>1. ASSUME a >= h.brk PROVE FALSE
    <3>1. g = [h EXCEPT !.stop = "fault", !.ret = 0]
      BY <1>1, <2>1, Zenon DEF MallocBrk
    <3> QED
      BY <1>1, <3>1, Zenon DEF Fields
  <2> QED
    BY <2>1
<1>4. t = a /\ t \in DOMAIN h.mem
  <2>1. h.base = h.brk \/ h.base >= h.brk + PAGE_SIZE
    BY Zenon DEF Lively, Base
  <2>2. h.base = h.brk
    BY <1>1, <1>3, <2>1 DEF PAGE_SIZE
  <2> QED
    BY <2>2, Zenon DEF Lively, Base, Chain, Geometry
<1>5. CASE ~ok
  <2>1. g = [f EXCEPT !.ret = 0]
    BY <1>1, <1>3, <1>5, Zenon DEF MallocBrk
  <2>2. /\ DOMAIN m = DOMAIN h.mem
        /\ \A x \in DOMAIN h.mem \ {t} : m[x] = h.mem[x]
    BY <1>4 DEF ResizedIn
  <2> HIDE DEF m
  <2>3. g.ret = 0 /\ g.mem = m
    BY <1>1, <2>1 DEF Fields
  <2>4. t >= t
    OBVIOUS
  <2> QED
    BY <1>4, <2>2, <2>3, <2>4, Zenon DEF Grants, Aligned, IsFree
<1>6. CASE ok
  <2> DEFINE r == TryMergePrev(k, t)
             b == MergedPack(k, t)
  <2>1. g = TrySplitAllocate(r, b, need)
    BY <1>1, <1>3, <1>4, <1>6, Zenon DEF MallocBrk
  <2>2. /\ DOMAIN k = Fields /\ k.mem = GrownIn(h.mem, t, size)
        /\ k.slots = h.slots /\ k.bitmap = h.bitmap /\ k.impossible = FALSE
    BY <1>4 DEF Lively, Fields, GrownIn
  <2> HIDE DEF g, k, size
  <2>3. Taken(r, b, t + size) /\ b \in Nat
    BY <1>2, <2>2, BrkTaken, ZenonT(60) DEF Lively
  <2>4. Spares(r.mem, h.mem, t, b)
    BY <1>2, <2>2, BrkSpares, Zenon DEF Lively
  <2> HIDE DEF r, b
  <2>5. t + size \in Nat /\ t + size >= t /\ need > 0
    BY <1>2
  <2>6. PICK n \in Nat : g.ret = b + 8 /\ n >= need /\ Cut(g.mem, r.mem, b, n)
    <3>1. g.stop = "no" /\ TakenIn(r.mem, b, t + size) /\ DOMAIN r = Fields
          /\ Aligned(r.mem)
      BY <2>3, <2>4, Zenon DEF g, Taken, Spares
    <3> QED
      BY <2>1, <2>3, <2>5, <3>1, TrySplitCut, Zenon
  <2> QED
    BY <2>3, <2>4, <2>5, <2>6, CutGrants, Zenon DEF Taken, g
<1> QED
  BY <1>5, <1>6, Zenon

(* The free chunk a of h, off its list, is served: all of it, or what is   *)
(* needed of it.                                                           *)
LEMMA ListedSpares ==
  ASSUME NEW h, NEW t \in Nat, Lively(h, t), Aligned(h.mem),
         NEW a \in DOMAIN h.mem, IsFree(h.mem, a)
  PROVE  Spares(h.mem, h.mem, t, a)
BY Zenon DEF Spares

(* next_allocate grants a chunk of a higher slot, or malloc_brk does. *)
LEMMA NextAllocateGrants ==
  ASSUME NEW h, NEW t \in Nat, Lively(h, t), Aligned(h.mem), h.stop = "no",
         NEW need \in Nat, need > 32, need <= HUGE_MAX, need % 8 = 0,
         NEW i, NEW all \in BOOLEAN, NEW ok \in BOOLEAN,
         NextAllocate(h, i, need, all, ok).stop = "no"
  PROVE  Grants(NextAllocate(h, i, need, all, ok), h, t, need)
<1> DEFINE S == NextFree(h, i, all)
           j == Lowest(S)
           g == NextAllocate(h, i, need, all, ok)
<1>1. S \subseteq h.bitmap
  BY Zenon DEF NextFree
<1>2. CASE S = {}
  <2>1. g = MallocBrk(h, need, ok)
    BY <1>2, Zenon DEF NextAllocate
  <2> QED
    BY <2>1, MallocBrkGrants, Zenon
<1>3. CASE S # {}
  <2>1. h.bitmap \subseteq SlotIds \ {1} /\ \A b \in h.bitmap : h.slots[b] # <<>>
    BY Zenon DEF Lively, Attached
  <2>2. j \in S
    <3>0. SlotIds \subseteq Nat
      BY DEF SlotIds, NSLOTS
    <3>1. S \subseteq Nat
      BY <1>1, <2>1, <3>0, Zenon
    <3>2. \E b \in S : \A c \in S : b <= c
      BY <1>3, <3>1, LowestExists, Zenon
    <3> QED
      BY <3>2, Zenon DEF Lowest
  <2>3. g = TrySplitAllocate(ListExtract(h, j), h.slots[j][1], need)
    BY <1>3, Zenon DEF NextAllocate
  <2> HIDE DEF j, S, g
  <2>4. j \in SlotIds \ {1} /\ h.slots[j] # <<>>
    BY <1>1, <2>1, <2>2, Zenon
  <2>5. PICK a \in DOMAIN h.mem : /\ IsFree(h.mem, a) /\ a \in Nat
                                 /\ GetIndex(h.mem[a].size) = j
                                 /\ h.slots[j] = <<a>>
    BY <2>4, ListedChunk, Zenon
  <2> DEFINE k == Unlink(h, j, 1)
  <2>6. Taken(k, a, t) /\ k.mem = h.mem
    BY <2>5, UnlinkLemma, ZenonT(60) DEF Lively
  <2>7. h.slots[j][1] = a /\ need > 0
    BY <2>5
  <2>8. g = TrySplitAllocate(k, a, need)
    BY <2>3, <2>7, Zenon DEF ListExtract
  <2> HIDE DEF k
  <2>9. PICK n \in Nat : g.ret = a + 8 /\ n >= need /\ Cut(g.mem, h.mem, a, n)
    <3>1. g.stop = "no" /\ TakenIn(k.mem, a, t) /\ DOMAIN k = Fields
          /\ Aligned(k.mem)
      BY <2>6, Zenon DEF g, Taken
    <3> QED
      BY <2>5, <2>6, <2>7, <2>8, <3>1, TrySplitCut, Zenon
  <2>10. t >= t
    OBVIOUS
  <2> QED
    BY <2>5, <2>6, <2>9, <2>10, ListedSpares, CutGrants, Zenon DEF Taken, g
<1> QED
  BY <1>2, <1>3, Zenon

(* malloc_huge and malloc_middle grant what is needed. *)
LEMMA MallocListedGrants ==
  ASSUME NEW h, NEW t \in Nat, Lively(h, t), Aligned(h.mem), h.stop = "no",
         NEW need \in Nat, need > 32, need <= HUGE_MAX, need % 8 = 0,
         NEW limit \in Nat, NEW all \in BOOLEAN, NEW ok \in BOOLEAN,
         MallocListed(h, need, limit, all, ok).stop = "no"
  PROVE  Grants(MallocListed(h, need, limit, all, ok), h, t, need)
<1> DEFINE i == GetIndex(need)
           F == Fits(h, i, need, limit)
           g == MallocListed(h, need, limit, all, ok)
<1>1. i \in SlotIds \ {1}
  BY IndexRange
<1>2. CASE F # {}
  <2>1. h.slots[i] # <<>>
    BY <1>2 DEF Fits
  <2>2. PICK a \in DOMAIN h.mem : /\ IsFree(h.mem, a)
                                 /\ GetIndex(h.mem[a].size) = i
                                 /\ h.slots[i] = <<a>> /\ a \in Nat
                                 /\ h.mem[a].size \in Nat
    BY <1>1, <2>1, ListedChunk, Zenon
  <2> DEFINE k == Unlink(h, i, 1)
  <2>3. F = {1} /\ h.mem[a].size >= need
    BY <1>2, <2>2 DEF Fits
  <2>4. Lowest(F) = 1
    BY <2>3 DEF Lowest
  <2>5. g = PackAllocate(k, a)
    <3>1. h.slots[i][1] = a
      BY <2>2
    <3>2. g = IterativeAllocate(h, i, need, limit)
      BY <1>2, Zenon DEF MallocListed
    <3> QED
      BY <2>4, <3>1, <3>2, Zenon DEF IterativeAllocate
  <2> HIDE DEF i, F
  <2>6. Taken(k, a, t) /\ k.mem = h.mem
    BY <2>2, UnlinkLemma, ZenonT(60) DEF Lively
  <2> HIDE DEF k, g
  <2>7. g.ret = a + 8 /\ g.mem = AllocatedIn(h.mem, a)
    BY <2>5, <2>6, Zenon DEF PackAllocate, Taken, Fields
  <2>8. Cut(g.mem, h.mem, a, h.mem[a].size)
    BY <2>2, <2>6, <2>7, AllocatedCut, Zenon DEF Taken
  <2>9. t >= t
    OBVIOUS
  <2> QED
    BY <2>2, <2>3, <2>6, <2>7, <2>8, <2>9, ListedSpares, CutGrants, Zenon
       DEF Taken, g
<1>3. CASE F = {}
  <2>1. g = NextAllocate(h, i, need, all, ok)
    BY <1>3, Zenon DEF MallocListed
  <2> QED
    BY <2>1, NextAllocateGrants, Zenon
<1> QED
  BY <1>2, <1>3, Zenon

(* malloc_tiny for more than 32 bytes grants at most 8 bytes less than is  *)
(* needed: the slots are 16 bytes wide and sizes are multiples of 8.       *)
LEMMA MallocTinyGrants ==
  ASSUME NEW h, NEW t \in Nat, Lively(h, t), Aligned(h.mem), h.stop = "no",
         NEW size \in Nat, size > 32, size <= 512, size % 8 = 0,
         NEW all \in BOOLEAN, NEW ok \in BOOLEAN,
         MallocTiny(h, size, all, ok).stop = "no"
  PROVE  Grants(MallocTiny(h, size, all, ok), h, t, size - 8)
<1> DEFINE i    == (size - 1) \div 16
           need == (i + 1) * 16
           g    == MallocTiny(h, size, all, ok)
<1>1. /\ i = GetIndex(size) /\ i = GetIndex(need)
      /\ need \in Nat /\ need > 32 /\ need <= 512 /\ need <= HUGE_MAX
      /\ size <= HUGE_MAX /\ need % 8 = 0 /\ need >= size - 8 /\ size - 8 \in Nat
  BY DEF GetIndex, HUGE_MAX
<1>2. i \in SlotIds \ {1}
  BY <1>1, IndexRange
<1>3. CASE h.slots[i] # <<>>
  <2>1. PICK a \in DOMAIN h.mem : /\ IsFree(h.mem, a)
                                 /\ GetIndex(h.mem[a].size) = i
                                 /\ h.slots[i] = <<a>> /\ a \in Nat
                                 /\ h.mem[a].size \in Nat
                                 /\ h.mem[a].size > 32
    BY <1>2, <1>3, ListedChunk, Zenon
  <2> DEFINE k == Unlink(h, i, 1)
  <2>2. g = PackAllocate(k, a)
    <3>1. h.slots[i][1] = a
      BY <2>1
    <3>2. g = PackAllocate(ListExtract(h, i), h.slots[i][1])
      BY <1>3 DEF MallocTiny
    <3> QED
      BY <3>1, <3>2, Zenon DEF ListExtract
  <2>3. h.mem[a].size >= size - 8
    <3>1. t = a + h.mem[a].size /\ t \in DOMAIN h.mem
      BY <2>1, Zenon DEF Lively, Chain, Geometry, IsFree
    <3>2. a % 8 = 0 /\ t % 8 = 0
      BY <3>1, Zenon DEF Aligned
    <3>3. h.mem[a].size % 8 = 0
      BY <2>1, <3>1, <3>2
    <3> DEFINE s == h.mem[a].size
    <3> HIDE DEF s
    <3>4. s \in Nat /\ s > 32 /\ s % 8 = 0 /\ GetIndex(s) = (size - 1) \div 16
      BY <2>1, <3>3, Zenon DEF s
    <3>5. s >= size - 8
      BY <3>4 DEF GetIndex
    <3> QED
      BY <3>5, Zenon DEF s
  <2> HIDE DEF i
  <2>4. Taken(k, a, t) /\ k.mem = h.mem
    BY <2>1, UnlinkLemma, ZenonT(60) DEF Lively
  <2> HIDE DEF k, g
  <2>5. g.ret = a + 8 /\ g.mem = AllocatedIn(h.mem, a)
    BY <2>2, <2>4, Zenon DEF PackAllocate, Taken, Fields
  <2>6. Cut(g.mem, h.mem, a, h.mem[a].size)
    BY <2>1, <2>4, <2>5, AllocatedCut, Zenon DEF Taken
  <2>7. t >= t
    OBVIOUS
  <2> QED
    BY <1>1, <2>1, <2>3, <2>4, <2>5, <2>6, <2>7, ListedSpares, CutGrants, Zenon
       DEF Taken, g
<1>4. CASE h.slots[i] = <<>>
  <2>1. g = NextAllocate(h, i, need, all, ok)
    BY <1>4 DEF MallocTiny
  <2> HIDE DEF i, need
  <2>2. Grants(g, h, t, need)
    BY <1>1, <2>1, NextAllocateGrants, Zenon DEF g
  <2> HIDE DEF g
  <2>3. Grants(g, h, t, size - 8)
    <3>1. ASSUME g.ret # 0 PROVE g.mem[g.ret - 8].size >= size - 8
      <4>1. g.mem[g.ret - 8].size \in Nat /\ g.mem[g.ret - 8].size >= need
        BY <2>2, <3>1, Zenon DEF Grants
      <4> QED
        BY <1>1, <4>1
    <3> QED
      BY <2>2, <3>1, Zenon DEF Grants
  <2> QED
    BY <2>3, Zenon DEF g
<1> QED
  BY <1>3, <1>4, Zenon
-----------------------------------------------------------------------------
(* Chunks do not meet. *)
LEMMA Apart ==
  ASSUME NEW h, NEW t \in Nat, Lively(h, t),
         NEW p \in DOMAIN h.mem \ {t}, NEW q \in DOMAIN h.mem \ {t}, p # q
  PROVE  /\ p \in Nat /\ q \in Nat /\ h.mem[p].size \in Nat
         /\ h.mem[q].size \in Nat
         /\ p + h.mem[p].size <= q \/ q + h.mem[q].size <= p
<1>1. /\ p \in Nat /\ q \in Nat /\ h.mem[p].size \in Nat /\ h.mem[q].size \in Nat
  BY Zenon DEF Lively, IsMem, PackRecords
<1>2. /\ ~(p < q /\ q < p + h.mem[p].size) /\ ~(q < p /\ p < q + h.mem[q].size)
  BY Zenon DEF Lively, Chain, Geometry
<1> QED
  BY <1>1, <1>2

(* The cells of a fast page are inside its chunk. *)
LEMMA CellInside ==
  ASSUME NEW h, NEW t \in Nat, Lively(h, t), PageInv(h, t),
         NEW p \in DOMAIN h.pages, NEW c \in AllCellIds
  PROVE  /\ p \in DOMAIN h.mem \ {t} /\ p \in Nat /\ h.mem[p].size \in Nat
         /\ CellData(p, c) \in Nat
         /\ CellData(p, c) >= p + 56
         /\ CellData(p, c) + 24 <= p + h.mem[p].size
<1>1. p \in DOMAIN h.mem \ {t} /\ h.mem[p].size >= FastBytes
  BY Zenon DEF PageInv, PageAt
<1>2. p \in Nat /\ h.mem[p].size \in Nat
  <2>1. DOMAIN h.mem \subseteq Nat /\ \A x \in DOMAIN h.mem : h.mem[x] \in PackRecords
    BY Zenon DEF Lively, IsMem
  <2> QED
    BY <1>1, <2>1 DEF PackRecords
<1>3. c \in 0 .. 127
  BY UmmallocAssumption DEF AllCellIds, LowCells, HighCells
<1> QED
  BY <1>1, <1>2, <1>3 DEF CellData, FastBytes

(* A pointer to a cell tells the page and the cell. *)
LEMMA CellUnique ==
  ASSUME NEW h, NEW t \in Nat, Lively(h, t), PageInv(h, t),
         NEW p \in DOMAIN h.pages, NEW c \in AllCellIds,
         NEW q \in DOMAIN h.pages, NEW d \in AllCellIds,
         CellData(p, c) = CellData(q, d)
  PROVE  p = q /\ c = d
<1>1. /\ p \in DOMAIN h.mem \ {t} /\ p \in Nat /\ h.mem[p].size \in Nat
      /\ CellData(p, c) \in Nat /\ CellData(p, c) >= p + 56
      /\ CellData(p, c) + 24 <= p + h.mem[p].size
  BY CellInside, Zenon
<1>2. /\ q \in DOMAIN h.mem \ {t} /\ q \in Nat /\ h.mem[q].size \in Nat
      /\ CellData(q, d) >= q + 56
      /\ CellData(q, d) + 24 <= q + h.mem[q].size
  BY CellInside, Zenon
<1>3. p # q => p + h.mem[p].size <= q \/ q + h.mem[q].size <= p
  BY <1>1, <1>2, Apart, Zenon
<1>4. p = q
  BY <1>1, <1>2, <1>3
<1>5. c \in Int /\ d \in Int
  BY DEF AllCellIds, LowCells, HighCells
<1> QED
  BY <1>1, <1>4, <1>5 DEF CellData

(* A chunk that is not a fast page starts at no cell. *)
LEMMA CellNotChunk ==
  ASSUME NEW h, NEW t \in Nat, Lively(h, t), PageInv(h, t),
         NEW p \in DOMAIN h.pages, NEW c \in AllCellIds,
         NEW a \in DOMAIN h.mem \ {t}
  PROVE  a # CellData(p, c) - 8
<1>1. /\ p \in DOMAIN h.mem \ {t} /\ p \in Nat /\ h.mem[p].size \in Nat
      /\ CellData(p, c) \in Nat /\ CellData(p, c) >= p + 56
      /\ CellData(p, c) + 24 <= p + h.mem[p].size
  BY CellInside, Zenon
<1>2. a \in Nat /\ ~(p < a /\ a < p + h.mem[p].size)
  BY <1>1, Zenon DEF Lively, Chain, Geometry, IsMem
<1> QED
  BY <1>1, <1>2
-----------------------------------------------------------------------------
(* What is said of pages and blocks survives a grant. *)
LEMMA GrantKeeps ==
  ASSUME NEW h, NEW g, NEW t \in Nat, NEW u \in Nat, Lively(h, t), Lively(g, u),
         NEW n, Grants(g, h, t, n), PageInv(h, t),
         g.pages = h.pages, g.full = h.full, g.slots[1] = h.slots[1]
  PROVE  /\ PageInv(g, u)
         /\ \A b : Whole(h, t, b) => Whole(g, u, b)
         /\ \A b : InCell(h, b) => InCell(g, b)
<1>1. PICK v \in DOMAIN g.mem : v >= t
  BY Zenon DEF Grants
<1>2. u >= t
  <2>1. v \in Nat /\ (v < u \/ v = u)
    BY Zenon DEF Lively, Chain, Geometry, IsMem
  <2> QED
    BY <1>1, <2>1
<1>3. \A x \in DOMAIN h.mem \ {t} :
        ~IsFree(h.mem, x) => /\ x \in DOMAIN g.mem \ {u} /\ ~IsFree(g.mem, x)
                             /\ g.mem[x].size = h.mem[x].size
  <2>1. \A x \in DOMAIN h.mem \ {t} : x \in Nat /\ x < t
    BY Zenon DEF Lively, Chain, Geometry, IsMem
  <2>2. \A x \in DOMAIN h.mem \ {t} : x # u
    BY <1>2, <2>1
  <2> QED
    BY <2>2, Zenon DEF Grants
<1>4. PageInv(g, u)
  BY <1>3 DEF PageInv, PageAt
<1>5. ASSUME NEW b, Whole(h, t, b) PROVE Whole(g, u, b)
  BY <1>3, <1>5, Zenon DEF Whole
<1> QED
  BY <1>4, <1>5, Zenon DEF InCell

(* The chunk granted is new: neither a fast page nor a block of the        *)
(* client's.                                                               *)
LEMMA GrantFresh ==
  ASSUME NEW h, NEW g, NEW t \in Nat, NEW u \in Nat, Lively(h, t), Lively(g, u),
         NEW n, Grants(g, h, t, n), PageInv(h, t),
         g.pages = h.pages, g.full = h.full, g.slots[1] = h.slots[1],
         g.ret \in Nat, g.ret # 0
  PROVE  /\ g.ret - 8 \in DOMAIN g.mem \ {u} /\ ~IsFree(g.mem, g.ret - 8)
         /\ g.ret - 8 \notin DOMAIN h.pages
         /\ \A b : Whole(h, t, b) => b.ptr - 8 # g.ret - 8
         /\ \A b : InCell(h, b) => b.ptr # g.ret
<1> DEFINE a == g.ret - 8
<1>1. /\ a \in DOMAIN g.mem /\ ~IsFree(g.mem, a)
      /\ a \in DOMAIN h.mem \ {t} => IsFree(h.mem, a)
      /\ \E v \in DOMAIN g.mem : v > a
  BY Zenon DEF Grants
<1>2. a # u
  <2>1. PICK v \in DOMAIN g.mem : v > a
    BY <1>1, Zenon
  <2>2. v \in Nat /\ (v < u \/ v = u) /\ a \in Nat
    BY <1>1, Zenon DEF Lively, Chain, Geometry, IsMem
  <2> HIDE DEF a
  <2> QED
    BY <2>1, <2>2
<1>3. a \notin DOMAIN h.pages
  <2> HIDE DEF a
  <2> QED
    BY <1>1, Zenon DEF PageInv, PageAt
<1>4. ASSUME NEW b, Whole(h, t, b) PROVE b.ptr - 8 # a
  BY <1>1, <1>4, Zenon DEF Whole
<1>5. ASSUME NEW b, InCell(h, b) PROVE b.ptr # g.ret
  <2>1. PageInv(g, u)
    BY GrantKeeps, Zenon
  <2>2. PICK p \in DOMAIN g.pages, c \in AllCellIds : b.ptr = CellData(p, c)
    BY <1>5, Zenon DEF InCell
  <2>3. a # CellData(p, c) - 8
    <3>1. a \in DOMAIN g.mem \ {u}
      BY <1>1, <1>2, Zenon
    <3> HIDE DEF a
    <3> QED
      BY <3>1, <2>1, <2>2, CellNotChunk
  <2> QED
    BY <2>2, <2>3, Zenon
<1> QED
  BY <1>1, <1>2, <1>3, <1>4, <1>5, Zenon
-----------------------------------------------------------------------------
(* g, with its tail at u, is as sound as h was, and every block of h is    *)
(* still one.                                                              *)
Keeps(g, u, h, t) ==
  /\ Aligned(g.mem) /\ PageInv(g, u)
  /\ \A b : Whole(h, t, b) => Whole(g, u, b)
  /\ \A b : InCell(h, b) => InCell(g, b)

(* The tail is known from the break. *)
LEMMA OneTail ==
  ASSUME NEW h, NEW g, NEW t \in Nat, NEW u \in Nat, Lively(h, t), Lively(g, u),
         g.brk = h.brk
  PROVE  u = t
BY Zenon DEF Lively, Base

(* A fresh page whose cells are all free goes to the empty slot 1. *)
LEMMA PageAdded ==
  ASSUME NEW k, NEW u \in Nat, PageInv(k, u), k.slots[1] = <<>>,
         NEW a \in DOMAIN k.mem \ {u}, ~IsFree(k.mem, a), a \notin DOMAIN k.pages,
         k.mem[a].size >= FastBytes,
         NEW g, g.mem = k.mem, g.slots[1] = <<a>>, g.full = k.full,
         DOMAIN g.pages = DOMAIN k.pages \cup {a},
         g.pages[a].free = AllCellIds, g.pages[a].count = 2 * Cells,
         \A p \in DOMAIN k.pages : g.pages[p] = k.pages[p]
  PROVE  /\ PageInv(g, u)
         /\ \A b : InCell(k, b) => InCell(g, b)
<1>1. Cardinality(AllCellIds) = 2 * Cells /\ AllCellIds # {}
  BY AllCells, Zenon DEF AllCellIds
<1>2. \A i \in DOMAIN k.full : k.full[i] \in DOMAIN k.pages
  BY DEF PageInv
<1>3. ASSUME NEW p \in DOMAIN k.pages PROVE PageAt(g, u, p)
  <2>1. PageAt(k, u, p)
    BY Zenon DEF PageInv
  <2>2. <<p>> # <<>> /\ <<a>> # <<p>> /\ g.pages[p] = k.pages[p]
    BY Zenon
  <2>3. k.pages[p].free = {} /\ \E i \in DOMAIN k.full : k.full[i] = p
    BY <2>1, <2>2, Zenon DEF PageAt
  <2> QED
    BY <2>1, <2>2, <2>3, Zenon DEF PageAt
<1>4. PageAt(g, u, a)
  <2>1. ~\E i \in DOMAIN g.full : g.full[i] = a
    BY <1>2
  <2>2. /\ g.pages[a].free \subseteq AllCellIds /\ g.pages[a].free # {}
        /\ g.pages[a].count = Cardinality(g.pages[a].free)
    BY <1>1, Zenon
  <2> QED
    BY <2>1, <2>2, Zenon DEF PageAt
<1>5. g.full \in Seq(DOMAIN g.pages)
  BY DEF PageInv
<1>6. PageInv(g, u)
  BY <1>3, <1>4, <1>5, Zenon DEF PageInv
<1>7. ASSUME NEW b, InCell(k, b) PROVE InCell(g, b)
  <2>1. PICK p \in DOMAIN k.pages, c \in AllCellIds :
          c \notin k.pages[p].free /\ b.ptr = CellData(p, c)
    BY <1>7, Zenon DEF InCell
  <2>2. p \in DOMAIN g.pages /\ c \in AllCellIds \ g.pages[p].free
    BY <2>1, Zenon
  <2> QED
    BY <1>7, <2>1, <2>2, Zenon DEF InCell
<1> QED
  BY <1>6, <1>7, Zenon

(* fast_bin_reserve keeps the blocks. *)
LEMMA FastBinReserveKeeps ==
  ASSUME NEW h, NEW t \in Nat, Lively(h, t), h.stop = "no",
         Aligned(h.mem), PageInv(h, t),
         NEW all \in BOOLEAN, NEW ok \in BOOLEAN,
         NEW g, g = FastBinReserve(h, all, ok), g.stop = "no",
         NEW u \in Nat, Lively(g, u)
  PROVE  Keeps(g, u, h, t)
<1> DEFINE k == MallocHuge(h, 4096 + 48, all, ok)
           a == k.ret - 8
<1>1. CASE h.slots[1] # <<>>
  <2>1. g = h
    BY <1>1 DEF FastBinReserve
  <2>2. u = t
    BY <2>1, OneTail, Zenon
  <2> QED
    BY <2>1, <2>2, Zenon DEF Keeps
<1>2. CASE h.slots[1] = <<>>
  <2>1. k = MallocListed(h, 4096 + 48, 8, all, ok)
    BY DEF MallocHuge
  <2>2. /\ 4096 + 48 \in Nat /\ 4096 + 48 > 32 /\ 4096 + 48 <= HUGE_MAX
        /\ (4096 + 48) % 8 = 0 /\ 8 \in Nat /\ 8 > 0
    BY DEF HUGE_MAX
  <2>3. Served(k, h)
    BY <2>1, <2>2, MallocListedLemma
  <2>4. k.ret # 0
    <3>1. ASSUME k.ret = 0 PROVE FALSE
      <4>1. g = [k EXCEPT !.stop = "fault"]
        BY <1>2, <3>1 DEF FastBinReserve
      <4> HIDE DEF k
      <4>2. g.stop = "fault"
        BY <2>3, <4>1 DEF Served, Typed, Fields
      <4> QED
        BY <4>2
    <3> QED
      BY <3>1
  <2> DEFINE page == [count |-> 2 * Cells, free |-> LowCells \cup HighCells]
  <2>5. g = [k EXCEPT !.slots = [k.slots EXCEPT ![1] = <<a>> \o k.slots[1]],
                      !.pages = Put(k.pages, a, page)]
    BY <1>2, <2>4 DEF FastBinReserve
  <2>6. k.ret \in Nat /\ a \in Nat /\ k.slots[1] = <<>>
    BY <1>2, <2>3, <2>4 DEF Served, Typed
  <2> HIDE DEF k
  <2>7. /\ g.mem = k.mem /\ g.brk = k.brk /\ g.stop = k.stop /\ g.full = k.full
        /\ g.slots = [k.slots EXCEPT ![1] = <<a>> \o k.slots[1]]
        /\ g.pages = Put(k.pages, a, page)
    <3> HIDE DEF page, a
    <3> QED
      BY <2>3, <2>5 DEF Served, Typed, Fields
  <2>8. g.slots[1] = <<a>>
    <3> HIDE DEF a
    <3>1. 1 \in SlotIds /\ <<a>> \o <<>> = <<a>>
      BY <2>6 DEF SlotIds, NSLOTS
    <3>2. DOMAIN k.slots = SlotIds
      BY <2>3 DEF Served, Typed, IsSlots
    <3> QED
      BY <2>6, <2>7, <3>1, <3>2
  <2>9. PICK v \in Nat : Lively(k, v)
    BY <2>3, <2>7 DEF Served
  <2>10. Lively(k, u)
    <3>1. u = v
      BY <2>7, <2>9, OneTail, Zenon
    <3> QED
      BY <2>9, <3>1
  <2>11. Grants(k, h, t, FastBytes)
    BY <2>1, <2>2, <2>7, MallocListedGrants DEF FastBytes
  <2>12. k.pages = h.pages /\ k.full = h.full /\ k.slots[1] = h.slots[1]
    BY <2>3, Zenon DEF Served
  <2>13. /\ PageInv(k, u)
         /\ \A b : Whole(h, t, b) => Whole(k, u, b)
         /\ \A b : InCell(h, b) => InCell(k, b)
    BY <2>10, <2>11, <2>12, GrantKeeps, Zenon
  <2>14. /\ a \in DOMAIN k.mem \ {u} /\ ~IsFree(k.mem, a)
         /\ a \notin DOMAIN k.pages
         /\ \A b : Whole(h, t, b) => b.ptr - 8 # a
    BY <2>4, <2>6, <2>10, <2>11, <2>12, GrantFresh, Zenon
  <2>15. Aligned(k.mem) /\ k.mem[a].size >= FastBytes
    BY <2>4, <2>11, Zenon DEF Grants
  <2> HIDE DEF a
  <2>17. /\ DOMAIN g.pages = DOMAIN k.pages \cup {a}
         /\ g.pages[a] = page
         /\ \A p \in DOMAIN k.pages : g.pages[p] = k.pages[p]
    <3> HIDE DEF page
    <3> QED
      BY <2>7, <2>14, Zenon DEF Put
  <2>19. g.pages[a].free = AllCellIds /\ g.pages[a].count = 2 * Cells
    BY <2>17 DEF AllCellIds
  <2> HIDE DEF page
  <2>20. PageInv(g, u) /\ \A b : InCell(k, b) => InCell(g, b)
    BY <2>6, <2>7, <2>8, <2>13, <2>14, <2>15, <2>17, <2>19, PageAdded, ZenonT(60)
  <2>18. ASSUME NEW b, Whole(h, t, b) PROVE Whole(g, u, b)
    <3>1. Whole(k, u, b) /\ b.ptr - 8 # a
      BY <2>13, <2>14, <2>18, Zenon
    <3>2. b.ptr - 8 \notin DOMAIN k.pages
      BY <3>1, Zenon DEF Whole
    <3>3. b.ptr - 8 \notin DOMAIN g.pages
      BY <2>17, <3>1, <3>2, Zenon
    <3> QED
      BY <2>7, <3>1, <3>3, Zenon DEF Whole
  <2> QED
    BY <2>7, <2>13, <2>15, <2>18, <2>20, Zenon DEF Keeps
<1> QED
  BY <1>1, <1>2

Listed(p, s) == \E k \in DOMAIN s : s[k] = p

(* f is s with a in front. *)
Pushed(f, a, s) == f = <<a>> \o s

(* The elements of a list with one more in front. *)
LEMMA Prepended ==
  ASSUME NEW S, NEW s \in Seq(S), NEW a \in S, NEW f, Pushed(f, a, s)
  PROVE  /\ f \in Seq(S)
         /\ Listed(a, f)
         /\ \A p \in S \ {a} : Listed(p, s) <=> Listed(p, f)
<1>1. Len(s) \in Nat /\ DOMAIN s = 1 .. Len(s) /\ <<a>> \in Seq(S)
  OBVIOUS
<1>2. f \in Seq(S) /\ Len(f) = Len(s) + 1
  BY <1>1 DEF Pushed
<1>3. DOMAIN f = 1 .. Len(s) + 1
  BY <1>2
<1>4. f[1] = a /\ \A k \in 1 .. Len(s) : f[k + 1] = s[k]
  BY <1>1 DEF Pushed
<1>5. 1 \in DOMAIN f
  BY <1>1, <1>3
<1>6. ASSUME NEW p \in S \ {a}, NEW k \in DOMAIN s, s[k] = p
      PROVE  \E j \in DOMAIN f : f[j] = p
  <2>1. k + 1 \in DOMAIN f /\ f[k + 1] = p
    BY <1>1, <1>3, <1>4, <1>6
  <2> QED
    BY <2>1, Zenon
<1>7. ASSUME NEW p \in S \ {a}, NEW k \in DOMAIN f, f[k] = p
      PROVE  \E j \in DOMAIN s : s[j] = p
  <2>1. k # 1 /\ k \in 1 .. Len(s) + 1
    BY <1>3, <1>4, <1>7, Zenon
  <2>2. k - 1 \in 1 .. Len(s) /\ (k - 1) + 1 = k
    BY <1>1, <2>1
  <2>3. k - 1 \in DOMAIN s /\ s[k - 1] = p
    BY <1>1, <1>4, <1>7, <2>2
  <2> QED
    BY <2>3, Zenon
<1> QED
  BY <1>2, <1>4, <1>5, <1>6, <1>7, Zenon DEF Listed

(* g is h with the cell of the page a in slot 1 taken. *)
Marked(g, h, a, cell) ==
  /\ g.mem = h.mem /\ DOMAIN g.pages = DOMAIN h.pages
  /\ \A p \in DOMAIN h.pages \ {a} : g.pages[p] = h.pages[p]
  /\ g.pages[a].free = h.pages[a].free \ {cell}
  /\ g.pages[a].count = Cardinality(h.pages[a].free \ {cell})
  /\ \/ /\ g.pages[a].free = {}
        /\ g.slots[1] = <<>> /\ Pushed(g.full, a, h.full)
     \/ /\ g.pages[a].free # {}
        /\ g.slots[1] = <<a>> /\ g.full = h.full

(* fast_allocate takes one cell of the page in slot 1, and moves the page  *)
(* to fast_full with its last one.                                         *)
LEMMA CellMarked ==
  ASSUME NEW h, NEW t \in Nat, PageInv(h, t),
         NEW a \in DOMAIN h.pages, h.slots[1] = <<a>>,
         NEW cell \in h.pages[a].free, NEW g, Marked(g, h, a, cell)
  PROVE  /\ PageInv(g, t)
         /\ \A b : Whole(h, t, b) => Whole(g, t, b)
         /\ \A b : InCell(h, b) => InCell(g, b)
<1> USE DEF Marked
<1>1. PageAt(h, t, a) /\ \A p \in DOMAIN h.pages : PageAt(h, t, p)
  BY Zenon DEF PageInv
<1>2. /\ g.full \in Seq(DOMAIN g.pages)
      /\ \A p \in DOMAIN h.pages \ {a} :
           (\E k \in DOMAIN h.full : h.full[k] = p)
             <=> \E k \in DOMAIN g.full : g.full[k] = p
      /\ Pushed(g.full, a, h.full) => \E k \in DOMAIN g.full : g.full[k] = a
  <2>1. h.full \in Seq(DOMAIN h.pages)
    BY Zenon DEF PageInv
  <2>2. CASE g.full = h.full /\ ~Pushed(g.full, a, h.full)
    BY <2>1, <2>2, Zenon
  <2>3. CASE Pushed(g.full, a, h.full)
    <3>1. /\ g.full \in Seq(DOMAIN h.pages) /\ Listed(a, g.full)
          /\ \A p \in DOMAIN h.pages \ {a} : Listed(p, h.full) <=> Listed(p, g.full)
      <4> HIDE DEF Marked
      <4> QED
        BY <2>1, <2>3, Prepended, Zenon
    <3> QED
      BY <3>1, Zenon DEF Listed
  <2> QED
    BY <2>2, <2>3, Zenon
<1>3. ASSUME NEW p \in DOMAIN h.pages \ {a} PROVE PageAt(g, t, p)
  <2>1. <<p>> # <<a>> /\ <<p>> # <<>>
    OBVIOUS
  <2>2. PageAt(h, t, p) /\ g.pages[p] = h.pages[p]
    BY <1>1, Zenon
  <2>3. h.pages[p].free = {}
    BY <2>1, <2>2, Zenon DEF PageAt
  <2>4. ~(g.slots[1] = <<p>>) /\ ~(h.slots[1] = <<p>>)
    BY <2>1, Zenon
  <2>5. \E k \in DOMAIN g.full : g.full[k] = p
    BY <1>2, <2>2, <2>3, Zenon DEF PageAt
  <2> QED
    BY <2>2, <2>3, <2>4, <2>5, Zenon DEF PageAt
<1>4. PageAt(g, t, a)
  <2>1. /\ g.pages[a].free \subseteq AllCellIds
        /\ g.pages[a].count = Cardinality(g.pages[a].free)
    BY <1>1, Zenon DEF PageAt
  <2>2. ~\E k \in DOMAIN h.full : h.full[k] = a
    BY <1>1, Zenon DEF PageAt
  <2>3. <<a>> # <<>>
    OBVIOUS
  <2>4. /\ g.pages[a].free # {} <=> g.slots[1] = <<a>>
        /\ g.pages[a].free = {} <=> \E k \in DOMAIN g.full : g.full[k] = a
    BY <1>2, <2>2, <2>3, Zenon
  <2> QED
    BY <1>1, <2>1, <2>4, Zenon DEF PageAt
<1>5. PageInv(g, t)
  BY <1>2, <1>3, <1>4, Zenon DEF PageInv
<1>6. ASSUME NEW b, Whole(h, t, b) PROVE Whole(g, t, b)
  BY <1>6, Zenon DEF Whole
<1>7. ASSUME NEW b, InCell(h, b) PROVE InCell(g, b)
  <2>1. PICK p \in DOMAIN h.pages, c \in AllCellIds :
          c \notin h.pages[p].free /\ b.ptr = CellData(p, c)
    BY <1>7, Zenon DEF InCell
  <2>2. p \in DOMAIN g.pages /\ c \in AllCellIds \ g.pages[p].free
    BY <2>1, Zenon
  <2> QED
    BY <1>7, <2>1, <2>2, Zenon DEF InCell
<1> QED
  BY <1>5, <1>6, <1>7, Zenon

(* The cell taken belongs to nobody else. *)
LEMMA CellFresh ==
  ASSUME NEW h, NEW t \in Nat, Lively(h, t), PageInv(h, t),
         NEW a \in DOMAIN h.pages, NEW cell \in h.pages[a].free,
         cell \in AllCellIds
  PROVE  /\ \A b : Whole(h, t, b) => b.ptr - 8 # CellData(a, cell) - 8
         /\ \A b : InCell(h, b) => b.ptr # CellData(a, cell)
<1>1. ASSUME NEW b, Whole(h, t, b) PROVE b.ptr - 8 # CellData(a, cell) - 8
  <2>1. b.ptr - 8 \in DOMAIN h.mem \ {t}
    BY <1>1, Zenon DEF Whole
  <2> QED
    BY <2>1, CellNotChunk
<1>2. ASSUME NEW b, InCell(h, b) PROVE b.ptr # CellData(a, cell)
  <2>1. PICK p \in DOMAIN h.pages, c \in AllCellIds :
          c \notin h.pages[p].free /\ b.ptr = CellData(p, c)
    BY <1>2, Zenon DEF InCell
  <2>2. CellData(p, c) = CellData(a, cell) => p = a /\ c = cell
    BY <2>1, CellUnique
  <2> QED
    BY <2>1, <2>2, Zenon
<1> QED
  BY <1>1, <1>2, Zenon

(* fast_allocate keeps the blocks and answers with a cell of nobody's. *)
LEMMA FastAllocateKeeps ==
  ASSUME NEW h, NEW t \in Nat, Lively(h, t), Typed(h), h.stop = "no",
         PageOK(h.slots[1], h.pages), h.slots[1] # <<>>,
         Aligned(h.mem), PageInv(h, t), NEW g, g = FastAllocate(h)
  PROVE  /\ Keeps(g, t, h, t) /\ g.brk = h.brk
         /\ \A b : Whole(h, t, b) => b.ptr - 8 # g.ret - 8
         /\ \A b : InCell(h, b) => b.ptr # g.ret
         /\ \A b : b.ptr = g.ret /\ NeedOf(b.size) <= 32 => InCell(g, b)
<1>1. PICK a \in Nat : /\ h.slots[1] = <<a>> /\ a \in DOMAIN h.pages
                       /\ h.pages[a].free \subseteq LowCells \cup HighCells
                       /\ h.pages[a].count = Cardinality(h.pages[a].free)
                       /\ h.pages[a].free # {}
  BY Zenon DEF PageOK
<1> DEFINE free == h.pages[a].free
           count == h.pages[a].count
           cell == IF free \cap LowCells # {}
                   THEN Highest(free \cap LowCells)
                   ELSE Highest(free \cap HighCells)
           rest == IF count = 1 THEN DropAt(<<a>>, 1) ELSE <<a>>
           full == IF count = 1 THEN <<a>> \o h.full ELSE h.full
           page == [count |-> count - 1, free |-> free \ {cell}]
           bad  == (h.impossible \/ count = 0 \/ free = {})
<1>2. h.slots[1][1] = a
  BY <1>1
<1>3. /\ cell \in free
      /\ Cardinality(free \ {cell}) = Cardinality(free) - 1
      /\ Cardinality(free) = 1 <=> free \ {cell} = {}
  BY <1>1, CellTaken, ZenonT(60)
<1>4. rest = IF count = 1 THEN <<>> ELSE <<a>>
  BY <1>1 DEF DropAt
<1>5. g = [h EXCEPT !.slots = [h.slots EXCEPT ![1] = rest],
                    !.full = full,
                    !.pages = [h.pages EXCEPT ![a] = page],
                    !.impossible = bad,
                    !.ret = CellData(a, cell)]
  BY <1>1, <1>2, ZenonT(60) DEF FastAllocate
<1>6. page.count = count - 1 /\ page.free = free \ {cell}
  OBVIOUS
<1>7. full = IF count = 1 THEN <<a>> \o h.full ELSE h.full
  BY Zenon
<1> HIDE DEF rest, page, cell, bad, full
<1>8. /\ g.mem = h.mem /\ g.brk = h.brk /\ g.full = full
      /\ g.slots = [h.slots EXCEPT ![1] = rest]
      /\ g.pages = [h.pages EXCEPT ![a] = page]
      /\ g.ret = CellData(a, cell)
  BY <1>5 DEF Typed, Fields
<1>9. g.slots[1] = rest
  <2>1. 1 \in SlotIds
    BY DEF SlotIds, NSLOTS
  <2>2. DOMAIN h.slots = SlotIds
    BY DEF Typed, IsSlots
  <2> QED
    BY <1>8, <2>1, <2>2
<1>10. /\ DOMAIN g.pages = DOMAIN h.pages
       /\ \A p \in DOMAIN h.pages \ {a} : g.pages[p] = h.pages[p]
       /\ g.pages[a] = page
  BY <1>1, <1>8
<1>11. count = Cardinality(free)
  BY <1>1
<1>12. /\ g.pages[a].free = free \ {cell}
       /\ g.pages[a].count = Cardinality(free \ {cell})
  BY <1>3, <1>6, <1>10, <1>11, Zenon
<1> HIDE DEF count
<1>13. \/ /\ g.pages[a].free = {}
          /\ g.slots[1] = <<>> /\ Pushed(g.full, a, h.full)
       \/ /\ g.pages[a].free # {}
          /\ g.slots[1] = <<a>> /\ g.full = h.full
  <2>1. count = 1 <=> g.pages[a].free = {}
    BY <1>3, <1>11, <1>12, Zenon
  <2>2. CASE count = 1
    BY <1>4, <1>7, <1>8, <1>9, <2>1, <2>2 DEF Pushed
  <2>3. CASE count # 1
    BY <1>4, <1>7, <1>8, <1>9, <2>1, <2>3
  <2> QED
    BY <2>2, <2>3, Zenon
<1>14. /\ PageInv(g, t)
       /\ \A b : Whole(h, t, b) => Whole(g, t, b)
       /\ \A b : InCell(h, b) => InCell(g, b)
  <2>1. g.mem = h.mem
    BY <1>8, Zenon
  <2>2. Marked(g, h, a, cell)
    BY <2>1, <1>10, <1>12, <1>13, Zenon DEF Marked
  <2>3. a \in DOMAIN h.pages /\ h.slots[1] = <<a>> /\ cell \in h.pages[a].free
    BY <1>1, <1>3, Zenon
  <2> QED
    BY <2>2, <2>3, CellMarked, Zenon
<1>15. cell \in AllCellIds
  BY <1>1, <1>3 DEF AllCellIds
<1>16. /\ \A b : Whole(h, t, b) => b.ptr - 8 # g.ret - 8
       /\ \A b : InCell(h, b) => b.ptr # g.ret
  BY <1>1, <1>3, <1>8, <1>15, CellFresh
<1>17. ASSUME NEW b, b.ptr = g.ret, NeedOf(b.size) <= 32 PROVE InCell(g, b)
  <2>1. a \in DOMAIN g.pages /\ cell \in AllCellIds \ g.pages[a].free
    BY <1>1, <1>10, <1>12, <1>15, Zenon
  <2> QED
    BY <1>8, <1>17, <2>1 DEF InCell
<1> QED
  BY <1>8, <1>14, <1>16, <1>17, Zenon DEF Keeps

(* A number below the modulus is its own remainder. *)
LEMMA ModSmall ==
  ASSUME NEW m \in Nat \ {0}, NEW r \in 0 .. m - 1
  PROVE  r % m = r
<1> DEFINE d == r \div m
<1>1. r % m \in 0 .. m - 1 /\ d \in Int /\ r = m * d + (r % m)
  BY Z3
<1> HIDE DEF d
<1>2. CASE d >= 1
  BY <1>1, <1>2, Z3
<1>3. CASE d <= -1
  BY <1>1, <1>3, Z3
<1> QED
  BY <1>1, <1>2, <1>3

(* The size mm_malloc works with is a multiple of 8. *)
LEMMA NeedAligned ==
  ASSUME NEW size \in Sizes
  PROVE  NeedOf(size) % 8 = 0
<1>1. size \in Nat /\ Word \in Nat \ {0} /\ Word % 8 = 0
  BY UmmallocAssumption DEF HUGE_MAX
<1> DEFINE x == (size + 7) % Word
           y == (x \div 8) * 8 + 8
           w == Word \div 8
           d == y \div Word
<1>2. x \in Nat
  BY <1>1
<1>3. x \div 8 \in Int /\ y \in Int
  BY <1>2
<1>4. Word = 8 * w /\ w \in Int
  BY <1>1
<1>5. y % Word \in Int /\ d \in Int /\ y = Word * d + (y % Word)
  BY <1>1, <1>3, Z3
<1>6. NeedOf(size) = y % Word
  BY DEF NeedOf
<1> HIDE DEF x, w, d
<1>7. w * d \in Int /\ Word * d = 8 * (w * d)
  BY <1>4, <1>5
<1>8. y % Word = 8 * ((x \div 8) + 1 - w * d)
  <2> DEFINE q == x \div 8
             r == y % Word
             v == w * d
  <2>1. q \in Int /\ r \in Int /\ v \in Int /\ q * 8 + 8 = 8 * v + r
    BY <1>3, <1>5, <1>7
  <2> HIDE DEF q, r, v
  <2>2. r = 8 * (q + 1 - v)
    BY <2>1
  <2> QED
    BY <2>2 DEF q, r, v
<1>9. (x \div 8) + 1 - w * d \in Int
  BY <1>3, <1>7
<1> HIDE DEF y
<1> QED
  BY <1>6, <1>8, <1>9
-----------------------------------------------------------------------------
(* mm_malloc keeps every block, and its answer is a block of its own.      *)
LEMMA MmMallocKeeps ==
  ASSUME NEW h, HeapInv(h), h.stop = "no", NEW t \in Nat, Lively(h, t),
         Aligned(h.mem), PageInv(h, t), NEW size \in Sizes,
         NEW all \in BOOLEAN, NEW ok \in BOOLEAN,
         NEW g, g = MmMalloc(h, size, all, ok), g.stop = "no",
         NEW u \in Nat, Lively(g, u)
  PROVE  /\ Keeps(g, u, h, t)
         /\ g.ret # 0 =>
              /\ \A b : Whole(h, t, b) => b.ptr - 8 # g.ret - 8
              /\ \A b : InCell(h, b) => b.ptr # g.ret
              /\ \A b : b.ptr = g.ret /\ b.size = size => Whole(g, u, b) \/ InCell(g, b)
<1> DEFINE need == NeedOf(size)
<1>1. need \in Nat /\ need <= HUGE_MAX /\ need % 8 = 0
  BY NeedNat, NeedAligned, Zenon
<1>2. PageOK(h.slots[1], h.pages) /\ Typed(h)
  BY DEF HeapInv
<1> HIDE DEF need
<1>3. CASE need <= 32
  <2> DEFINE k == FastBinReserve(h, all, ok)
  <2>1. g = MallocFast(h, all, ok)
    BY <1>1, <1>3 DEF MmMalloc, MallocTiny, need
  <2>2. /\ Typed(k) /\ k.stop \in {"no", "fault"}
        /\ k.stop = "no" => /\ \E v \in Nat : Lively(k, v)
                            /\ PageOK(k.slots[1], k.pages)
                            /\ k.slots[1] # <<>>
    BY <1>2, FastBinReserveLemma
  <2>3. k.stop = "no" /\ g = FastAllocate(k)
    BY <2>1, Zenon DEF MallocFast
  <2>4. PICK v \in Nat : Lively(k, v)
    BY <2>2, <2>3
  <2>5. Keeps(k, v, h, t)
    BY <2>3, <2>4, FastBinReserveKeeps
  <2> HIDE DEF k
  <2>6. /\ Keeps(g, v, k, v) /\ g.brk = k.brk
        /\ \A b : Whole(k, v, b) => b.ptr - 8 # g.ret - 8
        /\ \A b : InCell(k, b) => b.ptr # g.ret
        /\ \A b : b.ptr = g.ret /\ NeedOf(b.size) <= 32 => InCell(g, b)
    <3>1. Aligned(k.mem) /\ PageInv(k, v)
      BY <2>5, Zenon DEF Keeps
    <3> QED
      BY <2>2, <2>3, <2>4, <3>1, FastAllocateKeeps, Zenon
  <2>7. u = v
    BY <2>4, <2>6, OneTail, Zenon
  <2>8. Keeps(g, u, h, t)
    BY <2>5, <2>6, <2>7, Zenon DEF Keeps
  <2>9. ASSUME NEW b PROVE /\ Whole(h, t, b) => b.ptr - 8 # g.ret - 8
                           /\ InCell(h, b) => b.ptr # g.ret
    BY <2>5, <2>6, Zenon DEF Keeps
  <2>10. ASSUME NEW b, b.ptr = g.ret, b.size = size PROVE InCell(g, b)
    BY <1>3, <2>6, <2>10, Zenon DEF need
  <2> QED
    BY <2>8, <2>9, <2>10, Zenon
<1>4. CASE need > 32
  <2>1. PICK n \in Nat : /\ Served(g, h) /\ Grants(g, h, t, n) /\ n >= need - 8
                         /\ need > 512 => n >= need
    <3>1. CASE need <= 512
      <4>1. g = MallocTiny(h, need, all, ok)
        BY <1>1, <3>1 DEF MmMalloc, need
      <4>2. need - 8 \in Nat
        BY <1>1, <1>4
      <4>3. Served(g, h)
        BY <1>1, <1>4, <3>1, <4>1, MallocTinyLemma, Zenon
      <4>4. Grants(g, h, t, need - 8)
        BY <1>1, <1>4, <3>1, <4>1, MallocTinyGrants
      <4>5. need - 8 >= need - 8 /\ ~(need > 512)
        BY <1>1, <3>1
      <4> QED
        BY <4>2, <4>3, <4>4, <4>5, Zenon
    <3>2. CASE need > 512
      <4>1. PICK limit \in {4, 8} : g = MallocListed(h, need, limit, all, ok)
        BY <1>1, <3>2 DEF MmMalloc, need, MallocHuge, MallocMiddle
      <4>2. limit \in Nat /\ limit > 0
        BY <4>1
      <4>3. Served(g, h)
        BY <1>1, <1>4, <4>1, <4>2, MallocListedLemma, Zenon
      <4>4. Grants(g, h, t, need)
        BY <1>1, <1>4, <4>1, <4>2, MallocListedGrants
      <4>5. need >= need - 8 /\ need >= need
        BY <1>1
      <4> QED
        BY <1>1, <4>3, <4>4, <4>5, Zenon
    <3> QED
      BY <1>1, <3>1, <3>2
  <2>2. /\ g.pages = h.pages /\ g.full = h.full /\ g.slots[1] = h.slots[1]
        /\ g.ret \in Nat
    BY <2>1, Zenon DEF Served, Typed
  <2>3. Aligned(g.mem)
    BY <2>1, Zenon DEF Grants
  <2>4. Keeps(g, u, h, t)
    BY <2>1, <2>2, <2>3, GrantKeeps, Zenon DEF Keeps
  <2>5. ASSUME g.ret # 0
        PROVE  /\ \A b : Whole(h, t, b) => b.ptr - 8 # g.ret - 8
               /\ \A b : InCell(h, b) => b.ptr # g.ret
               /\ \A b : b.ptr = g.ret /\ b.size = size => Whole(g, u, b)
    <3>1. /\ g.ret - 8 \in DOMAIN g.mem \ {u} /\ ~IsFree(g.mem, g.ret - 8)
          /\ g.ret - 8 \notin DOMAIN h.pages
          /\ \A b : Whole(h, t, b) => b.ptr - 8 # g.ret - 8
          /\ \A b : InCell(h, b) => b.ptr # g.ret
      BY <2>1, <2>2, <2>5, GrantFresh, Zenon
    <3>2. g.mem[g.ret - 8].size \in Nat /\ g.mem[g.ret - 8].size >= n
      BY <2>1, <2>5, Zenon DEF Grants
    <3>3. /\ g.mem[g.ret - 8].size >= need - 8
          /\ need > 512 => g.mem[g.ret - 8].size >= need
      <4> DEFINE s == g.mem[g.ret - 8].size
      <4>1. s \in Nat /\ s >= n
        BY <3>2
      <4> HIDE DEF s
      <4>2. s >= need - 8 /\ (need > 512 => s >= need)
        BY <1>1, <2>1, <4>1
      <4> QED
        BY <4>2 DEF s
    <3>4. ASSUME NEW b, b.ptr = g.ret, b.size = size PROVE Whole(g, u, b)
      BY <2>2, <3>1, <3>3, <3>4, Zenon DEF Whole, need
    <3> QED
      BY <3>1, <3>4, Zenon
  <2> QED
    BY <2>4, <2>5, Zenon
<1> QED
  BY <1>1, <1>3, <1>4

(* mm_malloc serves, refuses or faults. *)
LEMMA MmMallocStops ==
  ASSUME NEW h, HeapInv(h), h.stop = "no", NEW size \in Sizes,
         NEW all \in BOOLEAN, NEW ok \in BOOLEAN,
         NEW g, g = MmMalloc(h, size, all, ok)
  PROVE  g.stop \in {"no", "fault"}
<1> DEFINE need == NeedOf(size)
<1>1. need \in Nat /\ need <= HUGE_MAX
  BY NeedNat
<1>2. PICK t \in Nat : Lively(h, t) /\ PageOK(h.slots[1], h.pages) /\ Typed(h)
  BY Zenon DEF HeapInv
<1> HIDE DEF need
<1>3. CASE need <= 32
  <2> DEFINE k == FastBinReserve(h, all, ok)
  <2>1. g = IF k.stop = "no" THEN FastAllocate(k) ELSE k
    BY <1>1, <1>3 DEF MmMalloc, MallocTiny, need, MallocFast
  <2>2. /\ Typed(k) /\ k.stop \in {"no", "fault"}
        /\ k.stop = "no" => /\ \E v \in Nat : Lively(k, v)
                            /\ PageOK(k.slots[1], k.pages)
                            /\ k.slots[1] # <<>>
    BY <1>2, FastBinReserveLemma
  <2> HIDE DEF k
  <2>3. CASE k.stop = "no"
    BY <2>1, <2>2, <2>3, FastAllocateLemma
  <2> QED
    BY <2>1, <2>2, <2>3, Zenon
<1>4. CASE need > 32 /\ need <= 512
  <2>1. g = MallocTiny(h, need, all, ok)
    BY <1>1, <1>4 DEF MmMalloc, need
  <2> QED
    BY <1>1, <1>2, <1>4, <2>1, MallocTinyLemma DEF Served
<1>5. CASE need > 512
  <2>1. PICK limit \in {4, 8} : g = MallocListed(h, need, limit, all, ok)
    BY <1>1, <1>5 DEF MmMalloc, need, MallocHuge, MallocMiddle
  <2>2. limit \in Nat /\ limit > 0 /\ need > 32
    BY <1>1, <1>5, <2>1
  <2> QED
    BY <1>1, <1>2, <2>1, <2>2, MallocListedLemma DEF Served
<1> QED
  BY <1>1, <1>3, <1>4, <1>5

(* mm_init lays two aligned headers down and answers nothing. *)
LEMMA MmAlignInitAligned ==
  ASSUME NEW h, HeapInv(h), h.stop = "init", NEW ok \in BOOLEAN,
         NEW g, g = MmAlignInit(h, ok)
  PROVE  /\ g.stop \in {"no", "fault"}
         /\ g.ret = h.ret /\ g.pages = h.pages /\ g.full = h.full
         /\ g.stop = "no" => Aligned(g.mem)
<1> DEFINE top  == PgRoundUp(h.brk + PAGE_SIZE)
           low  == ((h.brk + 7) \div 8) * 8 + 8
           l    == low - 8
           u    == top - 8
           size == top - low
           mem  == Put(Put(NoPacks, l, Pack(HEAD, size, {PREV_INUSE})),
                       u, Pack(size, 0, {THIS_INUSE}))
           k    == [h EXCEPT !.mem = mem, !.base = top, !.brk = top,
                             !.stop = "no"]
<1>1. CASE ~ok
  <2>1. g = [h EXCEPT !.stop = "fault"]
    BY <1>1 DEF MmAlignInit
  <2> QED
    BY <2>1, Zenon DEF HeapInv, Typed, Fields
<1>2. CASE ok
  <2>1. h.brk \in Nat /\ h.brk + PAGE_SIZE \in Nat
    BY DEF HeapInv, Typed, PAGE_SIZE
  <2>2. top \in Nat /\ top % PAGE_SIZE = 0
    BY <2>1, PageRound
  <2>3. l % 8 = 0
    BY <2>1
  <2>4. u % 8 = 0
    <3> HIDE DEF top
    <3> QED
      BY <2>2 DEF PAGE_SIZE
  <2>5. g = FreeChunk(k, l)
    BY <1>2 DEF MmAlignInit
  <2> HIDE DEF l, u, size, top
  <2>6. DOMAIN mem = {l, u}
    BY Zenon DEF Put, NoPacks
  <2> HIDE DEF mem
  <2>7. /\ DOMAIN k = Fields /\ k.mem = mem /\ k.stop = "no" /\ k.ret = h.ret
        /\ k.pages = h.pages /\ k.full = h.full
    BY Zenon DEF HeapInv, Typed, Fields
  <2> HIDE DEF k
  <2>8. /\ g.mem = k.mem /\ g.stop = k.stop /\ g.ret = k.ret
        /\ g.pages = k.pages /\ g.full = k.full
    BY <2>5, <2>7, FreeChunkFields
  <2> QED
    BY <2>3, <2>4, <2>6, <2>7, <2>8 DEF Aligned
<1> QED
  BY <1>1, <1>2, Zenon
-----------------------------------------------------------------------------
(* The client holds nothing before mm_init. *)
LEMMA BlocksInit == Init => BInv
BY DEF Init, BInv

(* mm_malloc gives a new block and keeps the others. *)
LEMMA MallocBlocks ==
  ASSUME IInv, IInv', BInv, NEW size \in Sizes, Malloc(size)
  PROVE  /\ BInv'
         /\ heap'.stop = "no" /\ heap'.ret # 0 =>
              /\ IsFiniteSet(blocks)
              /\ [ptr |-> heap'.ret, size |-> size] \notin blocks
<1> DEFINE nb == [ptr |-> heap'.ret, size |-> size]
<1>1. PICK all \in BOOLEAN, ok \in BOOLEAN : heap' = MmMalloc(heap, size, all, ok)
  BY DEF Malloc, SbrkOutcomes
<1>2. heap.stop = "no" /\ HeapInv(heap)
  BY DEF Malloc, IInv
<1>3. heap'.stop \in {"no", "fault"}
  BY <1>1, <1>2, MmMallocStops
<1>4. PICK t \in Nat : Lively(heap, t)
  BY <1>2 DEF HeapInv
<1>5. Aligned(heap.mem) /\ PageInv(heap, t) /\ BlockInv(heap, t, blocks)
  BY <1>2, <1>4, Zenon DEF BInv
<1>6. nb.ptr = heap'.ret /\ nb.size = size
  BY Zenon
<1>7. blocks' = IF heap'.stop = "no" /\ heap'.ret # 0
                THEN blocks \cup {nb} ELSE blocks
  BY DEF Malloc
<1> HIDE DEF nb
<1>8. ASSUME heap'.stop = "no", NEW u \in Nat, Lively(heap', u)
      PROVE  /\ Aligned(heap'.mem) /\ PageInv(heap', u)
             /\ BlockInv(heap', u, blocks')
             /\ heap'.ret # 0 => nb \notin blocks
  <2>1. /\ Keeps(heap', u, heap, t)
        /\ heap'.ret # 0 =>
             /\ \A b : Whole(heap, t, b) => b.ptr - 8 # heap'.ret - 8
             /\ \A b : InCell(heap, b) => b.ptr # heap'.ret
             /\ \A b : b.ptr = heap'.ret /\ b.size = size
                         => Whole(heap', u, b) \/ InCell(heap', b)
    BY <1>1, <1>2, <1>4, <1>5, <1>8, MmMallocKeeps
  <2>2. Aligned(heap'.mem) /\ PageInv(heap', u)
    BY <2>1, Zenon DEF Keeps
  <2>3. \A b \in blocks : Whole(heap', u, b) \/ InCell(heap', b)
    BY <1>5, <2>1, Zenon DEF Keeps, BlockInv
  <2>4. CASE heap'.ret = 0
    <3>1. blocks' = blocks
      BY <1>7, <2>4, Zenon
    <3>2. BlockInv(heap', u, blocks)
      BY <1>5, <2>3, Zenon DEF BlockInv
    <3> QED
      BY <2>2, <2>4, <3>1, <3>2, Zenon
  <2>5. CASE heap'.ret # 0
    <3>1. blocks' = blocks \cup {nb}
      BY <1>7, <1>8, <2>5, Zenon
    <3>2. ASSUME NEW b \in blocks PROVE b.ptr # nb.ptr
      BY <1>5, <1>6, <2>1, <2>5, Zenon DEF BlockInv
    <3>3. IsFiniteSet(blocks \cup {nb})
      BY <1>5, FS_AddElement DEF BlockInv
    <3>4. Whole(heap', u, nb) \/ InCell(heap', nb)
      BY <1>6, <2>1, <2>5, Zenon
    <3>5. \A b, c \in blocks \cup {nb} : b.ptr = c.ptr => b = c
      BY <1>5, <3>2, Zenon DEF BlockInv
    <3>6. BlockInv(heap', u, blocks \cup {nb})
      BY <2>3, <3>3, <3>4, <3>5, Zenon DEF BlockInv
    <3> QED
      BY <2>2, <3>1, <3>2, <3>6, Zenon
  <2> QED
    BY <2>4, <2>5
<1>9. BInv'
  BY <1>3, <1>8, Zenon DEF BInv
<1>10. ASSUME heap'.stop = "no", heap'.ret # 0
       PROVE  IsFiniteSet(blocks) /\ nb \notin blocks
  <2>1. PICK u \in Nat : Lively(heap', u)
    BY <1>10 DEF IInv, HeapInv
  <2> QED
    BY <1>5, <1>8, <1>10, <2>1, Zenon DEF BlockInv
<1> QED
  BY <1>9, <1>10, Zenon DEF nb

(* Every action keeps the blocks where they are. *)
LEMMA BlocksNext == IInv /\ IInv' /\ BInv /\ [Next]_vars => BInv'
<1> SUFFICES ASSUME IInv, IInv', BInv, [Next]_vars PROVE BInv'
  OBVIOUS
<1>1. ASSUME NEW ok \in BOOLEAN, MmInit(ok) PROVE BInv'
  <2>1. /\ heap'.stop \in {"no", "fault"}
        /\ heap'.ret = heap.ret /\ heap'.pages = heap.pages /\ heap'.full = heap.full
        /\ heap'.stop = "no" => Aligned(heap'.mem)
    BY <1>1, MmAlignInitAligned DEF MmInit, IInv
  <2>2. heap.pages = NoPacks /\ heap.full = <<>> /\ blocks = {} /\ blocks' = {}
    BY <1>1 DEF MmInit, BInv
  <2>3. DOMAIN heap'.pages = {} /\ heap'.full \in Seq(DOMAIN heap'.pages)
    BY <2>1, <2>2 DEF NoPacks
  <2>4. \A u : PageInv(heap', u)
    BY <2>3 DEF PageInv
  <2>5. \A u : BlockInv(heap', u, blocks')
    BY <2>2, FS_EmptySet DEF BlockInv
  <2> QED
    BY <2>1, <2>4, <2>5 DEF BInv
<1>2. ASSUME NEW size \in Sizes, Malloc(size) PROVE BInv'
  BY <1>2, MallocBlocks, Zenon
<1>3. ASSUME NEW b \in blocks, Free(b) PROVE BInv'
  <2>1. heap' = heap /\ heap.stop = "no" /\ blocks' = blocks \ {b}
    BY <1>3, Zenon DEF Free
  <2>2. ASSUME NEW u, BlockInv(heap, u, blocks) PROVE BlockInv(heap, u, blocks \ {b})
    <3>1. IsFiniteSet(blocks \ {b})
      BY <2>2, FS_RemoveElement DEF BlockInv
    <3> QED
      BY <2>2, <3>1, Zenon DEF BlockInv
  <2> QED
    BY <2>1, <2>2 DEF BInv
<1>4. ASSUME NEW b \in blocks, NEW size \in Sizes, Realloc(b, size) PROVE BInv'
  <2>1. heap' = [heap EXCEPT !.ret = 0] /\ heap.stop = "no" /\ blocks' = blocks
    BY <1>4 DEF Realloc
  <2>2. DOMAIN heap = Fields
    BY DEF IInv, HeapInv, Typed
  <2>3. /\ DOMAIN heap' = Fields /\ heap'.mem = heap.mem
        /\ heap'.slots = heap.slots /\ heap'.bitmap = heap.bitmap
        /\ heap'.base = heap.base /\ heap'.brk = heap.brk
        /\ heap'.stop = "no" /\ heap'.impossible = heap.impossible
        /\ heap'.pages = heap.pages /\ heap'.full = heap.full
    BY <2>1, <2>2 DEF Fields
  <2>4. ASSUME NEW u \in Nat, Lively(heap', u)
        PROVE  /\ Aligned(heap'.mem) /\ PageInv(heap', u)
               /\ BlockInv(heap', u, blocks)
    <3>1. Lively(heap, u)
      BY <2>2, <2>3, <2>4, Zenon DEF Lively
    <3>2. Aligned(heap.mem) /\ PageInv(heap, u) /\ BlockInv(heap, u, blocks)
      BY <2>1, <3>1, Zenon DEF BInv
    <3>3. PageInv(heap', u)
      <4>1. ASSUME NEW p, PageAt(heap, u, p) PROVE PageAt(heap', u, p)
        BY <2>3, <4>1 DEF PageAt
      <4> QED
        BY <2>3, <3>2, <4>1, Zenon DEF PageInv
    <3>4. \A c : Whole(heap, u, c) => Whole(heap', u, c)
      BY <2>3, Zenon DEF Whole
    <3>5. \A c : InCell(heap, c) => InCell(heap', c)
      BY <2>3, Zenon DEF InCell
    <3>6. BlockInv(heap', u, blocks)
      BY <3>2, <3>4, <3>5, Zenon DEF BlockInv
    <3> QED
      BY <2>3, <3>2, <3>3, <3>6, Zenon
  <2> QED
    BY <2>1, <2>3, <2>4 DEF BInv
<1>5. ASSUME NEW b \in blocks, UseBlock(b) PROVE BInv'
  <2>1. heap'.stop = "clobbered"
    BY <1>5, Zenon DEF UseBlock, IInv, HeapInv, Typed, Fields
  <2> QED
    BY <2>1 DEF BInv
<1>6. CASE UNCHANGED vars
  BY <1>6 DEF vars, BInv
<1> QED
  BY <1>1, <1>2, <1>3, <1>4, <1>5, <1>6, Zenon DEF Next

(* Each block of the client's is a chunk or a cell of its own, in every    *)
(* state the allocator reaches.                                            *)
THEOREM BlocksHeld == Spec => [](IInv /\ BInv)
<1>1. Spec => []IInv
  BY Invariance
<1> QED
  BY <1>1, BlocksInit, BlocksNext, PTL DEF Spec

(* mm_malloc never answers with a block that the client already holds,     *)
(* however lists, splits, merges and cells served it.                      *)
THEOREM NewBlocksFresh == Spec => FreshBlock
<1>1. ASSUME IInv, IInv', BInv, [Next]_vars
      PROVE  [heap' # heap /\ heap'.stop = "no" /\ heap'.ret # 0
                => Cardinality(blocks') = Cardinality(blocks) + 1]_vars
  <2>1. ASSUME NEW ok \in BOOLEAN, MmInit(ok) PROVE heap'.ret = 0
    BY <1>1, <2>1, MmAlignInitAligned DEF MmInit, IInv, BInv
  <2>2. ASSUME NEW size \in Sizes, Malloc(size), heap'.stop = "no", heap'.ret # 0
        PROVE  Cardinality(blocks') = Cardinality(blocks) + 1
    <3> DEFINE nb == [ptr |-> heap'.ret, size |-> size]
    <3>1. IsFiniteSet(blocks) /\ nb \notin blocks
      BY <1>1, <2>2, MallocBlocks, Zenon
    <3>2. blocks' = blocks \cup {nb}
      BY <2>2 DEF Malloc
    <3> HIDE DEF nb
    <3> QED
      BY <3>1, <3>2, FS_AddElement
  <2>3. ASSUME NEW b \in blocks, Free(b) PROVE heap' = heap
    BY <2>3 DEF Free
  <2>4. ASSUME NEW b \in blocks, NEW size \in Sizes, Realloc(b, size)
        PROVE  heap'.ret = 0
    BY <1>1, <2>4 DEF Realloc, IInv, HeapInv, Typed, Fields
  <2>5. ASSUME NEW b \in blocks, UseBlock(b) PROVE heap'.stop = "clobbered"
    BY <1>1, <2>5 DEF UseBlock, IInv, HeapInv, Typed, Fields
  <2> QED
    BY <1>1, <2>1, <2>2, <2>3, <2>4, <2>5, Zenon DEF Next
<1>2. Spec => [](IInv /\ BInv)
  BY BlocksHeld
<1> QED
  BY <1>1, <1>2, PTL DEF Spec, FreshBlock

(* A fast page's count is that of its free cells, it is in slot 1 or on    *)
(* fast_full accordingly, and the client holds none of its free cells.     *)
THEOREM FastPagesRight == Spec => []FastPages
<1>1. IInv /\ BInv => FastPages
  <2> SUFFICES ASSUME IInv, BInv, heap.stop = "no", NEW p \in DOMAIN heap.pages
               PROVE  LET page == heap.pages[p] IN
                      /\ page.count = Cardinality(page.free)
                      /\ page.count > 0 <=> Listed(p, heap.slots[1])
                      /\ page.count = 0 <=> Listed(p, heap.full)
                      /\ \A c \in page.free, b \in blocks : b.ptr # CellData(p, c)
    BY DEF FastPages, Running, Listed
  <2>1. PICK t \in Nat : Lively(heap, t)
    BY Zenon DEF IInv, HeapInv
  <2>2. PageInv(heap, t) /\ BlockInv(heap, t, blocks)
    BY <2>1, Zenon DEF BInv
  <2>3. PageAt(heap, t, p)
    BY <2>2, Zenon DEF PageInv
  <2> DEFINE free == heap.pages[p].free
             count == heap.pages[p].count
  <2>4. /\ free \subseteq AllCellIds /\ count = Cardinality(free)
        /\ free # {} <=> heap.slots[1] = <<p>>
        /\ free = {} <=> Listed(p, heap.full)
    BY <2>3, Zenon DEF PageAt, Listed
  <2>5. IsFiniteSet(free)
    BY <2>4, AllCells, FS_Subset DEF AllCellIds
  <2>6. count \in Nat /\ (count = 0 <=> free = {})
    BY <2>4, <2>5, FS_EmptySet, FS_CardinalityType
  <2>7. heap.slots[1] = <<p>> <=> Listed(p, heap.slots[1])
    <3>1. heap.slots[1] = <<>> \/ \E a : heap.slots[1] = <<a>>
      BY DEF IInv, HeapInv, PageOK
    <3> QED
      BY <3>1 DEF Listed
  <2>8. ASSUME NEW c \in free, NEW b \in blocks PROVE b.ptr # CellData(p, c)
    <3>1. c \in AllCellIds
      BY <2>4
    <3>2. /\ Whole(heap, t, b) => b.ptr - 8 # CellData(p, c) - 8
          /\ InCell(heap, b) => b.ptr # CellData(p, c)
      BY <2>1, <2>2, <3>1, CellFresh
    <3>3. Whole(heap, t, b) \/ InCell(heap, b)
      BY <2>2, Zenon DEF BlockInv
    <3> QED
      BY <3>2, <3>3, Zenon
  <2> HIDE DEF count, free
  <2>9. count > 0 <=> count # 0
    BY <2>6
  <2> QED
    BY <2>4, <2>6, <2>7, <2>8, <2>9, Zenon DEF count, free
<1> QED
  BY <1>1, BlocksHeld, PTL

(* What mm_malloc works with covers the request and its header, unless the *)
(* sum wrapped around, which makes it 8 or 0.                              *)
LEMMA NeedCovers ==
  ASSUME NEW size \in Sizes, size + 15 < Word \/ NeedOf(size) > 32
  PROVE  size \in Nat /\ NeedOf(size) \in Nat /\ NeedOf(size) >= size + 8
<1>1. size \in Nat /\ Word \in Nat \ {0} /\ size < Word /\ Word % 8 = 0 /\ Word > 64
  BY UmmallocAssumption DEF HUGE_MAX
<1> DEFINE x == (size + 7) % Word
           y == (x \div 8) * 8 + 8
<1>2. NeedOf(size) = y % Word
  BY DEF NeedOf
<1>3. CASE size + 7 < Word
  <2>1. x = size + 7
    BY <1>1, <1>3, ModSmall
  <2> HIDE DEF x
  <2>2. y \in Nat /\ y >= size + 8 /\ y <= size + 15 /\ y % 8 = 0
    BY <1>1, <2>1
  <2> HIDE DEF y
  <2>3. y <= Word
    BY <1>1, <1>3, <2>2
  <2>4. CASE y < Word
    <3>1. y % Word = y
      BY <1>1, <2>2, <2>4, ModSmall
    <3> QED
      BY <1>1, <1>2, <2>2, <3>1
  <2>5. CASE y = Word
    <3>1. y % Word = 0
      BY <1>1, <2>5
    <3> QED
      BY <1>1, <1>2, <2>2, <2>5, <3>1
  <2> QED
    BY <1>1, <2>2, <2>3, <2>4, <2>5
<1>4. CASE size + 7 >= Word
  <2>1. x \in 0 .. 6
    <3>1. size + 7 - Word \in 0 .. 6 /\ size + 7 - Word \in 0 .. Word - 1
      BY <1>1, <1>4
    <3>2. (size + 7) % Word = size + 7 - Word
      <4>1. size + 7 \in Int /\ size + 7 = Word * 1 + (size + 7 - Word)
        BY <1>1
      <4> QED
        BY <1>1, <1>4
    <3> QED
      BY <3>1, <3>2, Zenon
  <2> HIDE DEF x
  <2>2. y = 8
    BY <2>1
  <2> HIDE DEF y
  <2>3. y % Word = 8
    BY <1>1, <2>2, ModSmall
  <2> QED
    BY <1>1, <1>2, <1>4, <2>3
<1> QED
  BY <1>1, <1>3, <1>4

(* A request that needs more than 512 bytes gets a chunk that holds it and *)
(* its header, whichever path of mm_malloc served it.                      *)
THEOREM RoomForLarge == Spec => []RoomAboveTiny
<1>1. IInv /\ BInv => RoomAboveTiny
  <2> SUFFICES ASSUME IInv, BInv, heap.stop = "no", NEW b \in blocks,
                      NeedOf(b.size) > 512
               PROVE  heap.mem[b.ptr - 8].size - 8 >= b.size
    BY DEF RoomAboveTiny, Running
  <2>1. PICK t \in Nat : Lively(heap, t)
    BY DEF IInv, HeapInv
  <2>2. Whole(heap, t, b) \/ InCell(heap, b)
    BY <2>1, Zenon DEF BInv, BlockInv
  <2>3. b.size \in Sizes
    BY DEF IInv
  <2>4. NeedOf(b.size) \in Nat
    BY <2>3, NeedNat
  <2>5. NeedOf(b.size) > 32
    BY <2>4
  <2>6. b.size \in Nat /\ NeedOf(b.size) >= b.size + 8
    BY <2>3, <2>5, NeedCovers
  <2>7. ~InCell(heap, b)
    BY <2>4, <2>5 DEF InCell
  <2>8. /\ b.ptr - 8 \in DOMAIN heap.mem
        /\ heap.mem[b.ptr - 8].size >= NeedOf(b.size)
    BY <2>2, <2>7, Zenon DEF Whole
  <2>9. heap.mem[b.ptr - 8].size \in Nat
    BY <2>1, <2>8, Zenon DEF Lively, IsMem, PackRecords
  <2> QED
    BY <2>4, <2>6, <2>8, <2>9
<1> QED
  BY <1>1, BlocksHeld, PTL

(* No request is so large that mm_malloc's own arithmetic wraps around.    *)
NoWrap == \A s \in Sizes : s + 15 < Word

(* The chunk x is the one that the block b is in. *)
Home(h, t, b, x) ==
  /\ x \in DOMAIN h.mem \ {t} /\ x \in Nat /\ h.mem[x].size \in Nat
  /\ x + 8 <= b.ptr /\ b.ptr + b.size <= x + h.mem[x].size + 8

(* A block that is a chunk is in it, but for the next header at most. *)
LEMMA WholeHome ==
  ASSUME NoWrap, NEW h, NEW t \in Nat, Lively(h, t), NEW b, b.ptr \in Nat,
         b.size \in Sizes, Whole(h, t, b)
  PROVE  Home(h, t, b, b.ptr - 8)
<1> DEFINE a == b.ptr - 8
<1>1. a \in DOMAIN h.mem \ {t} /\ h.mem[a].size >= NeedOf(b.size) - 8
  BY Zenon DEF Whole
<1>2. a \in Nat /\ h.mem[a].size \in Nat
  BY <1>1, Zenon DEF Lively, IsMem, PackRecords
<1>3. /\ b.size \in Nat /\ NeedOf(b.size) \in Nat
      /\ NeedOf(b.size) >= b.size + 8
  BY NeedCovers DEF NoWrap
<1>4. a + 8 <= b.ptr
  OBVIOUS
<1>5. b.ptr = a + 8
  OBVIOUS
<1> HIDE DEF a
<1>6. b.ptr + b.size <= a + h.mem[a].size + 8
  BY <1>1, <1>2, <1>3, <1>5
<1> QED
  BY <1>1, <1>2, <1>4, <1>6 DEF Home, a

(* A block that is a cell is in its page and is not longer than a cell. *)
LEMMA CellHome ==
  ASSUME NoWrap, NEW h, NEW t \in Nat, Lively(h, t), PageInv(h, t),
         NEW b, b.size \in Sizes, NeedOf(b.size) <= 32,
         NEW p \in DOMAIN h.pages, NEW c \in AllCellIds, b.ptr = CellData(p, c)
  PROVE  Home(h, t, b, p) /\ b.size \in Nat /\ b.size <= 24
<1>1. /\ p \in DOMAIN h.mem \ {t} /\ p \in Nat /\ h.mem[p].size \in Nat
      /\ CellData(p, c) \in Nat
      /\ CellData(p, c) >= p + 56
      /\ CellData(p, c) + 24 <= p + h.mem[p].size
  BY CellInside, Zenon
<1>2. /\ b.size \in Nat /\ NeedOf(b.size) \in Nat
      /\ NeedOf(b.size) >= b.size + 8
  BY NeedCovers DEF NoWrap
<1>3. b.size <= 24
  BY <1>2
<1>4. p + 8 <= b.ptr /\ b.ptr + b.size <= p + h.mem[p].size + 8
  BY <1>1, <1>2, <1>3
<1> QED
  BY <1>1, <1>2, <1>3, <1>4 DEF Home

(* Blocks in different chunks do not meet. *)
LEMMA HomesApart ==
  ASSUME NEW h, NEW t \in Nat, Lively(h, t),
         NEW b, NEW c, b.ptr \in Nat, c.ptr \in Nat, b.size \in Nat, c.size \in Nat,
         NEW x, NEW y, Home(h, t, b, x), Home(h, t, c, y), x # y
  PROVE  b.ptr + b.size <= c.ptr \/ c.ptr + c.size <= b.ptr
<1>1. /\ x \in DOMAIN h.mem \ {t} /\ x \in Nat /\ h.mem[x].size \in Nat
      /\ x + 8 <= b.ptr /\ b.ptr + b.size <= x + h.mem[x].size + 8
  BY Zenon DEF Home
<1>2. /\ y \in DOMAIN h.mem \ {t} /\ y \in Nat /\ h.mem[y].size \in Nat
      /\ y + 8 <= c.ptr /\ c.ptr + c.size <= y + h.mem[y].size + 8
  BY Zenon DEF Home
<1>3. x + h.mem[x].size <= y \/ y + h.mem[y].size <= x
  BY <1>1, <1>2, Apart, Zenon
<1> QED
  BY <1>1, <1>2, <1>3

(* A block is below the break and its pointer is aligned. *)
LEMMA BlockInHeap ==
  ASSUME NoWrap, NEW h, NEW t \in Nat, Lively(h, t), Aligned(h.mem), PageInv(h, t),
         NEW b, b.ptr \in Nat, b.size \in Sizes, Whole(h, t, b) \/ InCell(h, b)
  PROVE  b.ptr % 8 = 0 /\ b.ptr + b.size <= h.brk
<1>1. PICK x : Home(h, t, b, x) /\ b.ptr % 8 = 0
  <2>1. CASE Whole(h, t, b)
    <3>1. (b.ptr - 8) % 8 = 0
      BY <2>1, Zenon DEF Whole, Aligned
    <3>2. b.ptr % 8 = 0
      BY <3>1
    <3> QED
      BY <2>1, <3>2, WholeHome, Zenon
  <2>2. CASE InCell(h, b)
    <3>1. PICK p \in DOMAIN h.pages, c \in AllCellIds : b.ptr = CellData(p, c)
      BY <2>2, Zenon DEF InCell
    <3>2. Home(h, t, b, p)
      BY <2>2, <3>1, CellHome DEF InCell
    <3>3. p \in Nat /\ p % 8 = 0
      BY <3>2, Zenon DEF Home, Aligned
    <3>4. c \in Int
      BY <3>1 DEF AllCellIds, LowCells, HighCells
    <3>5. b.ptr % 8 = 0
      BY <3>1, <3>3, <3>4 DEF CellData
    <3> QED
      BY <3>2, <3>5, Zenon
  <2> QED
    BY <2>1, <2>2
<1>2. /\ x \in DOMAIN h.mem \ {t} /\ x \in Nat /\ h.mem[x].size \in Nat
      /\ b.ptr + b.size <= x + h.mem[x].size + 8
  BY <1>1, Zenon DEF Home
<1>3. t \in DOMAIN h.mem /\ x < t /\ ~(x < t /\ t < x + h.mem[x].size)
  BY <1>2, Zenon DEF Lively, Chain, Geometry
<1>4. h.brk \in Nat /\ t = h.brk - 8
  BY Zenon DEF Lively, Base
<1>5. b.size \in Nat
  BY NeedCovers DEF NoWrap
<1> QED
  BY <1>1, <1>2, <1>3, <1>4, <1>5

(* Two blocks with different pointers do not meet. *)
LEMMA BlocksApart ==
  ASSUME NoWrap, NEW h, NEW t \in Nat, Lively(h, t), PageInv(h, t),
         NEW b, b.ptr \in Nat, b.size \in Sizes, Whole(h, t, b) \/ InCell(h, b),
         NEW c, c.ptr \in Nat, c.size \in Sizes, Whole(h, t, c) \/ InCell(h, c),
         b.ptr # c.ptr
  PROVE  b.ptr + b.size <= c.ptr \/ c.ptr + c.size <= b.ptr
<1>1. b.size \in Nat /\ c.size \in Nat
  BY NeedCovers DEF NoWrap
<1>2. CASE Whole(h, t, b) /\ Whole(h, t, c)
  <2>1. b.ptr - 8 # c.ptr - 8
    OBVIOUS
  <2> QED
    BY <1>1, <1>2, <2>1, WholeHome, HomesApart
<1>3. ASSUME NEW d, NEW e, d.ptr \in Nat, d.size \in Sizes, e.ptr \in Nat,
             e.size \in Sizes, Whole(h, t, d), InCell(h, e)
      PROVE  d.ptr + d.size <= e.ptr \/ e.ptr + e.size <= d.ptr
  <2>1. PICK p \in DOMAIN h.pages, i \in AllCellIds : e.ptr = CellData(p, i)
    BY <1>3, Zenon DEF InCell
  <2>2. NeedOf(e.size) <= 32
    BY <1>3, Zenon DEF InCell
  <2>3. Home(h, t, e, p)
    BY <1>3, <2>1, <2>2, CellHome
  <2>4. Home(h, t, d, d.ptr - 8) /\ d.ptr - 8 # p
    BY <1>3, WholeHome, Zenon DEF Whole
  <2>5. d.size \in Nat /\ e.size \in Nat
    BY <1>3, NeedCovers DEF NoWrap
  <2> QED
    BY <1>3, <2>3, <2>4, <2>5, HomesApart
<1>4. CASE InCell(h, b) /\ InCell(h, c)
  <2>1. PICK p \in DOMAIN h.pages, i \in AllCellIds : b.ptr = CellData(p, i)
    BY <1>4, Zenon DEF InCell
  <2>2. PICK q \in DOMAIN h.pages, j \in AllCellIds : c.ptr = CellData(q, j)
    BY <1>4, Zenon DEF InCell
  <2>3. NeedOf(b.size) <= 32 /\ NeedOf(c.size) <= 32
    BY <1>4, Zenon DEF InCell
  <2>4. Home(h, t, b, p) /\ b.size <= 24
    BY <2>1, <2>3, CellHome
  <2>5. Home(h, t, c, q) /\ c.size <= 24
    BY <2>2, <2>3, CellHome
  <2>6. CASE p # q
    BY <1>1, <2>4, <2>5, <2>6, HomesApart
  <2>7. CASE p = q
    <3>1. p \in Nat /\ i \in Int /\ j \in Int /\ i # j
      BY <2>1, <2>2, <2>4, <2>7 DEF Home, AllCellIds, LowCells, HighCells
    <3> QED
      BY <1>1, <2>1, <2>2, <2>4, <2>5, <2>7, <3>1 DEF CellData
  <2> QED
    BY <2>6, <2>7
<1> QED
  BY <1>2, <1>3, <1>4

(* The pointers the client holds are aligned and inside the heap, and the  *)
(* byte ranges it asked for do not meet, as long as no request is within   *)
(* 15 bytes of what a uint holds: those make mm_malloc's sum wrap around.  *)
THEOREM BlocksNeverMeet == ASSUME NoWrap PROVE Spec => []BlocksDisjoint
<1>1. IInv /\ BInv => BlocksDisjoint
  <2> SUFFICES ASSUME IInv, BInv, heap.stop = "no", NEW b \in blocks
               PROVE  /\ b.ptr % 8 = 0
                      /\ b.ptr + b.size <= heap.brk
                      /\ \A c \in blocks :
                           c # b => \/ b.ptr + b.size <= c.ptr
                                    \/ c.ptr + c.size <= b.ptr
    BY Zenon DEF BlocksDisjoint, Running
  <2>1. PICK t \in Nat : Lively(heap, t)
    BY DEF IInv, HeapInv
  <2>2. Aligned(heap.mem) /\ PageInv(heap, t) /\ BlockInv(heap, t, blocks)
    BY <2>1, Zenon DEF BInv
  <2>3. \A c \in blocks : /\ c.ptr \in Nat /\ c.size \in Sizes
                          /\ Whole(heap, t, c) \/ InCell(heap, c)
    BY <2>2, Zenon DEF BlockInv, IInv
  <2>4. b.ptr % 8 = 0 /\ b.ptr + b.size <= heap.brk
    BY <2>1, <2>2, <2>3, BlockInHeap
  <2>5. ASSUME NEW c \in blocks, c # b
        PROVE  b.ptr + b.size <= c.ptr \/ c.ptr + c.size <= b.ptr
    <3>1. b.ptr # c.ptr
      BY <2>2, <2>5, Zenon DEF BlockInv
    <3> QED
      BY <2>1, <2>2, <2>3, <3>1, BlocksApart
  <2> QED
    BY <2>4, <2>5
<1> QED
  BY <1>1, BlocksHeld, PTL
=============================================================================
