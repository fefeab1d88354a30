--------------------------- MODULE UmmallocProofs ---------------------------
(***************************************************************************)
(* Proofs about Ummalloc, for every set of request sizes, every break,     *)
(* heap limit and sbrk failure: what each helper keeps true of the heap,   *)
(* that each entry point preserves the inductive invariant IInv, and what  *)
(* follows from it.                                                        *)
(*                                                                         *)
(* While the process runs the packs form a chain up to the tail (Chain),   *)
(* at most the chunk before the tail is free and it is alone on the lists  *)
(* (Attached), and base is the break or was left beyond it by a failed     *)
(* sbrk (Base).  A call takes the last chunk off its list (Taken),         *)
(* allocates or splits it and puts the heap in order again (Settled).      *)
(***************************************************************************)
EXTENDS Ummalloc, FiniteSetTheorems, WellFoundedInduction, TLAPS

(* A chunk of more than 32 bytes and at most 64 KiB has a slot (get_index) *)
(* above the two lowest.                                                   *)
LEMMA IndexRange ==
  ASSUME NEW s \in Nat, s > 32, s <= HUGE_MAX
  PROVE  GetIndex(s) \in SlotIds /\ GetIndex(s) >= 2
BY DEF GetIndex, SlotIds, NSLOTS, HUGE_MAX

(* get_index never puts a larger chunk into a lower slot.                  *)
LEMMA IndexMonotone ==
  ASSUME NEW s \in Nat, NEW n \in Nat, s > 32, n > 32, s >= n
  PROVE  GetIndex(s) >= GetIndex(n)
BY DEF GetIndex

(* Rounding up to pages, as malloc_brk and mm_align_init do.               *)
LEMMA PageRound ==
  ASSUME NEW n \in Nat
  PROVE  /\ PgRoundUp(n) \in Nat
         /\ PgRoundUp(n) >= n
         /\ PgRoundUp(n) < n + PAGE_SIZE
         /\ PgRoundUp(n) % PAGE_SIZE = 0
         /\ n <= HUGE_MAX => PgRoundUp(n) <= HUGE_MAX
         /\ n % PAGE_SIZE = 0 => PgRoundUp(n) = n
         /\ n > 0 => PgRoundUp(n) >= PAGE_SIZE
BY DEF PgRoundUp, PAGE_SIZE, HUGE_MAX

(* A nonempty set of natural numbers has a lowest one. *)
LEMMA LowestExists ==
  ASSUME NEW S, S \subseteq Nat, S # {}
  PROVE  \E m \in S : \A x \in S : m <= x
<1> DEFINE below == {s \in Nat \X Nat : s[1] < s[2]}
<1>1. IsWellFoundedOn(below, Nat)
  BY NatLessThanWellFounded DEF OpToRel
<1>2. PICK m \in S : \A y \in S : ~(<<y, m>> \in below)
  BY <1>1, WFMin, ZenonT(60)
<1>3. \A y \in S : ~(y < m)
  BY <1>2, ZenonT(60)
<1> QED
  BY <1>3

(* A nonempty set of bounded numbers has a highest one. *)
LEMMA HighestIn ==
  ASSUME NEW n \in Nat, NEW S, S \subseteq 0 .. n, S # {}
  PROVE  Highest(S) \in S /\ \A x \in S : x <= Highest(S)
<1> DEFINE D == {d \in 0 .. n : n - d \in S}
<1>1. D \subseteq Nat /\ \A x \in S : n - x \in D
  OBVIOUS
<1>2. D # {}
  BY <1>1, ZenonT(60)
<1>3. PICK d \in D : \A y \in D : d <= y
  BY <1>1, <1>2, LowestExists, ZenonT(60)
<1>4. n - d \in S /\ \A x \in S : x <= n - d
  BY <1>1, <1>3
<1> QED
  BY <1>4, ZenonT(60) DEF Highest

(* The cells of a fast page (fast_allocate) follow its node and map, do    *)
(* not meet, and end within the 4096 + 48 bytes of the page's pack.        *)
LEMMA CellsFit ==
  ASSUME NEW page \in Nat, NEW c \in LowCells \cup HighCells,
         NEW d \in LowCells \cup HighCells, c < d
  PROVE  /\ page + 8 + 40 < CellData(page, c)
         /\ CellData(page, c) + 24 < CellData(page, d)
         /\ CellData(page, d) + 24 <= page + 4096 + 48
BY UmmallocAssumption DEF LowCells, HighCells, CellData
-----------------------------------------------------------------------------
Fields == {"mem", "slots", "bitmap", "base", "brk", "pages", "full", "ret",
           "impossible", "stop"}

PackRecords == [prev : Nat, size : Nat, meta : Metas]

IsMem(mem) ==
  /\ DOMAIN mem \subseteq Nat
  /\ \A a \in DOMAIN mem : mem[a] \in PackRecords

IsFree(mem, a) == THIS_INUSE \notin mem[a].meta

(* The packs up to the tail t tile the heap. *)
Geometry(mem, t) ==
  /\ t \in DOMAIN mem
  /\ THIS_INUSE \in mem[t].meta
  /\ \A a \in DOMAIN mem \ {t} :
       /\ a < t
       /\ mem[a].size > 0
       /\ a + mem[a].size \in DOMAIN mem
       /\ \A x \in DOMAIN mem : ~(a < x /\ x < a + mem[a].size)

(* The pack after a knows a's size and whether it is in use. *)
Tag(mem, a) ==
  /\ mem[a + mem[a].size].prev = mem[a].size
  /\ PREV_INUSE \in mem[a + mem[a].size].meta <=> ~IsFree(mem, a)

(* All tags are true and only the chunk before the tail may be free. *)
Chain(mem, t) ==
  /\ Geometry(mem, t)
  /\ \A a \in DOMAIN mem \ {t} :
       /\ Tag(mem, a)
       /\ IsFree(mem, a) => a + mem[a].size = t /\ mem[a].meta = {PREV_INUSE}
  /\ PREV_INUSE \notin mem[t].meta => \E a \in DOMAIN mem : IsFree(mem, a)

(* Every list but that of the fast pages is empty. *)
Detached(slots, bitmap) ==
  /\ \A i \in SlotIds \ {1} : slots[i] = <<>>
  /\ bitmap = {}

(* The free chunk, if there is one, is alone on its list; the other lists  *)
(* are empty.                                                              *)
Attached(mem, slots, bitmap) ==
  /\ \A a \in DOMAIN mem :
       IsFree(mem, a) => /\ mem[a].size > 32
                         /\ mem[a].size < HUGE_MAX
                         /\ slots[GetIndex(mem[a].size)] = <<a>>
  /\ \A i \in SlotIds \ {1} :
       slots[i] # <<>> =>
         \E a \in DOMAIN mem : IsFree(mem, a) /\ GetIndex(mem[a].size) = i
  /\ bitmap = {i \in SlotIds \ {1} : slots[i] # <<>>}

IsSlots(slots, bitmap) ==
  /\ slots \in [SlotIds -> Seq(Nat)]
  /\ bitmap \subseteq SlotIds

(* The tail ends the mapped heap; base does, too, or a failed sbrk has     *)
(* left it beyond.                                                         *)
Base(base, brk, t) ==
  /\ base \in Nat /\ brk \in Nat
  /\ brk % PAGE_SIZE = 0 /\ t = brk - 8
  /\ base = brk \/ base >= brk + PAGE_SIZE

(* A heap between two calls, with its tail at t. *)
Lively(h, t) ==
  /\ DOMAIN h = Fields
  /\ IsMem(h.mem)
  /\ IsSlots(h.slots, h.bitmap)
  /\ Chain(h.mem, t)
  /\ Attached(h.mem, h.slots, h.bitmap)
  /\ Base(h.base, h.brk, t)
  /\ h.impossible = FALSE

(* Types, kept also when the process has faulted. *)
Typed(h) ==
  /\ DOMAIN h = Fields
  /\ IsMem(h.mem)
  /\ IsSlots(h.slots, h.bitmap)
  /\ h.base \in Nat /\ h.brk \in Nat /\ h.ret \in Nat
  /\ h.impossible = FALSE

(* What a call that serves a chunk makes of the heap h. *)
Served(g, h) ==
  /\ Typed(g)
  /\ g.stop \in {"no", "fault"}
  /\ g.stop = "no" => \E t \in Nat : Lively(g, t)
  /\ g.ret = 0 \/ g.ret >= 8
  /\ g.pages = h.pages /\ g.full = h.full /\ g.slots[1] = h.slots[1]
-----------------------------------------------------------------------------
(* At most one chunk is free. *)
LEMMA OneFree ==
  ASSUME NEW mem, NEW t \in Nat, IsMem(mem), Chain(mem, t),
         NEW a \in DOMAIN mem, NEW b \in DOMAIN mem,
         IsFree(mem, a), IsFree(mem, b)
  PROVE  a = b
BY DEF IsMem, Chain, Geometry, IsFree, PackRecords

(* free_chunk touches the lists and the assertions only.                   *)
LEMMA FreeChunkFields ==
  ASSUME NEW h, DOMAIN h = Fields, NEW a
  PROVE  LET g == FreeChunk(h, a)
         IN /\ DOMAIN g = Fields
            /\ g.mem = h.mem /\ g.stop = h.stop
            /\ g.base = h.base /\ g.brk = h.brk
            /\ g.pages = h.pages /\ g.full = h.full /\ g.ret = h.ret
BY DEF FreeChunk, Fields

(* What free_chunk does to the lists.                                      *)
LEMMA FreeChunkSlots ==
  ASSUME NEW h, DOMAIN h = Fields, NEW a
  PROVE  LET g == FreeChunk(h, a)
             i == GetIndex(h.mem[a].size)
         IN /\ g.slots = [h.slots EXCEPT ![i] = <<a>> \o h.slots[i]]
            /\ g.bitmap = h.bitmap \cup {i}
BY DEF FreeChunk, Fields

(* free_chunk on the only free chunk leaves it alone on the list of its    *)
(* size.                                                                   *)
LEMMA FreeChunkLists ==
  ASSUME NEW h, NEW t \in Nat, DOMAIN h = Fields, IsMem(h.mem),
         IsSlots(h.slots, h.bitmap), Chain(h.mem, t),
         Detached(h.slots, h.bitmap),
         NEW a \in DOMAIN h.mem, IsFree(h.mem, a),
         h.mem[a].size > 32, h.mem[a].size < HUGE_MAX
  PROVE  LET g == FreeChunk(h, a) IN
         /\ IsSlots(g.slots, g.bitmap) /\ Attached(g.mem, g.slots, g.bitmap)
         /\ g.slots[1] = h.slots[1]
<1> DEFINE g == FreeChunk(h, a)
           i == GetIndex(h.mem[a].size)
<1>1. h.mem[a].size \in Nat /\ a \in Nat
  BY DEF IsMem, PackRecords
<1>2. i \in SlotIds /\ i # 1
  BY <1>1, IndexRange DEF HUGE_MAX
<1>3. h.slots[i] = <<>> /\ h.bitmap = {}
  BY <1>2 DEF Detached
<1>4. <<a>> \o <<>> = <<a>>
  BY <1>1
<1>5. g.slots = [h.slots EXCEPT ![i] = <<a>>] /\ g.bitmap = {i} /\ g.mem = h.mem
  <2>1. /\ g.slots = [h.slots EXCEPT ![i] = <<a>> \o h.slots[i]]
        /\ g.bitmap = h.bitmap \cup {i} /\ g.mem = h.mem
    BY FreeChunkFields, FreeChunkSlots, ZenonT(60)
  <2> HIDE DEF g, i
  <2>2. g.slots = [h.slots EXCEPT ![i] = <<a>>]
    BY <2>1, <1>3, <1>4, ZenonT(60)
  <2>3. g.bitmap = {i}
    BY <2>1, <1>3, SMT
  <2> QED
    BY <2>1, <2>2, <2>3
<1>6. IsSlots(g.slots, g.bitmap)
  BY <1>1, <1>2, <1>5 DEF IsSlots
<1>7. \A b \in DOMAIN h.mem : IsFree(h.mem, b) => b = a
  BY OneFree
<1>8. Attached(g.mem, g.slots, g.bitmap)
  BY <1>1, <1>2, <1>5, <1>7 DEF Attached, IsSlots, Detached
<1>9. g.slots[1] = h.slots[1]
  BY <1>2, <1>5 DEF IsSlots
<1> QED
  BY <1>6, <1>8, <1>9

(* The assertions of free_chunk hold for a free chunk in its place. *)
LEMMA FreeChunkQuiet ==
  ASSUME NEW h, NEW t \in Nat, DOMAIN h = Fields, IsMem(h.mem),
         Chain(h.mem, t), NEW a \in DOMAIN h.mem, IsFree(h.mem, a),
         h.mem[a].size > 32, h.impossible = FALSE
  PROVE  FreeChunk(h, a).impossible = FALSE
<1>1. /\ a # t /\ h.mem[a].meta = {PREV_INUSE} /\ PackNext(h.mem, a) = t
      /\ h.mem[a].size \in Nat
  BY DEF Chain, Geometry, IsFree, PackNext, IsMem, PackRecords
<1>2. h.mem[t].meta = {THIS_INUSE}
  <2>1. PREV_INUSE \notin h.mem[t].meta /\ THIS_INUSE \in h.mem[t].meta
    BY <1>1 DEF Chain, Geometry, Tag, PackNext
  <2>2. h.mem[t].meta \subseteq {PREV_INUSE, THIS_INUSE}
    BY DEF IsMem, Chain, Geometry, PackRecords, Metas, BOTH_INUSE
  <2> QED
    BY <2>1, <2>2
<1>3. ~(h.mem[a].size <= 32)
  BY <1>1
<1>4. FreeChunk(h, a).impossible =
        (\/ h.impossible
         \/ h.mem[a].meta # {PREV_INUSE}
         \/ h.mem[PackNext(h.mem, a)].meta # {THIS_INUSE}
         \/ h.mem[a].size <= 32)
  BY DEF FreeChunk, Fields
<1> QED
  BY <1>1, <1>2, <1>3, <1>4, ZenonT(60)
-----------------------------------------------------------------------------
(* The chunk a before the tail is on no list and is about to be allocated; *)
(* its own flags and tag do not count.                                     *)
TakenIn(mem, a, t) ==
  /\ IsMem(mem)
  /\ Geometry(mem, t)
  /\ a \in DOMAIN mem \ {t} /\ a + mem[a].size = t
  /\ \A b \in DOMAIN mem \ {t, a} : Tag(mem, b) /\ ~IsFree(mem, b)

Taken(h, a, t) ==
  /\ DOMAIN h = Fields
  /\ IsSlots(h.slots, h.bitmap)
  /\ Detached(h.slots, h.bitmap)
  /\ TakenIn(h.mem, a, t)
  /\ h.impossible = FALSE

(* What a call leaves of h: the same tail, lists and chain in order. *)
Settled(g, h, t) ==
  /\ DOMAIN g = Fields
  /\ IsMem(g.mem)
  /\ IsSlots(g.slots, g.bitmap)
  /\ Chain(g.mem, t)
  /\ Attached(g.mem, g.slots, g.bitmap)
  /\ g.base = h.base /\ g.brk = h.brk /\ g.stop = h.stop
  /\ g.pages = h.pages /\ g.full = h.full
  /\ g.slots[1] = h.slots[1] /\ g.impossible = FALSE
  /\ g.ret \in Nat /\ g.ret >= 8

(* pack_allocate makes every tag true again.                               *)
LEMMA AllocatedChain ==
  ASSUME NEW mem, NEW t \in Nat, NEW a \in Nat, TakenIn(mem, a, t)
  PROVE  LET m == AllocatedIn(mem, a) IN
         IsMem(m) /\ Chain(m, t) /\ \A b \in DOMAIN m : ~IsFree(m, b)
<1> DEFINE m == AllocatedIn(mem, a)
<1>1. /\ a \in DOMAIN mem /\ t \in DOMAIN mem /\ a # t /\ t = PackNext(mem, a)
      /\ mem[a].size \in Nat
  BY DEF TakenIn, Geometry, PackNext, IsMem, PackRecords
<1>2. /\ DOMAIN m = DOMAIN mem
      /\ m[a] = Pack(mem[a].prev, mem[a].size, BOTH_INUSE)
      /\ m[t] = Pack(mem[a].size, mem[t].size, mem[t].meta \cup {PREV_INUSE})
      /\ \A x \in DOMAIN mem \ {a, t} : m[x] = mem[x]
  BY <1>1 DEF AllocatedIn
<1> HIDE DEF m
<1>3. IsMem(m)
  BY <1>1, <1>2 DEF TakenIn, IsMem, PackRecords, Pack, Metas, BOTH_INUSE
<1>4. \A b \in DOMAIN m : ~IsFree(m, b)
  BY <1>1, <1>2 DEF TakenIn, Geometry, Pack, BOTH_INUSE, IsFree
<1>5. \A b \in DOMAIN m : m[b].size = mem[b].size
  BY <1>2 DEF Pack
<1>6. Geometry(m, t)
  BY <1>1, <1>2, <1>4, <1>5 DEF TakenIn, Geometry, IsFree
<1>7. ASSUME NEW b \in DOMAIN m \ {t} PROVE Tag(m, b)
  <2>1. CASE b = a
    BY <2>1, <1>1, <1>2, <1>4 DEF Tag, Pack, PackNext
  <2>2. CASE b # a
    <3>1. /\ b + mem[b].size \in DOMAIN mem \ {t} /\ m[b] = mem[b]
          /\ Tag(mem, b) /\ ~IsFree(mem, b)
      BY <2>2, <1>1, <1>2 DEF TakenIn, Geometry, IsMem, PackRecords, PackNext
    <3> QED
      BY <3>1, <1>2, <1>4 DEF Tag, Pack, BOTH_INUSE
  <2> QED
    BY <2>1, <2>2
<1>8. PREV_INUSE \in m[t].meta
  BY <1>2 DEF Pack
<1>9. Chain(m, t)
  BY <1>2, <1>4, <1>6, <1>7, <1>8 DEF Chain
<1> QED
  BY <1>3, <1>4, <1>9 DEF m

(* pack_allocate on a chunk taken off the lists.                           *)
LEMMA PackAllocateLemma ==
  ASSUME NEW h, NEW t \in Nat, NEW a \in Nat, Taken(h, a, t)
  PROVE  Settled(PackAllocate(h, a), h, t)
<1> DEFINE g == PackAllocate(h, a)
           m == AllocatedIn(h.mem, a)
<1>1. /\ DOMAIN g = Fields /\ g.mem = m
      /\ g.slots = h.slots /\ g.bitmap = h.bitmap
      /\ g.base = h.base /\ g.brk = h.brk /\ g.stop = h.stop
      /\ g.pages = h.pages /\ g.full = h.full /\ g.ret = a + 8
      /\ g.impossible = h.impossible
  BY DEF PackAllocate, Taken, Fields
<1>2. IsMem(m) /\ Chain(m, t) /\ \A b \in DOMAIN m : ~IsFree(m, b)
  BY AllocatedChain DEF Taken
<1> HIDE DEF m, g
<1>3. Attached(m, h.slots, h.bitmap)
  BY <1>2 DEF Attached, Taken, Detached
<1> QED
  BY <1>1, <1>2, <1>3 DEF Settled, Taken, g

(* split_allocate cuts the chunk in two and leaves all tags true.          *)
LEMMA SplitChain ==
  ASSUME NEW mem, NEW t \in Nat, NEW a \in Nat, NEW need \in Nat,
         TakenIn(mem, a, t), need > 0, mem[a].size > need
  PROVE  LET m == SplitIn(mem, a, need) IN
         /\ IsMem(m) /\ Chain(m, t)
         /\ a + need \in DOMAIN m /\ IsFree(m, a + need)
         /\ m[a + need].size = mem[a].size - need
<1> DEFINE m == SplitIn(mem, a, need)
           s == a + need
           rest == mem[a].size - need
<1>1. /\ mem[a].size \in Nat /\ rest \in Nat /\ rest > 0 /\ s \in Nat
      /\ a < s /\ s < t /\ t = PackNext(mem, a) /\ t \in DOMAIN mem
      /\ s + rest = t /\ a \in DOMAIN mem
  BY DEF TakenIn, IsMem, PackRecords, PackNext, Geometry
<1>2. s \notin DOMAIN mem
  BY <1>1 DEF TakenIn, Geometry, IsMem
<1>3. /\ DOMAIN m = DOMAIN mem \cup {s}
      /\ m[a] = Pack(mem[a].prev, need, BOTH_INUSE)
      /\ m[t] = Pack(rest, mem[t].size, {THIS_INUSE})
      /\ m[s] = Pack(need, rest, {PREV_INUSE})
      /\ \A x \in DOMAIN mem \ {a, t} : m[x] = mem[x]
  BY <1>1, <1>2 DEF SplitIn, Put
<1> HIDE DEF m, s, rest
<1>4. IsMem(m)
  BY <1>1, <1>3 DEF TakenIn, IsMem, PackRecords, Pack, Metas, BOTH_INUSE
<1>5. /\ IsFree(m, s) /\ ~IsFree(m, t)
      /\ PREV_INUSE \notin m[t].meta
      /\ PREV_INUSE \in m[a].meta /\ ~IsFree(m, a)
      /\ PREV_INUSE \in m[s].meta
  BY <1>3 DEF IsFree, Pack, PREV_INUSE, THIS_INUSE, BOTH_INUSE
<1>6. ASSUME NEW b \in DOMAIN m \ {t, a, s}
      PROVE  /\ b < t /\ m[b].size > 0
             /\ b + m[b].size \in DOMAIN m
             /\ \A x \in DOMAIN m : ~(b < x /\ x < b + m[b].size)
             /\ Tag(m, b) /\ ~IsFree(m, b)
  <2>1. /\ b \in DOMAIN mem /\ m[b] = mem[b] /\ b \in Nat
        /\ ~IsFree(mem, b) /\ mem[b].size \in Nat
    BY <1>3 DEF TakenIn, IsMem, PackRecords
  <2>2. /\ b + mem[b].size \in DOMAIN mem \ {t}
        /\ b < t /\ mem[b].size > 0
        /\ \A x \in DOMAIN mem : ~(b < x /\ x < b + mem[b].size)
        /\ mem[b + mem[b].size].prev = mem[b].size
        /\ PREV_INUSE \in mem[b + mem[b].size].meta
    BY <2>1, <1>1 DEF TakenIn, Geometry, Tag, IsMem
  <2>3. ~(b < s /\ s < b + mem[b].size)
    BY <2>1, <2>2, <1>1 DEF TakenIn, Geometry, IsMem
  <2>4. /\ m[b + m[b].size].prev = m[b].size
        /\ PREV_INUSE \in m[b + m[b].size].meta
    BY <2>1, <2>2, <1>3, <1>5 DEF Pack
  <2> QED
    BY <2>1, <2>2, <2>3, <2>4, <1>3 DEF Tag, IsFree
<1>7. /\ a + m[a].size = s /\ s + m[s].size = t
      /\ m[a].size = need /\ m[s].size = rest
  BY <1>1, <1>3 DEF Pack, s
<1>8. \A x \in DOMAIN m : ~(a < x /\ x < s) /\ ~(s < x /\ x < t)
  BY <1>1, <1>3 DEF TakenIn, Geometry, IsMem
<1>9. Geometry(m, t)
  BY <1>1, <1>3, <1>5, <1>6, <1>7, <1>8 DEF Geometry, IsFree
<1>10. Tag(m, a) /\ Tag(m, s)
  BY <1>3, <1>5, <1>7 DEF Tag, Pack
<1>11. Chain(m, t)
  BY <1>1, <1>3, <1>5, <1>6, <1>7, <1>9, <1>10 DEF Chain, Pack
<1> QED
  BY <1>3, <1>4, <1>5, <1>7, <1>11 DEF m, s, rest

(* split_allocate on a chunk taken off the lists; the rest is listed.      *)
LEMMA SplitAllocateLemma ==
  ASSUME NEW h, NEW t \in Nat, NEW a \in Nat, NEW need \in Nat,
         Taken(h, a, t), need > 0,
         h.mem[a].size - need > 32, h.mem[a].size - need < HUGE_MAX
  PROVE  Settled(SplitAllocate(h, a, need), h, t)
<1> DEFINE m == SplitIn(h.mem, a, need)
           k == [h EXCEPT !.mem = m]
           f == FreeChunk(k, a + need)
           g == SplitAllocate(h, a, need)
<1>1. h.mem[a].size \in Nat
  BY DEF Taken, TakenIn, IsMem, PackRecords
<1>2. /\ IsMem(m) /\ Chain(m, t)
      /\ a + need \in DOMAIN m /\ IsFree(m, a + need)
      /\ m[a + need].size = h.mem[a].size - need
  <2>1. TakenIn(h.mem, a, t) /\ h.mem[a].size > need
    BY <1>1 DEF Taken
  <2> QED
    BY <2>1, SplitChain, ZenonT(60)
<1>3. /\ DOMAIN k = Fields /\ k.mem = m
      /\ k.slots = h.slots /\ k.bitmap = h.bitmap
      /\ k.base = h.base /\ k.brk = h.brk /\ k.stop = h.stop
      /\ k.pages = h.pages /\ k.full = h.full /\ k.impossible = FALSE
  BY DEF Taken, Fields
<1> HIDE DEF m, k
<1>4. /\ IsSlots(f.slots, f.bitmap) /\ Attached(f.mem, f.slots, f.bitmap)
      /\ f.slots[1] = h.slots[1] /\ f.impossible = FALSE
  <2>1. /\ IsSlots(k.slots, k.bitmap) /\ Detached(k.slots, k.bitmap)
        /\ k.mem[a + need].size > 32 /\ k.mem[a + need].size < HUGE_MAX
    BY <1>2, <1>3 DEF Taken
  <2>2. /\ IsSlots(f.slots, f.bitmap) /\ Attached(f.mem, f.slots, f.bitmap)
        /\ f.slots[1] = k.slots[1]
    BY <1>2, <1>3, <2>1, FreeChunkLists
  <2>3. f.impossible = FALSE
    BY <1>2, <1>3, <2>1, FreeChunkQuiet, ZenonT(60)
  <2> QED
    BY <1>3, <2>2, <2>3
<1>5. /\ DOMAIN f = Fields /\ f.mem = m
      /\ f.base = h.base /\ f.brk = h.brk /\ f.stop = h.stop
      /\ f.pages = h.pages /\ f.full = h.full
  BY <1>3, FreeChunkFields
<1>6. g = [f EXCEPT !.ret = a + 8]
  BY DEF SplitAllocate, m, k
<1> HIDE DEF f, g
<1>7. /\ DOMAIN g = Fields /\ g.mem = f.mem
      /\ g.slots = f.slots /\ g.bitmap = f.bitmap
      /\ g.base = f.base /\ g.brk = f.brk /\ g.stop = f.stop
      /\ g.pages = f.pages /\ g.full = f.full /\ g.ret = a + 8
      /\ g.impossible = f.impossible
  BY <1>5, <1>6 DEF Fields
<1> QED
  BY <1>2, <1>4, <1>5, <1>7 DEF Settled, g

(* The chunk is large enough: allocated whole or split. *)
LEMMA TrySplitLemma ==
  ASSUME NEW h, NEW t \in Nat, NEW a \in Nat, NEW need \in Nat,
         Taken(h, a, t), need > 32,
         h.mem[a].size >= need, h.mem[a].size - need < HUGE_MAX
  PROVE  Settled(TrySplitAllocate(h, a, need), h, t)
<1>1. h.mem[a].size \in Nat
  BY DEF Taken, TakenIn, IsMem, PackRecords
<1>2. CASE h.mem[a].size - need >= need \/ h.mem[a].size - need >= 512
  <2>1. need > 0 /\ h.mem[a].size - need > 32
    BY <1>1, <1>2
  <2>2. Settled(SplitAllocate(h, a, need), h, t)
    BY <2>1, SplitAllocateLemma, ZenonT(60)
  <2> QED
    BY <1>1, <1>2, <2>2 DEF TrySplitAllocate
<1>3. CASE ~(h.mem[a].size - need >= need \/ h.mem[a].size - need >= 512)
  BY <1>1, <1>3, PackAllocateLemma DEF TrySplitAllocate
<1> QED
  BY <1>2, <1>3

(* A chunk that is too small: the process faults. *)
LEMMA TrySplitFaults ==
  ASSUME NEW h, NEW a, NEW need, DOMAIN h = Fields, h.mem[a].size < need
  PROVE  LET g == TrySplitAllocate(h, a, need) IN
         /\ DOMAIN g = Fields /\ g.mem = h.mem /\ g.slots = h.slots
         /\ g.bitmap = h.bitmap /\ g.stop = "fault" /\ g.ret = 0
         /\ g.pages = h.pages /\ g.full = h.full
         /\ g.base = h.base /\ g.brk = h.brk /\ g.impossible = h.impossible
BY DEF TrySplitAllocate, Fields
-----------------------------------------------------------------------------
(* Removing the only node of the only nonempty list. *)
LEMMA UnlinkLemma ==
  ASSUME NEW h, DOMAIN h = Fields, NEW t \in Nat,
         IsMem(h.mem), IsSlots(h.slots, h.bitmap), Chain(h.mem, t),
         Attached(h.mem, h.slots, h.bitmap),
         NEW a \in DOMAIN h.mem, IsFree(h.mem, a), h.impossible = FALSE
  PROVE  LET i == GetIndex(h.mem[a].size)
             g == Unlink(h, i, 1)
         IN /\ h.slots[i] = <<a>>
            /\ i \in SlotIds \ {1}
            /\ Taken(g, a, t)
            /\ g.mem = h.mem /\ g.stop = h.stop
            /\ g.base = h.base /\ g.brk = h.brk
            /\ g.pages = h.pages /\ g.full = h.full
            /\ g.slots[1] = h.slots[1]
<1> DEFINE i == GetIndex(h.mem[a].size)
           g == Unlink(h, i, 1)
<1>1. /\ h.mem[a].size \in Nat /\ a \in Nat /\ h.slots[i] = <<a>>
      /\ h.mem[a].size > 32 /\ h.mem[a].size < HUGE_MAX
  BY ZenonT(60) DEF IsMem, PackRecords, Attached
<1>2. i \in SlotIds /\ i # 1
  <2>1. h.mem[a].size <= HUGE_MAX
    BY <1>1 DEF HUGE_MAX
  <2> QED
    BY <2>1, <1>1, IndexRange
<1>3. Len(h.slots[i]) = 1 /\ DropAt(h.slots[i], 1) = <<>>
  BY <1>1 DEF DropAt
<1>4. \A b \in DOMAIN h.mem : IsFree(h.mem, b) => b = a
  BY OneFree
<1>5. \A j \in SlotIds \ {1, i} : h.slots[j] = <<>>
  BY <1>4 DEF Attached
<1>6. h.bitmap \ {i} = {}
  BY <1>5 DEF Attached
<1>7. /\ DOMAIN g = Fields
      /\ g.mem = h.mem /\ g.stop = h.stop
      /\ g.base = h.base /\ g.brk = h.brk
      /\ g.pages = h.pages /\ g.full = h.full
      /\ g.slots = [h.slots EXCEPT ![i] = DropAt(h.slots[i], 1)]
      /\ g.bitmap = h.bitmap \ {i} /\ g.impossible = h.impossible
  BY <1>3 DEF Unlink, Fields
<1>8. a # t /\ a + h.mem[a].size = t
  BY DEF Chain, Geometry, IsFree
<1> HIDE DEF g, i
<1>9. g.slots = [h.slots EXCEPT ![i] = <<>>] /\ g.bitmap = {}
  BY <1>3, <1>6, <1>7
<1>10. /\ IsSlots(g.slots, g.bitmap) /\ Detached(g.slots, g.bitmap)
       /\ g.slots[1] = h.slots[1]
  BY <1>2, <1>5, <1>9 DEF IsSlots, Detached
<1>11. Taken(g, a, t)
  BY <1>4, <1>7, <1>8, <1>10 DEF Taken, TakenIn, Chain
<1> QED
  BY <1>1, <1>2, <1>7, <1>10, <1>11, ZenonT(60) DEF g, i
-----------------------------------------------------------------------------
(* The old tail t as a chunk of fresh pages with a new tail after it. *)
GrownIn(mem, t, size) ==
  Put(ResizedIn(mem, t, size), t + size, Pack(0, 0, {THIS_INUSE}))

(* The packs after malloc_brk has turned the old tail into a chunk.        *)
LEMMA GrownPacks ==
  ASSUME NEW mem, NEW t \in Nat, NEW size \in Nat, size > 0,
         IsMem(mem), Chain(mem, t)
  PROVE  LET n == GrownIn(mem, t, size) IN
         /\ t + size \notin DOMAIN mem
         /\ DOMAIN n = DOMAIN mem \cup {t + size}
         /\ n[t] = Pack(mem[t].prev, size, mem[t].meta)
         /\ n[t + size] = Pack(0, 0, {THIS_INUSE})
         /\ \A x \in DOMAIN mem \ {t} : n[x] = mem[x]
         /\ IsMem(n)
<1>1. t \in DOMAIN mem /\ t + size \notin DOMAIN mem /\ t + size \in Nat
  BY DEF IsMem, Chain, Geometry
<1> DEFINE n == GrownIn(mem, t, size)
<1>2. /\ DOMAIN n = DOMAIN mem \cup {t + size}
      /\ n[t] = Pack(mem[t].prev, size, mem[t].meta)
      /\ n[t + size] = Pack(0, 0, {THIS_INUSE})
      /\ \A x \in DOMAIN mem \ {t} : n[x] = mem[x]
  BY <1>1 DEF GrownIn, ResizedIn, Put
<1> HIDE DEF n
<1>3. IsMem(n)
  BY <1>1, <1>2 DEF IsMem, PackRecords, Pack, Metas, BOTH_INUSE
<1> QED
  BY <1>1, <1>2, <1>3 DEF n

(* No chunk is free: the fresh pages alone are the chunk to allocate. *)
LEMMA GrowInUse ==
  ASSUME NEW mem, NEW t \in Nat, NEW size \in Nat, size > 0,
         IsMem(mem), Chain(mem, t), \A a \in DOMAIN mem : ~IsFree(mem, a)
  PROVE  LET n == GrownIn(mem, t, size) IN
         TakenIn(n, t, t + size) /\ n[t].size = size
<1> DEFINE n == GrownIn(mem, t, size)
           u == t + size
<1>1. /\ u \notin DOMAIN mem
      /\ DOMAIN n = DOMAIN mem \cup {u}
      /\ n[t] = Pack(mem[t].prev, size, mem[t].meta)
      /\ n[u] = Pack(0, 0, {THIS_INUSE})
      /\ \A x \in DOMAIN mem \ {t} : n[x] = mem[x]
      /\ IsMem(n)
  BY GrownPacks, ZenonT(60)
<1>2. u \in Nat /\ t < u /\ t \in DOMAIN mem /\ \A x \in DOMAIN mem : x \in Nat /\ x <= t
  BY DEF IsMem, Chain, Geometry
<1> HIDE DEF n, u
<1>3. n[t].size = size /\ THIS_INUSE \in n[u].meta
  BY <1>1 DEF Pack
<1>4. t + size = u
  BY DEF u
<1>5. ASSUME NEW b \in DOMAIN mem \ {t}
      PROVE  /\ n[b] = mem[b] /\ b < t /\ n[b].size > 0 /\ n[b].size \in Nat
             /\ b + n[b].size \in DOMAIN mem
             /\ \A x \in DOMAIN mem : ~(b < x /\ x < b + n[b].size)
             /\ n[b + n[b].size].prev = n[b].size
             /\ PREV_INUSE \in n[b + n[b].size].meta
             /\ ~IsFree(n, b)
  <2>1. n[b] = mem[b] /\ ~IsFree(mem, b)
    BY <1>1
  <2>2. /\ b < t /\ mem[b].size > 0 /\ b + mem[b].size \in DOMAIN mem
        /\ \A x \in DOMAIN mem : ~(b < x /\ x < b + mem[b].size)
        /\ mem[b + mem[b].size].prev = mem[b].size
        /\ PREV_INUSE \in mem[b + mem[b].size].meta
        /\ mem[b].size \in Nat
    BY <2>1 DEF Chain, Geometry, Tag, IsMem, PackRecords
  <2>3. \A x \in DOMAIN mem : n[x].prev = mem[x].prev /\ n[x].meta = mem[x].meta
    BY <1>1 DEF Pack
  <2> QED
    BY <2>1, <2>2, <2>3 DEF IsFree
<1>6. Geometry(n, u)
  BY <1>1, <1>2, <1>3, <1>4, <1>5 DEF Geometry
<1>7. \A b \in DOMAIN n \ {u, t} : Tag(n, b) /\ ~IsFree(n, b)
  BY <1>1, <1>5 DEF Tag
<1>8. t \in DOMAIN n \ {u}
  BY <1>1, <1>2
<1> QED
  BY <1>1, <1>3, <1>4, <1>6, <1>7, <1>8 DEF TakenIn, n, u

(* The chunk p is free: it takes in the fresh pages. *)
LEMMA GrowMerged ==
  ASSUME NEW mem, NEW t \in Nat, NEW size \in Nat, size > 0,
         IsMem(mem), Chain(mem, t), NEW p \in DOMAIN mem, IsFree(mem, p)
  PROVE  LET n == GrownIn(mem, t, size)
             m == MergedIn(n, p, t)
         IN /\ TakenIn(m, p, t + size)
            /\ m[p].size = mem[p].size + size
            /\ PackPrev(n, t) = p
            /\ n[p] = mem[p]
            /\ n[t].meta = mem[t].meta
<1> DEFINE n == GrownIn(mem, t, size)
           m == MergedIn(n, p, t)
           u == t + size
<1>1. /\ u \notin DOMAIN mem
      /\ DOMAIN n = DOMAIN mem \cup {u}
      /\ n[t] = Pack(mem[t].prev, size, mem[t].meta)
      /\ n[u] = Pack(0, 0, {THIS_INUSE})
      /\ \A x \in DOMAIN mem \ {t} : n[x] = mem[x]
      /\ IsMem(n)
  BY GrownPacks, ZenonT(60)
<1>2. /\ u \in Nat /\ t < u /\ t \in DOMAIN mem
      /\ \A x \in DOMAIN mem : x \in Nat /\ x <= t
      /\ p \in Nat /\ mem[p].size \in Nat /\ p # t /\ p + mem[p].size = t
      /\ mem[t].prev = mem[p].size
      /\ mem[p].prev \in Nat /\ mem[p].meta \in Metas /\ p < t
  <2>1. p \in Nat /\ mem[p] \in PackRecords /\ t \in DOMAIN mem
    BY DEF IsMem, Chain, Geometry
  <2>2. /\ mem[p].size \in Nat /\ mem[p].prev \in Nat /\ mem[p].meta \in Metas
    BY <2>1 DEF PackRecords
  <2>3. /\ p # t /\ p + mem[p].size = t
    BY DEF Chain, Geometry, IsFree
  <2>4. /\ mem[t].prev = mem[p].size /\ p < t
    BY <2>3 DEF Chain, Geometry, Tag
  <2>5. \A x \in DOMAIN mem : x \in Nat /\ x <= t
    BY DEF IsMem, Chain, Geometry
  <2> QED
    BY <2>1, <2>2, <2>3, <2>4, <2>5
<1> HIDE DEF n, u
<1>3. /\ n[t].size = size /\ n[t].prev = mem[p].size /\ n[p] = mem[p]
      /\ n[t].meta = mem[t].meta
  BY <1>1, <1>2 DEF Pack
<1>4. PackNext(n, t) = u /\ PackPrev(n, t) = p
  BY <1>2, <1>3 DEF u, PackNext, PackPrev
<1>5. /\ DOMAIN m = (DOMAIN mem \ {t}) \cup {u}
      /\ m[p] = Pack(mem[p].prev, mem[p].size + size, mem[p].meta)
      /\ m[u] = Pack(mem[p].size + size, n[u].size, n[u].meta)
      /\ \A x \in DOMAIN mem \ {t, p} : m[x] = mem[x]
  BY <1>1, <1>2, <1>3, <1>4 DEF MergedIn
<1> HIDE DEF m
<1>6. m[u] = Pack(mem[p].size + size, 0, {THIS_INUSE})
  BY <1>1, <1>5 DEF Pack
<1>7. IsMem(m)
  BY <1>2, <1>5, <1>6 DEF IsMem, PackRecords, Pack, Metas, BOTH_INUSE
<1>8. /\ m[p].size = mem[p].size + size /\ p + m[p].size = u /\ m[p].size > 0
      /\ THIS_INUSE \in m[u].meta
  BY <1>2, <1>5, <1>6 DEF Pack, u
<1>9. ASSUME NEW b \in DOMAIN mem \ {t, p}
      PROVE  /\ m[b] = mem[b] /\ b < t /\ m[b].size > 0 /\ m[b].size \in Nat
             /\ b + m[b].size \in DOMAIN mem \ {t}
             /\ \A x \in DOMAIN mem : ~(b < x /\ x < b + m[b].size)
             /\ m[b + m[b].size].prev = m[b].size
             /\ PREV_INUSE \in m[b + m[b].size].meta
             /\ ~IsFree(m, b)
  <2>1. m[b] = mem[b] /\ ~IsFree(mem, b)
    BY <1>5, OneFree
  <2>2. /\ b < t /\ mem[b].size > 0 /\ b + mem[b].size \in DOMAIN mem
        /\ \A x \in DOMAIN mem : ~(b < x /\ x < b + mem[b].size)
        /\ mem[b + mem[b].size].prev = mem[b].size
        /\ PREV_INUSE \in mem[b + mem[b].size].meta
        /\ mem[b].size \in Nat /\ b \in Nat
    BY <2>1 DEF Chain, Geometry, Tag, IsMem, PackRecords
  <2>3. ~(p < b /\ b < t)
    BY <1>2 DEF Chain, Geometry
  <2>4. b + mem[b].size # t
    BY <2>2, <2>3, <1>2
  <2>5. \A x \in DOMAIN mem \ {t} : m[x].prev = mem[x].prev /\ m[x].meta = mem[x].meta
    BY <1>5 DEF Pack
  <2> QED
    BY <2>1, <2>2, <2>4, <2>5 DEF IsFree
<1>10. \A x \in DOMAIN m : ~(p < x /\ x < u)
  <2>1. \A x \in DOMAIN mem : ~(p < x /\ x < t)
    BY <1>2 DEF Chain, Geometry
  <2> QED
    BY <2>1, <1>2, <1>5
<1>11. Geometry(m, u)
  BY <1>2, <1>5, <1>8, <1>9, <1>10 DEF Geometry
<1>12. \A b \in DOMAIN m \ {u, p} : Tag(m, b) /\ ~IsFree(m, b)
  BY <1>5, <1>9 DEF Tag
<1>13. p \in DOMAIN m \ {u}
  BY <1>1, <1>2, <1>5
<1> QED
  BY <1>3, <1>4, <1>7, <1>8, <1>11, <1>12, <1>13 DEF TakenIn, n, m, u

(* try_merge_prev in malloc_brk: the last chunk is taken, whole or fresh.  *)
LEMMA BrkTaken ==
  ASSUME NEW k, DOMAIN k = Fields, IsSlots(k.slots, k.bitmap),
         NEW mem, NEW t \in Nat, NEW size \in Nat, size > 0,
         IsMem(mem), Chain(mem, t), Attached(mem, k.slots, k.bitmap),
         k.mem = GrownIn(mem, t, size), k.impossible = FALSE
  PROVE  LET g == TryMergePrev(k, t)
             a == MergedPack(k, t)
         IN /\ Taken(g, a, t + size)
            /\ a \in Nat
            /\ \/ g.mem[a].size = size
               \/ \E p \in DOMAIN mem : /\ IsFree(mem, p)
                                        /\ g.mem[a].size = mem[p].size + size
            /\ g.base = k.base /\ g.brk = k.brk /\ g.stop = k.stop
            /\ g.pages = k.pages /\ g.full = k.full
            /\ g.slots[1] = k.slots[1]
<1>0. k.mem[t].meta = mem[t].meta /\ t \in DOMAIN mem
  <2>1. GrownIn(mem, t, size)[t] = Pack(mem[t].prev, size, mem[t].meta)
    BY GrownPacks, ZenonT(60)
  <2> QED
    BY <2>1 DEF Pack, Chain, Geometry
<1>1. CASE PREV_INUSE \in mem[t].meta
  <2>1. \A a \in DOMAIN mem : ~IsFree(mem, a)
    BY <1>1 DEF Chain, Geometry, Tag, IsFree
  <2>2. TakenIn(k.mem, t, t + size) /\ k.mem[t].size = size
    <3> DEFINE n == GrownIn(mem, t, size)
    <3>1. TakenIn(n, t, t + size) /\ n[t].size = size
      BY <2>1, GrowInUse, ZenonT(60)
    <3> QED
      BY <3>1
  <2>3. Detached(k.slots, k.bitmap)
    BY <2>1 DEF Attached, Detached
  <2>4. TryMergePrev(k, t) = k /\ MergedPack(k, t) = t
    BY <1>0, <1>1 DEF TryMergePrev, MergedPack
  <2> QED
    BY <2>2, <2>3, <2>4 DEF Taken
<1>2. CASE PREV_INUSE \notin mem[t].meta
  <2>1. PICK p \in DOMAIN mem : IsFree(mem, p)
    BY <1>2 DEF Chain
  <2> DEFINE m == MergedIn(k.mem, p, t)
             r == TrySafeRemove(k, p)
             i == GetIndex(mem[p].size)
             g == TryMergePrev(k, t)
  <2>2. /\ TakenIn(m, p, t + size)
        /\ m[p].size = mem[p].size + size
        /\ PackPrev(k.mem, t) = p
        /\ k.mem[p] = mem[p]
    <3> DEFINE n == GrownIn(mem, t, size)
    <3>1. /\ TakenIn(MergedIn(n, p, t), p, t + size)
          /\ MergedIn(n, p, t)[p].size = mem[p].size + size
          /\ PackPrev(n, t) = p
          /\ n[p] = mem[p]
      BY <2>1, GrowMerged, ZenonT(60)
    <3> HIDE DEF n
    <3>2. k.mem = n
      BY DEF n
    <3> QED
      BY <3>1, <3>2
  <2>3. p \in Nat /\ mem[p].size \in Nat
    BY DEF IsMem, PackRecords
  <2>4. /\ k.slots[i] = <<p>> /\ mem[p].size > 32 /\ mem[p].size < HUGE_MAX
    BY <2>1 DEF Attached
  <2>5. i \in SlotIds /\ i # 1
    <3>1. mem[p].size <= HUGE_MAX
      BY <2>3, <2>4 DEF HUGE_MAX
    <3> QED
      BY <3>1, <2>3, <2>4, IndexRange
  <2>6. \A j \in SlotIds \ {1, i} : k.slots[j] = <<>>
    BY <2>1, OneFree DEF Attached
  <2>7. k.bitmap \ {i} = {}
    BY <2>6 DEF Attached
  <2>8. PositionIn(k.slots[i], p) = 1
    BY <2>4 DEF PositionIn
  <2>9. Len(k.slots[i]) = 1 /\ DropAt(k.slots[i], 1) = <<>>
    BY <2>4 DEF DropAt
  <2>10. r = Unlink(k, i, 1)
    BY <2>2, <2>8 DEF TrySafeRemove
  <2>11. g = [r EXCEPT !.mem = m]
    BY <1>0, <1>2, <2>2 DEF TryMergePrev
  <2>12. MergedPack(k, t) = p
    BY <1>0, <1>2, <2>2 DEF MergedPack
  <2> HIDE DEF m, i, r, g
  <2>13. /\ DOMAIN r = Fields
         /\ r.base = k.base /\ r.brk = k.brk /\ r.stop = k.stop
         /\ r.pages = k.pages /\ r.full = k.full
         /\ r.slots = [k.slots EXCEPT ![i] = DropAt(k.slots[i], 1)]
         /\ r.bitmap = k.bitmap \ {i} /\ r.impossible = k.impossible
    BY <2>9, <2>10 DEF Unlink, Fields
  <2>14. /\ DOMAIN g = Fields /\ g.mem = m
         /\ g.base = k.base /\ g.brk = k.brk /\ g.stop = k.stop
         /\ g.pages = k.pages /\ g.full = k.full
         /\ g.slots = r.slots /\ g.bitmap = r.bitmap
         /\ g.impossible = r.impossible
    BY <2>11, <2>13 DEF Fields
  <2>15. /\ IsSlots(g.slots, g.bitmap) /\ Detached(g.slots, g.bitmap)
         /\ g.slots[1] = k.slots[1]
    <3>1. g.slots = [k.slots EXCEPT ![i] = <<>>] /\ g.bitmap = {}
      BY <2>7, <2>9, <2>13, <2>14
    <3> QED
      BY <3>1, <2>5, <2>6 DEF IsSlots, Detached
  <2>16. Taken(g, p, t + size)
    BY <2>2, <2>13, <2>14, <2>15 DEF Taken, m
  <2>17. g.mem[p].size = mem[p].size + size
    BY <2>2, <2>14 DEF m
  <2> QED
    BY <2>1, <2>3, <2>12, <2>14, <2>15, <2>16, <2>17 DEF g
<1> QED
  BY <1>1, <1>2
-----------------------------------------------------------------------------
(* A settled heap is what a call may leave.                                *)
LEMMA SettledServed ==
  ASSUME NEW g, NEW h, NEW k, NEW t \in Nat, Settled(g, k, t),
         k.stop = "no", Base(k.base, k.brk, t),
         k.pages = h.pages, k.full = h.full, k.slots[1] = h.slots[1]
  PROVE  Served(g, h)
<1>1. Lively(g, t)
  BY DEF Settled, Lively
<1>2. Typed(g)
  BY DEF Settled, Typed, Base
<1> QED
  BY <1>1, <1>2 DEF Settled, Served

(* malloc_brk: no chunk is as large as need. *)
LEMMA MallocBrkLemma ==
  ASSUME NEW h, NEW t \in Nat, Lively(h, t), h.stop = "no",
         NEW need \in Nat, need > 32, need <= HUGE_MAX,
         \A a \in DOMAIN h.mem : IsFree(h.mem, a) => h.mem[a].size < need,
         NEW ok \in BOOLEAN
  PROVE  Served(MallocBrk(h, need, ok), h)
<1> DEFINE a    == h.base - 8
           size == PgRoundUp(need)
           m    == ResizedIn(h.mem, a, size)
           f    == [h EXCEPT !.mem = m, !.base = h.base + size]
           k    == [h EXCEPT !.mem = Put(m, a + size, Pack(0, 0, {THIS_INUSE})),
                             !.base = h.base + size,
                             !.brk = h.brk + size]
           g    == MallocBrk(h, need, ok)
<1>1. /\ h.base \in Nat /\ h.brk \in Nat /\ PgRoundUp(h.brk) = h.brk
  BY PageRound DEF Lively, Base
<1>2. /\ size \in Nat /\ size >= need /\ size < need + PAGE_SIZE
      /\ size <= HUGE_MAX /\ size % PAGE_SIZE = 0 /\ size >= PAGE_SIZE
  BY PageRound
<1>3. CASE a >= h.brk
  <2>1. g = [h EXCEPT !.stop = "fault", !.ret = 0]
    BY <1>1, <1>3 DEF MallocBrk
  <2> HIDE DEF g
  <2>2. /\ DOMAIN g = Fields /\ g.mem = h.mem /\ g.slots = h.slots
        /\ g.bitmap = h.bitmap /\ g.base = h.base /\ g.brk = h.brk
        /\ g.stop = "fault" /\ g.ret = 0 /\ g.impossible = h.impossible
        /\ g.pages = h.pages /\ g.full = h.full
    BY <2>1 DEF Lively, Fields
  <2>3. Typed(g)
    BY <1>1, <2>2 DEF Typed, Lively
  <2> QED
    BY <2>2, <2>3 DEF Served, g
<1>4. CASE ~(a >= h.brk)
  <2>1. h.base = h.brk /\ t = a /\ h.brk % PAGE_SIZE = 0
    BY <1>1, <1>4 DEF Lively, Base, PAGE_SIZE
  <2>2. t \in DOMAIN h.mem /\ size > 0
    BY <1>2 DEF Lively, Chain, Geometry, PAGE_SIZE
  <2>3. CASE ~ok
    <3>1. g = [f EXCEPT !.ret = 0]
      BY <1>1, <1>4, <2>3 DEF MallocBrk
    <3>2. /\ DOMAIN m = DOMAIN h.mem
          /\ m[t] = Pack(h.mem[t].prev, size, h.mem[t].meta)
          /\ \A x \in DOMAIN h.mem \ {t} : m[x] = h.mem[x]
      BY <2>1, <2>2 DEF ResizedIn
    <3> HIDE DEF m, size
    <3>3. /\ DOMAIN g = Fields /\ g.mem = m /\ g.slots = h.slots
          /\ g.bitmap = h.bitmap /\ g.base = h.base + size /\ g.brk = h.brk
          /\ g.stop = "no" /\ g.ret = 0 /\ g.impossible = h.impossible
          /\ g.pages = h.pages /\ g.full = h.full
      BY <3>1 DEF Lively, Fields
    <3> HIDE DEF g
    <3>4. IsMem(m)
      BY <1>2, <2>2, <3>2 DEF Lively, IsMem, PackRecords, Pack
    <3>5. /\ \A x \in DOMAIN m : /\ m[x].prev = h.mem[x].prev
                                 /\ m[x].meta = h.mem[x].meta
          /\ ~IsFree(m, t)
      BY <3>2 DEF Pack, Lively, Chain, Geometry, IsFree
    <3>6. Chain(m, t)
      <4>1. Chain(h.mem, t) /\ Geometry(h.mem, t)
        BY DEF Lively, Chain
      <4>2. \A x \in DOMAIN m : IsFree(m, x) <=> IsFree(h.mem, x)
        BY <3>2, <3>5 DEF IsFree
      <4>3. Geometry(m, t)
        BY <3>2, <3>5, <4>1 DEF Geometry
      <4>4. ASSUME NEW x \in DOMAIN m \ {t}
            PROVE  /\ Tag(m, x)
                   /\ IsFree(m, x) => /\ x + m[x].size = t
                                      /\ m[x].meta = {PREV_INUSE}
        <5>1. m[x] = h.mem[x] /\ x + h.mem[x].size \in DOMAIN m
          BY <3>2, <4>1 DEF Geometry
        <5>2. /\ Tag(h.mem, x)
              /\ IsFree(h.mem, x) => /\ x + h.mem[x].size = t
                                     /\ h.mem[x].meta = {PREV_INUSE}
          BY <3>2, <4>1 DEF Chain
        <5> QED
          BY <3>5, <4>2, <5>1, <5>2 DEF Tag
      <4>5. PREV_INUSE \notin m[t].meta => \E x \in DOMAIN m : IsFree(m, x)
        BY <2>2, <3>2, <3>5, <4>1, <4>2 DEF Chain
      <4> QED
        BY <4>3, <4>4, <4>5 DEF Chain
    <3>7. Attached(m, h.slots, h.bitmap)
      <4>1. \A x \in DOMAIN m : /\ IsFree(m, x) <=> IsFree(h.mem, x)
                                /\ IsFree(m, x) => m[x].size = h.mem[x].size
        BY <3>2, <3>5 DEF IsFree
      <4>2. DOMAIN m = DOMAIN h.mem /\ Attached(h.mem, h.slots, h.bitmap)
        BY <3>2 DEF Lively
      <4> QED
        BY <4>1, <4>2, ZenonT(60) DEF Attached
    <3>8. Base(g.base, g.brk, t)
      <4>1. h.base + size \in Nat /\ h.base + size >= h.brk + PAGE_SIZE
        BY <1>1, <1>2, <2>1 DEF PAGE_SIZE
      <4> QED
        BY <4>1, <1>1, <2>1, <3>3 DEF Base
    <3>9. Lively(g, t)
      BY <3>3, <3>4, <3>6, <3>7, <3>8 DEF Lively
    <3>10. Typed(g)
      BY <3>3, <3>9 DEF Typed, Lively, Base
    <3> QED
      BY <3>3, <3>9, <3>10 DEF Served, g
  <2>4. CASE ok
    <3> DEFINE r == TryMergePrev(k, t)
               b == MergedPack(k, t)
    <3>1. g = TrySplitAllocate(r, b, need)
      BY <1>1, <1>4, <2>1, <2>4 DEF MallocBrk
    <3>2. /\ DOMAIN k = Fields /\ k.mem = GrownIn(h.mem, t, size)
          /\ k.slots = h.slots /\ k.bitmap = h.bitmap
          /\ k.base = h.base + size /\ k.brk = h.brk + size /\ k.stop = "no"
          /\ k.impossible = FALSE /\ k.pages = h.pages /\ k.full = h.full
      BY <2>1 DEF Lively, Fields, GrownIn
    <3> HIDE DEF g, k, size
    <3>3. /\ Taken(r, b, t + size)
          /\ b \in Nat
          /\ \/ r.mem[b].size = size
             \/ \E p \in DOMAIN h.mem : /\ IsFree(h.mem, p)
                                        /\ r.mem[b].size = h.mem[p].size + size
          /\ r.base = k.base /\ r.brk = k.brk /\ r.stop = k.stop
          /\ r.pages = k.pages /\ r.full = k.full
          /\ r.slots[1] = k.slots[1]
      BY <1>2, <2>2, <3>2, BrkTaken, ZenonT(60) DEF Lively
    <3> HIDE DEF r, b
    <3>4. /\ r.mem[b].size >= need /\ r.mem[b].size - need < HUGE_MAX
      <4>1. CASE r.mem[b].size = size
        BY <4>1, <1>2 DEF PAGE_SIZE, HUGE_MAX
      <4>2. ASSUME NEW p \in DOMAIN h.mem, IsFree(h.mem, p),
                   r.mem[b].size = h.mem[p].size + size
            PROVE  /\ r.mem[b].size >= need /\ r.mem[b].size - need < HUGE_MAX
        <5>1. h.mem[p].size \in Nat /\ h.mem[p].size < need
          BY <4>2 DEF Lively, IsMem, PackRecords
        <5> QED
          BY <5>1, <4>2, <1>2 DEF HUGE_MAX
      <4> QED
        BY <4>1, <4>2, <3>3
    <3>5. t + size \in Nat
      BY <1>2
    <3>6. Settled(g, r, t + size)
      BY <3>1, <3>3, <3>4, <3>5, TrySplitLemma, ZenonT(60)
    <3>7. Base(r.base, r.brk, t + size)
      <4>1. (h.brk + size) % PAGE_SIZE = 0
        BY <1>1, <1>2, <2>1 DEF PAGE_SIZE
      <4> QED
        BY <4>1, <1>1, <1>2, <2>1, <3>2, <3>3 DEF Base
    <3> QED
      BY <3>2, <3>3, <3>5, <3>6, <3>7, SettledServed DEF g
  <2> QED
    BY <2>3, <2>4
<1> QED
  BY <1>3, <1>4

-----------------------------------------------------------------------------
(* A chunk on a list is the free chunk of that slot. *)
LEMMA ListedChunk ==
  ASSUME NEW h, NEW t \in Nat, Lively(h, t),
         NEW i \in SlotIds \ {1}, h.slots[i] # <<>>
  PROVE  \E a \in DOMAIN h.mem : /\ IsFree(h.mem, a)
                                 /\ GetIndex(h.mem[a].size) = i
                                 /\ h.slots[i] = <<a>>
                                 /\ a \in Nat /\ h.mem[a].size \in Nat
                                 /\ h.mem[a].size > 32
                                 /\ h.mem[a].size < HUGE_MAX
<1>1. PICK a \in DOMAIN h.mem : IsFree(h.mem, a) /\ GetIndex(h.mem[a].size) = i
  BY DEF Lively, Attached
<1>2. /\ h.slots[i] = <<a>> /\ h.mem[a].size > 32 /\ h.mem[a].size < HUGE_MAX
  BY <1>1, ZenonT(60) DEF Lively, Attached
<1>3. a \in Nat /\ h.mem[a].size \in Nat
  BY DEF Lively, IsMem, PackRecords
<1> QED
  BY <1>1, <1>2, <1>3

(* next_allocate, when no chunk that fits is left in slot i itself: a      *)
(* higher slot serves the request, or malloc_brk, or the process faults.   *)
LEMMA NextAllocateLemma ==
  ASSUME NEW h, NEW t \in Nat, Lively(h, t), h.stop = "no",
         NEW need \in Nat, need > 32, need <= HUGE_MAX,
         NEW i, i = GetIndex(need),
         \A a \in DOMAIN h.mem :
           IsFree(h.mem, a) /\ GetIndex(h.mem[a].size) = i
             => h.mem[a].size < need,
         NEW all \in BOOLEAN, NEW ok \in BOOLEAN
  PROVE  Served(NextAllocate(h, i, need, all, ok), h)
<1> DEFINE S == NextFree(h, i, all)
           j == Lowest(S)
           g == NextAllocate(h, i, need, all, ok)
<1>1. i \in SlotIds /\ i >= 2 /\ i \in Int
  BY IndexRange DEF SlotIds, NSLOTS
<1>2. S \subseteq h.bitmap
  BY DEF NextFree
<1>3. CASE S = {}
  <2>1. \A a \in DOMAIN h.mem : IsFree(h.mem, a) => h.mem[a].size < need
    <3> SUFFICES ASSUME NEW a \in DOMAIN h.mem, IsFree(h.mem, a),
                        ~(h.mem[a].size < need)
                 PROVE  FALSE
      OBVIOUS
    <3> DEFINE c == GetIndex(h.mem[a].size)
    <3>1. /\ h.mem[a].size \in Nat /\ h.mem[a].size > 32
          /\ h.mem[a].size < HUGE_MAX /\ h.slots[c] = <<a>>
      BY ZenonT(60) DEF Lively, Attached, IsMem, PackRecords
    <3>2. h.mem[a].size <= HUGE_MAX /\ h.mem[a].size >= need
      BY <3>1 DEF HUGE_MAX
    <3>3. c \in SlotIds /\ c >= 2 /\ c >= i
      BY <3>1, <3>2, IndexRange, IndexMonotone
    <3> HIDE DEF c
    <3>4. c \in h.bitmap
      <4>1. c # 1 /\ <<a>> # <<>>
        BY <3>3
      <4> QED
        BY <3>1, <3>3, <4>1, ZenonT(60) DEF Lively, Attached
    <3>5. c # i
      BY DEF c
    <3>6. c > i /\ i # 63
      BY <1>1, <3>3, <3>5 DEF SlotIds, NSLOTS
    <3> QED
      BY <1>3, <3>4, <3>6 DEF NextFree
  <2>2. g = MallocBrk(h, need, ok)
    BY <1>3 DEF NextAllocate
  <2> QED
    BY <2>1, <2>2, MallocBrkLemma
<1>4. CASE S # {}
  <2>1. h.bitmap \subseteq SlotIds \ {1} /\ \A b \in h.bitmap : h.slots[b] # <<>>
    BY DEF Lively, Attached
  <2>2. PICK b \in S : TRUE
    BY <1>4
  <2>3. b \in SlotIds \ {1} /\ h.slots[b] # <<>>
    BY <1>2, <2>1
  <2>4. PICK a \in DOMAIN h.mem : /\ IsFree(h.mem, a)
                                 /\ GetIndex(h.mem[a].size) = b
                                 /\ h.slots[b] = <<a>>
                                 /\ a \in Nat /\ h.mem[a].size \in Nat
                                 /\ h.mem[a].size > 32
                                 /\ h.mem[a].size < HUGE_MAX
    BY <2>3, ListedChunk
  <2>5. \A c \in S : c = b
    <3> SUFFICES ASSUME NEW c \in S PROVE c = b
      OBVIOUS
    <3>1. c \in SlotIds \ {1} /\ h.slots[c] # <<>>
      BY <1>2, <2>1
    <3>2. PICK x \in DOMAIN h.mem : IsFree(h.mem, x) /\ GetIndex(h.mem[x].size) = c
      BY <3>1, ListedChunk
    <3>3. x = a
      BY <2>4, <3>2, OneFree DEF Lively
    <3> QED
      BY <2>4, <3>2, <3>3
  <2>6. j = b
    <3>1. b \in Int
      BY <2>3 DEF SlotIds, NSLOTS
    <3>2. \E c \in S : \A d \in S : c <= d
      BY <2>5, <3>1
    <3> HIDE DEF S
    <3>3. j \in S
      BY <3>2 DEF Lowest
    <3> QED
      BY <2>5, <3>3
  <2> DEFINE k == Unlink(h, b, 1)
  <2>7. g = TrySplitAllocate(k, a, need)
    <3>1. h.slots[b][1] = a
      BY <2>4
    <3>2. g = TrySplitAllocate(ListExtract(h, j), h.slots[j][1], need)
      BY <1>4, ZenonT(60) DEF NextAllocate
    <3> QED
      BY <2>6, <3>1, <3>2 DEF ListExtract
  <2>8. /\ Taken(k, a, t) /\ k.mem = h.mem /\ k.stop = h.stop
        /\ k.base = h.base /\ k.brk = h.brk
        /\ k.pages = h.pages /\ k.full = h.full
        /\ k.slots[1] = h.slots[1]
    BY <2>4, UnlinkLemma, ZenonT(60) DEF Lively
  <2> HIDE DEF k, g
  <2>9. CASE k.mem[a].size < need
    <3>1. /\ DOMAIN g = Fields /\ g.mem = k.mem /\ g.slots = k.slots
          /\ g.bitmap = k.bitmap /\ g.stop = "fault" /\ g.ret = 0
          /\ g.pages = k.pages /\ g.full = k.full
          /\ g.base = k.base /\ g.brk = k.brk /\ g.impossible = k.impossible
      <4>1. DOMAIN k = Fields
        BY <2>8 DEF Taken
      <4> DEFINE f == TrySplitAllocate(k, a, need)
      <4>2. /\ DOMAIN f = Fields /\ f.mem = k.mem /\ f.slots = k.slots
            /\ f.bitmap = k.bitmap /\ f.stop = "fault" /\ f.ret = 0
            /\ f.pages = k.pages /\ f.full = k.full
            /\ f.base = k.base /\ f.brk = k.brk /\ f.impossible = k.impossible
        BY <2>9, <4>1, TrySplitFaults, SMTT(60)
      <4> QED
        BY <2>7, <4>2, ZenonT(60)
    <3>2. Typed(g)
      <4>1. /\ IsMem(k.mem) /\ IsSlots(k.slots, k.bitmap) /\ k.impossible = FALSE
        BY <2>8, Zenon DEF Taken, TakenIn
      <4>2. k.base \in Nat /\ k.brk \in Nat /\ g.ret \in Nat
        BY <2>8, <3>1 DEF Lively, Base
      <4> QED
        BY <3>1, <4>1, <4>2, Zenon DEF Typed
    <3> QED
      BY <2>8, <3>1, <3>2 DEF Served, g
  <2>10. CASE ~(k.mem[a].size < need)
    <3>1. k.mem[a].size >= need /\ k.mem[a].size - need < HUGE_MAX
      BY <2>4, <2>8, <2>10 DEF HUGE_MAX
    <3>2. Settled(g, k, t)
      BY <2>4, <2>7, <2>8, <3>1, TrySplitLemma, ZenonT(60)
    <3> QED
      BY <2>8, <3>2, SettledServed DEF Lively, g
  <2> QED
    BY <2>9, <2>10
<1> QED
  BY <1>3, <1>4

(* malloc_huge and malloc_middle. *)
LEMMA MallocListedLemma ==
  ASSUME NEW h, NEW t \in Nat, Lively(h, t), h.stop = "no",
         NEW need \in Nat, need > 32, need <= HUGE_MAX,
         NEW limit \in Nat, limit > 0,
         NEW all \in BOOLEAN, NEW ok \in BOOLEAN
  PROVE  Served(MallocListed(h, need, limit, all, ok), h)
<1> DEFINE i == GetIndex(need)
           F == Fits(h, i, need, limit)
           g == MallocListed(h, need, limit, all, ok)
<1>1. i \in SlotIds \ {1}
  BY IndexRange
<1>2. CASE F # {}
  <2>1. h.slots[i] # <<>>
    BY <1>2 DEF Fits
  <2>2. PICK a \in DOMAIN h.mem : /\ IsFree(h.mem, a)
                                 /\ GetIndex(h.mem[a].size) = i
                                 /\ h.slots[i] = <<a>> /\ a \in Nat
    BY <1>1, <2>1, ListedChunk
  <2> DEFINE k == Unlink(h, i, 1)
  <2>3. F = {1}
    BY <1>2, <2>2 DEF Fits
  <2>4. Lowest(F) = 1
    BY <2>3 DEF Lowest
  <2>5. g = PackAllocate(k, a)
    <3>1. h.slots[i][1] = a
      BY <2>2
    <3>2. g = IterativeAllocate(h, i, need, limit)
      BY <1>2, ZenonT(60) DEF MallocListed
    <3> QED
      BY <2>4, <3>1, <3>2 DEF IterativeAllocate
  <2> HIDE DEF i, F
  <2>6. /\ Taken(k, a, t) /\ k.stop = h.stop
        /\ k.base = h.base /\ k.brk = h.brk
        /\ k.pages = h.pages /\ k.full = h.full
        /\ k.slots[1] = h.slots[1]
    BY <2>2, UnlinkLemma, ZenonT(60) DEF Lively
  <2> HIDE DEF k, g
  <2>7. Settled(g, k, t)
    BY <2>2, <2>5, <2>6, PackAllocateLemma
  <2> QED
    BY <2>6, <2>7, SettledServed DEF Lively, g
<1>3. CASE F = {}
  <2>1. ASSUME NEW a \in DOMAIN h.mem, IsFree(h.mem, a),
               GetIndex(h.mem[a].size) = i
        PROVE  h.mem[a].size < need
    <3>1. h.slots[i] = <<a>> /\ h.mem[a].size \in Nat
      BY <2>1, ZenonT(60) DEF Lively, Attached, IsMem, PackRecords
    <3> HIDE DEF i
    <3>2. 1 \in 1 .. Len(h.slots[i]) /\ h.slots[i][1] = a
      BY <3>1
    <3> QED
      BY <1>3, <3>1, <3>2 DEF Fits
  <2>2. g = NextAllocate(h, i, need, all, ok)
    BY <1>3, ZenonT(60) DEF MallocListed
  <2> HIDE DEF i
  <2> QED
    BY <2>1, <2>2, NextAllocateLemma DEF i
<1> QED
  BY <1>2, <1>3

(* malloc_tiny for more than 32 bytes: whatever chunk the slot holds. *)
LEMMA MallocTinyLemma ==
  ASSUME NEW h, NEW t \in Nat, Lively(h, t), h.stop = "no",
         NEW size \in Nat, size > 32, size <= 512,
         NEW all \in BOOLEAN, NEW ok \in BOOLEAN
  PROVE  Served(MallocTiny(h, size, all, ok), h)
<1> DEFINE i    == (size - 1) \div 16
           need == (i + 1) * 16
           g    == MallocTiny(h, size, all, ok)
<1>1. /\ i = GetIndex(size) /\ need \in Nat /\ need > 32 /\ need <= 512
      /\ i = GetIndex(need) /\ need <= HUGE_MAX /\ size <= HUGE_MAX
  BY DEF GetIndex, HUGE_MAX
<1>2. i \in SlotIds \ {1}
  BY <1>1, IndexRange
<1>3. CASE h.slots[i] # <<>>
  <2>1. PICK a \in DOMAIN h.mem : /\ IsFree(h.mem, a)
                                 /\ GetIndex(h.mem[a].size) = i
                                 /\ h.slots[i] = <<a>> /\ a \in Nat
    BY <1>2, <1>3, ListedChunk
  <2> DEFINE k == Unlink(h, i, 1)
  <2>2. g = PackAllocate(k, a)
    <3>1. h.slots[i][1] = a
      BY <2>1
    <3>2. g = PackAllocate(ListExtract(h, i), h.slots[i][1])
      BY <1>3 DEF MallocTiny
    <3> QED
      BY <3>1, <3>2 DEF ListExtract
  <2> HIDE DEF i
  <2>3. /\ Taken(k, a, t) /\ k.stop = h.stop
        /\ k.base = h.base /\ k.brk = h.brk
        /\ k.pages = h.pages /\ k.full = h.full
        /\ k.slots[1] = h.slots[1]
    BY <2>1, UnlinkLemma, ZenonT(60) DEF Lively
  <2> HIDE DEF k, g
  <2>4. Settled(g, k, t)
    BY <2>1, <2>2, <2>3, PackAllocateLemma
  <2> QED
    BY <2>3, <2>4, SettledServed DEF Lively, g
<1>4. CASE h.slots[i] = <<>>
  <2>1. g = NextAllocate(h, i, need, all, ok)
    BY <1>4 DEF MallocTiny
  <2> HIDE DEF i, need
  <2>2. \A a \in DOMAIN h.mem : ~(IsFree(h.mem, a) /\ GetIndex(h.mem[a].size) = i)
    <3>1. \A a : <<a>> # <<>>
      OBVIOUS
    <3> QED
      BY <1>4, <3>1, ZenonT(60) DEF Lively, Attached
  <2> QED
    BY <1>1, <2>1, <2>2, NextAllocateLemma
<1> QED
  BY <1>3, <1>4
-----------------------------------------------------------------------------
(* Slot 1 is empty or holds one page, which counts its free cells. *)
PageOK(slot, pages) ==
  slot # <<>> =>
    \E a \in Nat : /\ slot = <<a>> /\ a \in DOMAIN pages
                   /\ pages[a].free \subseteq LowCells \cup HighCells
                   /\ pages[a].count = Cardinality(pages[a].free)
                   /\ pages[a].free # {}

(* A fresh fast page has 2 * Cells free cells.                             *)
LEMMA AllCells ==
  /\ LowCells \subseteq 0 .. 127 /\ HighCells \subseteq 0 .. 127
  /\ LowCells \cup HighCells # {}
  /\ IsFiniteSet(LowCells \cup HighCells)
  /\ Cardinality(LowCells \cup HighCells) = 2 * Cells
<1>1. Cells \in Nat /\ 1 <= Cells /\ Cells <= 64
  BY UmmallocAssumption
<1>2. /\ IsFiniteSet(LowCells) /\ Cardinality(LowCells) = Cells
  BY <1>1, FS_Interval DEF LowCells
<1>3. /\ IsFiniteSet(HighCells) /\ Cardinality(HighCells) = Cells
  BY <1>1, FS_Interval DEF HighCells
<1>4. LowCells \cap HighCells = {}
  BY <1>1 DEF LowCells, HighCells
<1>5. /\ IsFiniteSet(LowCells \cup HighCells)
      /\ Cardinality(LowCells \cup HighCells) = Cells + Cells - 0
  BY <1>2, <1>3, <1>4, FS_Union, FS_EmptySet
<1>6. /\ LowCells \subseteq 0 .. 127 /\ HighCells \subseteq 0 .. 127
      /\ 0 \in LowCells
  BY <1>1 DEF LowCells, HighCells
<1> QED
  BY <1>1, <1>5, <1>6

(* g is h but for slot 1, pages, full and ret. *)
SameChunks(g, h, s) ==
  /\ DOMAIN g = Fields
  /\ g.mem = h.mem /\ g.bitmap = h.bitmap /\ g.base = h.base /\ g.brk = h.brk
  /\ g.impossible = FALSE
  /\ s \in Seq(Nat) /\ g.slots = [h.slots EXCEPT ![1] = s]

(* Slot 1 has no part in the free chunks' lists. *)
LEMMA OtherSlots ==
  ASSUME NEW h, NEW t \in Nat, Lively(h, t), NEW g, NEW s, SameChunks(g, h, s)
  PROVE  Lively(g, t) /\ g.slots[1] = s
<1> USE DEF SameChunks
<1>1. 1 \in SlotIds
  BY DEF SlotIds, NSLOTS
<1>2. /\ IsSlots(g.slots, g.bitmap) /\ g.slots[1] = s
      /\ \A i \in SlotIds \ {1} : g.slots[i] = h.slots[i]
  BY <1>1 DEF Lively, IsSlots
<1>3. \A a \in DOMAIN h.mem :
        IsFree(h.mem, a) => GetIndex(h.mem[a].size) \in SlotIds \ {1}
  <2> SUFFICES ASSUME NEW a \in DOMAIN h.mem, IsFree(h.mem, a)
               PROVE  GetIndex(h.mem[a].size) \in SlotIds \ {1}
    OBVIOUS
  <2>1. /\ h.mem[a].size \in Nat /\ h.mem[a].size > 32 /\ h.mem[a].size < HUGE_MAX
    BY DEF Lively, Attached, IsMem, PackRecords
  <2>2. h.mem[a].size <= HUGE_MAX
    BY <2>1 DEF HUGE_MAX
  <2> QED
    BY <2>1, <2>2, IndexRange
<1>4. Attached(g.mem, g.slots, g.bitmap)
  <2>1. Attached(h.mem, h.slots, h.bitmap)
    BY DEF Lively
  <2>2. \A a \in DOMAIN h.mem :
         IsFree(h.mem, a) => /\ h.mem[a].size > 32
                             /\ h.mem[a].size < HUGE_MAX
                             /\ g.slots[GetIndex(h.mem[a].size)] = <<a>>
    BY <1>2, <1>3, <2>1, ZenonT(60) DEF Attached
  <2>3. \A i \in SlotIds \ {1} :
         g.slots[i] # <<>> =>
           \E a \in DOMAIN h.mem : IsFree(h.mem, a) /\ GetIndex(h.mem[a].size) = i
    BY <1>2, <2>1, ZenonT(60) DEF Attached
  <2>4. h.bitmap = {i \in SlotIds \ {1} : g.slots[i] # <<>>}
    BY <1>2, <2>1 DEF Attached
  <2> QED
    BY <2>2, <2>3, <2>4 DEF Attached
<1> QED
  BY <1>2, <1>4 DEF Lively

(* malloc_fast's first half: a page with a free cell, or no more process. *)
LEMMA FastBinReserveLemma ==
  ASSUME NEW h, NEW t \in Nat, Lively(h, t), Typed(h), h.stop = "no",
         PageOK(h.slots[1], h.pages),
         NEW all \in BOOLEAN, NEW ok \in BOOLEAN
  PROVE  LET g == FastBinReserve(h, all, ok) IN
         /\ Typed(g) /\ g.stop \in {"no", "fault"}
         /\ g.stop = "no" => /\ \E u \in Nat : Lively(g, u)
                             /\ PageOK(g.slots[1], g.pages)
                             /\ g.slots[1] # <<>>
<1> DEFINE k == MallocHuge(h, 4096 + 48, all, ok)
           a == k.ret - 8
           g == FastBinReserve(h, all, ok)
<1>1. CASE h.slots[1] # <<>>
  BY <1>1 DEF FastBinReserve
<1>2. CASE h.slots[1] = <<>>
  <2>1. Served(k, h)
    <3>1. 4096 + 48 \in Nat /\ 4096 + 48 > 32 /\ 4096 + 48 <= HUGE_MAX
      BY DEF HUGE_MAX
    <3>2. 8 \in Nat /\ 8 > 0
      OBVIOUS
    <3>3. k = MallocListed(h, 4096 + 48, 8, all, ok)
      BY DEF MallocHuge
    <3> QED
      BY <3>1, <3>2, <3>3, MallocListedLemma
  <2>2. CASE k.ret = 0
    <3>1. g = [k EXCEPT !.stop = "fault"]
      BY <1>2, <2>2 DEF FastBinReserve
    <3> HIDE DEF g, k
    <3>2. /\ DOMAIN g = Fields /\ g.mem = k.mem /\ g.slots = k.slots
          /\ g.bitmap = k.bitmap /\ g.base = k.base /\ g.brk = k.brk
          /\ g.stop = "fault" /\ g.ret = k.ret /\ g.impossible = k.impossible
      BY <2>1, <3>1 DEF Served, Typed, Fields
    <3> QED
      BY <2>1, <3>2 DEF Served, Typed, g
  <2>3. CASE k.ret # 0
    <3> DEFINE page == [count |-> 2 * Cells, free |-> LowCells \cup HighCells]
    <3>1. g = [k EXCEPT !.slots = [k.slots EXCEPT ![1] = <<a>> \o k.slots[1]],
                        !.pages = Put(k.pages, a, page)]
      BY <1>2, <2>3 DEF FastBinReserve
    <3>2. a \in Nat /\ k.slots[1] = <<>>
      BY <1>2, <2>1, <2>3 DEF Served, Typed
    <3> HIDE DEF g, k, a
    <3>3. <<a>> \o <<>> = <<a>> /\ <<a>> \in Seq(Nat) /\ <<a>> # <<>>
      BY <3>2
    <3>4. /\ DOMAIN g = Fields /\ g.mem = k.mem
          /\ g.bitmap = k.bitmap /\ g.base = k.base /\ g.brk = k.brk
          /\ g.stop = k.stop /\ g.ret = k.ret /\ g.impossible = k.impossible
          /\ g.slots = [k.slots EXCEPT ![1] = <<a>> \o k.slots[1]]
          /\ g.pages = Put(k.pages, a, page)
      <4> HIDE DEF page
      <4> QED
        BY <2>1, <3>1 DEF Served, Typed, Fields
    <3>5. g.slots = [k.slots EXCEPT ![1] = <<a>>]
      BY <3>2, <3>3, <3>4
    <3>6. Typed(g)
      BY <2>1, <3>3, <3>4, <3>5, ZenonT(60) DEF Served, Typed, IsSlots
    <3>7. a \in DOMAIN g.pages /\ g.pages[a] = page
      <4> HIDE DEF page
      <4> QED
        BY <3>4 DEF Put
    <3>8. PageOK(<<a>>, g.pages)
      <4>1. /\ g.pages[a].free = LowCells \cup HighCells
            /\ g.pages[a].count = 2 * Cells
        BY <3>7
      <4>2. /\ g.pages[a].free \subseteq LowCells \cup HighCells
            /\ g.pages[a].count = Cardinality(g.pages[a].free)
            /\ g.pages[a].free # {}
        BY <4>1, AllCells
      <4> QED
        BY <3>2, <3>7, <4>2, ZenonT(60) DEF PageOK
    <3>9. CASE g.stop = "no"
      <4>1. PICK u \in Nat : Lively(k, u)
        BY <2>1, <3>4, <3>9 DEF Served
      <4>2. Lively(g, u) /\ g.slots[1] = <<a>>
        <5>1. SameChunks(g, k, <<a>>)
          BY <2>1, <3>3, <3>4, <3>5 DEF Served, Typed, SameChunks
        <5> QED
          BY <4>1, <5>1, OtherSlots
      <4> QED
        BY <3>3, <3>6, <3>8, <3>9, <4>2 DEF g
    <3> QED
      BY <2>1, <3>4, <3>6, <3>9 DEF Served, g
  <2> QED
    BY <2>2, <2>3
<1> QED
  BY <1>1, <1>2

(* The cell fast_allocate takes is a free one of the page. *)
LEMMA CellTaken ==
  ASSUME NEW free, free \subseteq LowCells \cup HighCells, free # {}
  PROVE  LET cell == IF free \cap LowCells # {}
                     THEN Highest(free \cap LowCells)
                     ELSE Highest(free \cap HighCells)
         IN /\ cell \in free /\ cell \in Nat
            /\ IsFiniteSet(free)
            /\ Cardinality(free \ {cell}) = Cardinality(free) - 1
            /\ Cardinality(free) \in Nat
            /\ Cardinality(free) = 1 <=> free \ {cell} = {}
<1> DEFINE L == free \cap LowCells
           H == free \cap HighCells
           cell == IF L # {} THEN Highest(L) ELSE Highest(H)
<1>1. L \subseteq 0 .. 127 /\ H \subseteq 0 .. 127 /\ (L = {} => H # {})
  BY AllCells, ZenonT(60)
<1>2. L # {} => Highest(L) \in L
  BY <1>1, HighestIn, ZenonT(60)
<1>3. H # {} => Highest(H) \in H
  BY <1>1, HighestIn, ZenonT(60)
<1>4. cell \in free /\ cell \in Nat
  <2>1. cell \in L \/ cell \in H
    BY <1>1, <1>2, <1>3
  <2>2. cell \in 0 .. 127
    BY <2>1, <1>1
  <2> QED
    BY <2>1, <2>2
<1> HIDE DEF cell
<1>5. IsFiniteSet(free)
  BY AllCells, FS_Subset, ZenonT(60)
<1>6. /\ Cardinality(free \ {cell}) = Cardinality(free) - 1
      /\ IsFiniteSet(free \ {cell})
  BY <1>4, <1>5, FS_RemoveElement
<1>7. Cardinality(free) \in Nat /\ Cardinality(free \ {cell}) \in Nat
  BY <1>5, <1>6, FS_CardinalityType
<1>8. Cardinality(free \ {cell}) = 0 <=> free \ {cell} = {}
  BY <1>6, FS_EmptySet, ZenonT(60)
<1>9. Cardinality(free) = 1 <=> free \ {cell} = {}
  BY <1>6, <1>7, <1>8
<1> QED
  BY <1>4, <1>5, <1>6, <1>7, <1>9, ZenonT(60) DEF cell

(* fast_allocate keeps the chunks and the page's count.                    *)
LEMMA FastAllocateLemma ==
  ASSUME NEW h, NEW t \in Nat, Lively(h, t), Typed(h), h.stop = "no",
         PageOK(h.slots[1], h.pages), h.slots[1] # <<>>
  PROVE  LET g == FastAllocate(h) IN
         /\ Typed(g) /\ g.stop = "no" /\ Lively(g, t)
         /\ PageOK(g.slots[1], g.pages)
<1>1. PICK a \in Nat : /\ h.slots[1] = <<a>> /\ a \in DOMAIN h.pages
                       /\ h.pages[a].free \subseteq LowCells \cup HighCells
                       /\ h.pages[a].count = Cardinality(h.pages[a].free)
                       /\ h.pages[a].free # {}
  BY DEF PageOK
<1> DEFINE free == h.pages[a].free
           count == h.pages[a].count
           cell == IF free \cap LowCells # {}
                   THEN Highest(free \cap LowCells)
                   ELSE Highest(free \cap HighCells)
           rest == IF count = 1 THEN DropAt(<<a>>, 1) ELSE <<a>>
           page == [count |-> count - 1, free |-> free \ {cell}]
           bad  == (h.impossible \/ count = 0 \/ free = {})
           g == FastAllocate(h)
<1>2. h.slots[1][1] = a
  BY <1>1
<1>3. /\ cell \in free /\ cell \in Nat
      /\ Cardinality(free \ {cell}) = Cardinality(free) - 1
      /\ Cardinality(free) \in Nat
      /\ Cardinality(free) = 1 <=> free \ {cell} = {}
      /\ IsFiniteSet(free)
  BY <1>1, CellTaken, ZenonT(60)
<1>4. count \in Nat /\ count > 0
  <2>1. Cardinality(free) # 0
    BY <1>1, <1>3, FS_EmptySet, ZenonT(60)
  <2> HIDE DEF cell
  <2>2. count = Cardinality(free)
    BY <1>1
  <2> HIDE DEF count, free
  <2> QED
    BY <1>3, <2>1, <2>2
<1>5. rest \in Seq(Nat) /\ rest = IF count = 1 THEN <<>> ELSE <<a>>
  BY <1>1 DEF DropAt
<1>6. /\ DOMAIN g = Fields
      /\ g.mem = h.mem /\ g.bitmap = h.bitmap /\ g.base = h.base
      /\ g.brk = h.brk /\ g.stop = h.stop
      /\ g.slots = [h.slots EXCEPT ![1] = rest]
      /\ g.pages = [h.pages EXCEPT ![a] = page]
      /\ g.ret = CellData(a, cell)
  <2>1. g = [h EXCEPT !.slots = [h.slots EXCEPT ![1] = rest],
                      !.full = IF count = 1 THEN <<a>> \o h.full ELSE h.full,
                      !.pages = [h.pages EXCEPT ![a] = page],
                      !.impossible = bad,
                      !.ret = CellData(a, cell)]
    BY <1>1, <1>2, ZenonT(60) DEF FastAllocate
  <2> HIDE DEF g, rest, page, cell, bad, count
  <2> QED
    BY <2>1 DEF Typed, Fields
<1>7. g.impossible = bad
  BY <1>1, <1>2 DEF FastAllocate, Typed, Fields
<1>8. g.impossible = FALSE
  <2>1. ~(count = 0) /\ ~(free = {}) /\ h.impossible = FALSE
    BY <1>1, <1>4 DEF Typed
  <2> HIDE DEF count, free, g
  <2> QED
    BY <2>1, <1>7, ZenonT(60)
<1>9. page.count = count - 1 /\ page.free = free \ {cell}
  OBVIOUS
<1> HIDE DEF g, cell, rest, page
<1>10. SameChunks(g, h, rest)
  BY <1>5, <1>6, <1>8 DEF SameChunks
<1>11. Lively(g, t) /\ g.slots[1] = rest
  BY <1>10, OtherSlots
<1>12. g.ret \in Nat
  BY <1>3, <1>6 DEF CellData
<1>13. Typed(g)
  BY <1>6, <1>8, <1>11, <1>12 DEF Typed, Lively
<1>14. PageOK(g.slots[1], g.pages)
  <2>1. CASE count = 1
    BY <2>1, <1>5, <1>11 DEF PageOK
  <2>2. CASE count # 1
    <3>1. g.slots[1] = <<a>> /\ a \in DOMAIN g.pages /\ g.pages[a] = page
      BY <2>2, <1>1, <1>5, <1>6, <1>11
    <3>2. /\ page.free \subseteq LowCells \cup HighCells
          /\ page.count = Cardinality(page.free)
          /\ page.free # {}
      BY <1>1, <1>3, <1>9, <2>2
    <3> QED
      BY <3>1, <3>2 DEF PageOK
  <2> QED
    BY <2>1, <2>2
<1> QED
  BY <1>6, <1>11, <1>13, <1>14 DEF g
-----------------------------------------------------------------------------
(* The inductive invariant of the heap. *)
HeapInv(h) ==
  /\ Typed(h)
  /\ h.stop \in {"init", "no", "fault", "clobbered"}
  /\ h.stop = "no" => /\ \E t \in Nat : Lively(h, t)
                      /\ PageOK(h.slots[1], h.pages)
  /\ h.stop = "init" => \A i \in SlotIds : h.slots[i] = <<>> /\ h.bitmap = {}

(* Serving a chunk keeps the heap's invariant.                             *)
LEMMA ServedInv ==
  ASSUME NEW g, NEW h, Served(g, h), PageOK(h.slots[1], h.pages)
  PROVE  HeapInv(g)
BY DEF Served, HeapInv

(* malloc_fast keeps the heap's invariant.                                 *)
LEMMA MallocFastInv ==
  ASSUME NEW h, HeapInv(h), h.stop = "no",
         NEW all \in BOOLEAN, NEW ok \in BOOLEAN
  PROVE  HeapInv(MallocFast(h, all, ok))
<1> DEFINE g == FastBinReserve(h, all, ok)
<1>1. PICK t \in Nat : Lively(h, t)
  BY DEF HeapInv
<1>2. /\ Typed(g) /\ g.stop \in {"no", "fault"}
      /\ g.stop = "no" => /\ \E u \in Nat : Lively(g, u)
                          /\ PageOK(g.slots[1], g.pages)
                          /\ g.slots[1] # <<>>
  BY <1>1, FastBinReserveLemma DEF HeapInv
<1> HIDE DEF g
<1>3. CASE g.stop = "no"
  <2>1. PICK u \in Nat : Lively(g, u)
    BY <1>2, <1>3
  <2>2. MallocFast(h, all, ok) = FastAllocate(g)
    BY <1>3 DEF MallocFast, g
  <2>3. LET f == FastAllocate(g) IN
        /\ Typed(f) /\ f.stop = "no" /\ Lively(f, u)
        /\ PageOK(f.slots[1], f.pages)
    BY <1>2, <1>3, <2>1, FastAllocateLemma
  <2> QED
    BY <2>2, <2>3 DEF HeapInv
<1>4. CASE g.stop # "no"
  <2>1. MallocFast(h, all, ok) = g
    BY <1>4 DEF MallocFast, g
  <2> QED
    BY <1>2, <1>4, <2>1 DEF HeapInv
<1> QED
  BY <1>3, <1>4

(* The size mm_malloc works with has a slot.                               *)
LEMMA NeedNat ==
  ASSUME NEW size \in Sizes
  PROVE  NeedOf(size) \in Nat /\ NeedOf(size) <= HUGE_MAX
<1>1. size \in Nat /\ Word \in Nat /\ Word > 0
  BY UmmallocAssumption DEF HUGE_MAX
<1>2. (size + 7) % Word \in Nat
  BY <1>1
<1>3. ((((size + 7) % Word) \div 8) * 8 + 8) \in Nat
  BY <1>2
<1> QED
  BY <1>1, <1>3, UmmallocAssumption DEF NeedOf

(* mm_malloc keeps the heap's invariant.                                   *)
LEMMA MmMallocInv ==
  ASSUME NEW h, HeapInv(h), h.stop = "no", NEW size \in Sizes,
         NEW all \in BOOLEAN, NEW ok \in BOOLEAN
  PROVE  HeapInv(MmMalloc(h, size, all, ok))
<1> DEFINE need == NeedOf(size)
<1>1. need \in Nat /\ need <= HUGE_MAX
  BY NeedNat
<1>2. PICK t \in Nat : Lively(h, t)
  BY DEF HeapInv
<1>3. PageOK(h.slots[1], h.pages)
  BY DEF HeapInv
<1> HIDE DEF need
<1>4. CASE need <= 32
  <2>1. MmMalloc(h, size, all, ok) = MallocFast(h, all, ok)
    BY <1>1, <1>4 DEF MmMalloc, MallocTiny, need
  <2> QED
    BY <2>1, MallocFastInv
<1>5. CASE need > 32 /\ need <= 512
  <2>1. MmMalloc(h, size, all, ok) = MallocTiny(h, need, all, ok)
    BY <1>1, <1>5 DEF MmMalloc, need
  <2> QED
    BY <1>1, <1>2, <1>3, <1>5, <2>1, MallocTinyLemma, ServedInv
<1>6. CASE need > 512
  <2>1. PICK limit \in {4, 8} :
          MmMalloc(h, size, all, ok) = MallocListed(h, need, limit, all, ok)
    BY <1>1, <1>6 DEF MmMalloc, need, MallocHuge, MallocMiddle
  <2>2. limit \in Nat /\ limit > 0 /\ need > 32
    BY <1>1, <1>6
  <2> QED
    BY <1>1, <1>2, <1>3, <2>1, <2>2, MallocListedLemma, ServedInv
<1> QED
  BY <1>1, <1>4, <1>5, <1>6

(* mm_align_init: one free chunk and the tail. *)
LEMMA FirstChain ==
  ASSUME NEW l \in Nat, NEW u \in Nat, l < u
  PROVE  LET size == u - l
             mem  == Put(Put(NoPacks, l, Pack(HEAD, size, {PREV_INUSE})),
                         u, Pack(size, 0, {THIS_INUSE}))
         IN IsMem(mem) /\ Chain(mem, u) /\ l \in DOMAIN mem /\ IsFree(mem, l)
            /\ mem[l].size = size
<1> DEFINE size == u - l
           mem  == Put(Put(NoPacks, l, Pack(HEAD, size, {PREV_INUSE})),
                       u, Pack(size, 0, {THIS_INUSE}))
<1>1. size \in Nat /\ size > 0 /\ l + size = u /\ l # u
  OBVIOUS
<1> HIDE DEF size
<1>2. /\ DOMAIN mem = {l, u}
      /\ mem[l] = Pack(HEAD, size, {PREV_INUSE})
      /\ mem[u] = Pack(size, 0, {THIS_INUSE})
  BY <1>1 DEF Put, NoPacks
<1> HIDE DEF mem
<1>3. IsMem(mem)
  <2>1. HEAD \in Nat
    BY SMT DEF HEAD
  <2> QED
    BY <2>1, <1>1, <1>2 DEF IsMem, PackRecords, Pack, Metas, BOTH_INUSE
<1>4. /\ mem[l].size = size /\ mem[l].meta = {PREV_INUSE}
      /\ mem[u].prev = size /\ mem[u].meta = {THIS_INUSE}
  BY <1>2 DEF Pack
<1>5. IsFree(mem, l) /\ ~IsFree(mem, u) /\ PREV_INUSE \notin mem[u].meta
  BY <1>4 DEF IsFree, PREV_INUSE, THIS_INUSE
<1>6. Chain(mem, u)
  <2>1. THIS_INUSE \in mem[u].meta /\ \A x \in DOMAIN mem : ~(l < x /\ x < u)
    BY <1>2, <1>4
  <2>2. Geometry(mem, u)
    BY <1>1, <1>2, <1>4, <2>1 DEF Geometry
  <2>3. Tag(mem, l)
    BY <1>1, <1>4, <1>5 DEF Tag
  <2> QED
    BY <1>1, <1>2, <1>4, <1>5, <2>2, <2>3, ZenonT(60) DEF Chain
<1> QED
  BY <1>2, <1>3, <1>4, <1>5, <1>6, ZenonT(60) DEF mem, size

(* mm_init establishes the heap's invariant.                               *)
LEMMA MmAlignInitInv ==
  ASSUME NEW h, HeapInv(h), h.stop = "init", NEW ok \in BOOLEAN
  PROVE  HeapInv(MmAlignInit(h, ok))
<1> DEFINE top  == PgRoundUp(h.brk + PAGE_SIZE)
           low  == ((h.brk + 7) \div 8) * 8 + 8
           l    == low - 8
           u    == top - 8
           size == top - low
           mem  == Put(Put(NoPacks, l, Pack(HEAD, size, {PREV_INUSE})),
                       u, Pack(size, 0, {THIS_INUSE}))
           k    == [h EXCEPT !.mem = mem, !.base = top, !.brk = top,
                             !.stop = "no"]
           g    == MmAlignInit(h, ok)
<1>1. CASE ~ok
  <2>1. g = [h EXCEPT !.stop = "fault"]
    BY <1>1 DEF MmAlignInit
  <2> HIDE DEF g
  <2>2. /\ DOMAIN g = Fields /\ g.mem = h.mem /\ g.slots = h.slots
        /\ g.bitmap = h.bitmap /\ g.base = h.base /\ g.brk = h.brk
        /\ g.stop = "fault" /\ g.ret = h.ret /\ g.impossible = h.impossible
    BY <2>1 DEF HeapInv, Typed, Fields
  <2> QED
    BY <2>2 DEF HeapInv, Typed, g
<1>2. CASE ok
  <2>1. h.brk \in Nat /\ h.brk + PAGE_SIZE \in Nat
    BY DEF HeapInv, Typed, PAGE_SIZE
  <2>2. /\ top \in Nat /\ top >= h.brk + PAGE_SIZE
        /\ top < h.brk + PAGE_SIZE + PAGE_SIZE /\ top % PAGE_SIZE = 0
    BY <2>1, PageRound
  <2>3. /\ low \in Nat /\ low >= h.brk + 8 /\ low <= h.brk + 15
    BY <2>1
  <2> HIDE DEF top, low
  <2>4. /\ l \in Nat /\ u \in Nat /\ l < u /\ size = u - l
        /\ size > 32 /\ size < HUGE_MAX
    BY <2>1, <2>2, <2>3 DEF PAGE_SIZE, HUGE_MAX
  <2> HIDE DEF l, u, size
  <2>5. /\ IsMem(mem) /\ Chain(mem, u) /\ l \in DOMAIN mem /\ IsFree(mem, l)
        /\ mem[l].size = size
    BY <2>4, FirstChain, ZenonT(60)
  <2> HIDE DEF mem
  <2>6. g = FreeChunk(k, l)
    BY <1>2 DEF MmAlignInit, mem, top, low, l, u, size
  <2>7. /\ DOMAIN k = Fields /\ k.mem = mem /\ k.slots = h.slots
        /\ k.bitmap = h.bitmap /\ k.base = top /\ k.brk = top
        /\ k.stop = "no" /\ k.ret = h.ret /\ k.impossible = FALSE
    BY DEF HeapInv, Typed, Fields
  <2> HIDE DEF k, g
  <2>8. /\ IsSlots(k.slots, k.bitmap) /\ Detached(k.slots, k.bitmap)
        /\ k.slots[1] = <<>>
    <3>1. 1 \in SlotIds
      BY DEF SlotIds, NSLOTS
    <3> QED
      BY <2>7, <3>1 DEF HeapInv, Typed, Detached
  <2>9. /\ IsSlots(g.slots, g.bitmap) /\ Attached(g.mem, g.slots, g.bitmap)
        /\ g.slots[1] = k.slots[1]
    BY <2>4, <2>5, <2>6, <2>7, <2>8, FreeChunkLists, ZenonT(60)
  <2>10. g.impossible = FALSE
    BY <2>4, <2>5, <2>6, <2>7, FreeChunkQuiet, ZenonT(60)
  <2>11. /\ DOMAIN g = Fields /\ g.mem = k.mem /\ g.stop = k.stop
         /\ g.base = k.base /\ g.brk = k.brk /\ g.ret = k.ret
    BY <2>6, <2>7, FreeChunkFields
  <2>12. Base(g.base, g.brk, u)
    BY <2>2, <2>7, <2>11 DEF Base, u
  <2>13. Lively(g, u)
    BY <2>5, <2>7, <2>9, <2>10, <2>11, <2>12 DEF Lively
  <2>14. Typed(g)
    BY <2>2, <2>5, <2>7, <2>9, <2>10, <2>11, ZenonT(60) DEF HeapInv, Typed
  <2> QED
    BY <2>4, <2>7, <2>8, <2>9, <2>11, <2>13, <2>14 DEF HeapInv, PageOK, g
<1> QED
  BY <1>1, <1>2
-----------------------------------------------------------------------------
(* The inductive invariant. *)
IInv ==
  /\ HeapInv(heap)
  /\ \A b \in blocks : b.ptr \in Nat /\ b.size \in Sizes

(* The invariant holds before mm_init.                                     *)
LEMMA InitInv == Init => IInv
<1> SUFFICES ASSUME Init PROVE IInv
  OBVIOUS
<1>1. /\ DOMAIN heap = Fields /\ heap.mem = NoPacks
      /\ heap.slots = [i \in SlotIds |-> <<>>] /\ heap.bitmap = {}
      /\ heap.base = 0 /\ heap.brk \in Nat /\ heap.ret = 0
      /\ heap.impossible = FALSE /\ heap.stop = "init"
  BY UmmallocAssumption DEF Init, Fields
<1>2. IsMem(heap.mem)
  BY <1>1 DEF IsMem, NoPacks
<1>3. IsSlots(heap.slots, heap.bitmap)
  BY <1>1 DEF IsSlots
<1>4. HeapInv(heap)
  BY <1>1, <1>2, <1>3 DEF HeapInv, Typed
<1> QED
  BY <1>4 DEF Init, IInv

(* Only stop or ret changes. *)
LEMMA StopInv ==
  ASSUME NEW h, HeapInv(h)
  PROVE  HeapInv([h EXCEPT !.stop = "clobbered"])
<1> DEFINE g == [h EXCEPT !.stop = "clobbered"]
<1>1. /\ DOMAIN g = Fields /\ g.mem = h.mem /\ g.slots = h.slots
      /\ g.bitmap = h.bitmap /\ g.base = h.base /\ g.brk = h.brk
      /\ g.stop = "clobbered" /\ g.ret = h.ret /\ g.impossible = h.impossible
  BY DEF HeapInv, Typed, Fields
<1> HIDE DEF g
<1>2. HeapInv(g)
  BY <1>1 DEF HeapInv, Typed
<1> QED
  BY <1>2 DEF g

(* A refused mm_realloc changes the answer only.                           *)
LEMMA RetInv ==
  ASSUME NEW h, HeapInv(h), h.stop = "no"
  PROVE  HeapInv([h EXCEPT !.ret = 0])
<1> DEFINE g == [h EXCEPT !.ret = 0]
<1>1. /\ DOMAIN g = Fields /\ g.mem = h.mem /\ g.slots = h.slots
      /\ g.bitmap = h.bitmap /\ g.base = h.base /\ g.brk = h.brk
      /\ g.stop = h.stop /\ g.ret = 0 /\ g.impossible = h.impossible
      /\ g.pages = h.pages
  BY DEF HeapInv, Typed, Fields
<1> HIDE DEF g
<1>2. PICK t \in Nat : Lively(h, t)
  BY DEF HeapInv
<1>3. Lively(g, t)
  BY <1>1, <1>2 DEF Lively
<1>4. HeapInv(g)
  BY <1>1, <1>3 DEF HeapInv, Typed
<1> QED
  BY <1>4 DEF g

(* Every action keeps the invariant.                                       *)
LEMMA NextInv == IInv /\ [Next]_vars => IInv'
<1> SUFFICES ASSUME IInv, [Next]_vars PROVE IInv'
  OBVIOUS
<1>1. ASSUME NEW ok \in BOOLEAN, MmInit(ok) PROVE IInv'
  <2>1. HeapInv(heap')
    BY <1>1, MmAlignInitInv DEF MmInit, IInv
  <2> QED
    BY <1>1, <2>1 DEF MmInit, IInv
<1>2. ASSUME NEW size \in Sizes, Malloc(size) PROVE IInv'
  <2>1. PICK all \in BOOLEAN, ok \in BOOLEAN : heap' = MmMalloc(heap, size, all, ok)
    BY <1>2 DEF Malloc, SbrkOutcomes
  <2>2. HeapInv(heap')
    BY <1>2, <2>1, MmMallocInv DEF Malloc, IInv
  <2>3. heap'.ret \in Nat
    BY <2>2 DEF HeapInv, Typed
  <2>4. \A b \in blocks' : b.ptr \in Nat /\ b.size \in Sizes
    BY <1>2, <2>3 DEF Malloc, IInv
  <2> QED
    BY <2>2, <2>4 DEF IInv
<1>3. ASSUME NEW b \in blocks, Free(b) PROVE IInv'
  BY <1>3 DEF Free, IInv
<1>4. ASSUME NEW b \in blocks, NEW size \in Sizes, Realloc(b, size) PROVE IInv'
  BY <1>4, RetInv DEF Realloc, IInv
<1>5. ASSUME NEW b \in blocks, UseBlock(b) PROVE IInv'
  BY <1>5, StopInv DEF UseBlock, IInv
<1>6. CASE UNCHANGED vars
  BY <1>6 DEF vars, IInv
<1> QED
  BY <1>1, <1>2, <1>3, <1>4, <1>5, <1>6 DEF Next

(* The invariant of the chunks, the lists and the fast pages holds in      *)
(* every state the allocator reaches.                                      *)
THEOREM Invariance == Spec => []IInv
BY InitInv, NextInv, PTL DEF Spec

(* The tail pack is the highest. *)
LEMMA TailIs ==
  ASSUME NEW t \in Nat, Lively(heap, t)
  PROVE  TailPack = t
<1>1. t \in DOMAIN heap.mem /\ \A x \in DOMAIN heap.mem : x <= t /\ x \in Nat
  BY DEF Lively, IsMem, Chain, Geometry
<1> QED
  BY <1>1 DEF TailPack, Highest

(* Headers, lists and bitmap always hold what their C types and layout     *)
(* say, also after the process faulted.                                    *)
THEOREM TypeCorrect == Spec => []TypeOK
<1>1. IInv => TypeOK
  BY ZenonT(60) DEF IInv, HeapInv, Typed, IsMem, IsSlots, PackRecords, TypeOK
<1> QED
  BY <1>1, Invariance, PTL

(* Whatever sequence of mm_malloc, splits, merges and failed sbrk calls,   *)
(* every header says the truth about the chunk before it and the chunks    *)
(* tile the heap.                                                          *)
THEOREM BoundaryTagsTrue == Spec => []BoundaryTags
<1>1. IInv => BoundaryTags
  <2> SUFFICES ASSUME IInv, Running,
                      NEW a \in DOMAIN heap.mem \ {TailPack}
               PROVE  LET n == PackNext(heap.mem, a) IN
                      /\ n \in DOMAIN heap.mem /\ n > a
                      /\ \A x \in DOMAIN heap.mem : ~(a < x /\ x < n)
                      /\ heap.mem[n].prev = heap.mem[a].size
                      /\ PREV_INUSE \in heap.mem[n].meta
                           <=> THIS_INUSE \in heap.mem[a].meta
    BY DEF BoundaryTags
  <2>1. PICK t \in Nat : Lively(heap, t)
    BY DEF IInv, HeapInv, Running
  <2>2. TailPack = t
    BY <2>1, TailIs
  <2>3. a \in Nat /\ heap.mem[a].size \in Nat
    BY <2>1 DEF Lively, IsMem, PackRecords
  <2> QED
    BY <2>1, <2>2, <2>3 DEF Lively, Chain, Geometry, Tag, IsFree, PackNext
<1> QED
  BY <1>1, Invariance, PTL

(* Only the chunk before the tail can be free: the one merge malloc_brk    *)
(* tries is the only possible one.                                         *)
THEOREM OnlyTopIsFree == Spec => []OneFreeAtTop
<1>1. IInv => OneFreeAtTop
  <2> SUFFICES ASSUME IInv, Running, NEW a \in FreePacks
               PROVE  PackNext(heap.mem, a) = TailPack
    BY DEF OneFreeAtTop
  <2>1. PICK t \in Nat : Lively(heap, t)
    BY DEF IInv, HeapInv, Running
  <2>2. TailPack = t
    BY <2>1, TailIs
  <2> QED
    BY <2>1, <2>2 DEF Lively, Chain, Geometry, IsFree, PackNext, FreePacks
<1> QED
  BY <1>1, Invariance, PTL

(* The free chunk never reaches 64 KiB, for every heap limit and every     *)
(* sequence of requests: free_chunk stays inside slots and the bitmap.     *)
THEOREM SlotsInRange == Spec => []SlotInRange
<1>1. IInv => SlotInRange
  BY ZenonT(60) DEF IInv, HeapInv, Running, Lively, Attached, IsFree,
     SlotInRange, FreePacks
<1> QED
  BY <1>1, Invariance, PTL

(* No IMPOSSIBLE assertion of free_chunk, get_index or fast_allocate       *)
(* fires.                                                                  *)
THEOREM AssertionsHold == Spec => []NeverImpossible
<1>1. IInv => NeverImpossible
  BY DEF IInv, HeapInv, Typed, NeverImpossible
<1> QED
  BY <1>1, Invariance, PTL

(* The segregated lists and the bitmap of next_free hold exactly the free  *)
(* chunks, each in its slot.                                               *)
THEOREM FreeListsRight == Spec => []FreeLists
<1>1. IInv => FreeLists
  <2> SUFFICES ASSUME IInv, Running PROVE FreeLists
    BY DEF FreeLists
  <2>1. PICK t \in Nat : Lively(heap, t)
    BY DEF IInv, HeapInv, Running
  <2>2. Attached(heap.mem, heap.slots, heap.bitmap)
    BY <2>1 DEF Lively
  <2>3. ASSUME NEW i \in SlotIds \ {1}
        PROVE  /\ i \in heap.bitmap <=> heap.slots[i] # <<>>
               /\ \A k \in DOMAIN heap.slots[i] :
                    /\ heap.slots[i][k] \in FreePacks
                    /\ GetIndex(heap.mem[heap.slots[i][k]].size) = i
    <3>1. i \in heap.bitmap <=> heap.slots[i] # <<>>
      BY <2>2 DEF Attached
    <3>2. CASE heap.slots[i] = <<>>
      BY <3>1, <3>2
    <3>3. CASE heap.slots[i] # <<>>
      <4>1. PICK a \in DOMAIN heap.mem : /\ IsFree(heap.mem, a)
                                        /\ GetIndex(heap.mem[a].size) = i
                                        /\ heap.slots[i] = <<a>>
        BY <2>1, <3>3, ListedChunk
      <4>2. \A k \in DOMAIN heap.slots[i] : heap.slots[i][k] = a
        BY <4>1
      <4>3. a \in FreePacks
        BY <4>1 DEF FreePacks, IsFree
      <4> QED
        BY <3>1, <4>1, <4>2, <4>3
    <3> QED
      BY <3>2, <3>3
  <2>4. ASSUME NEW a \in FreePacks
        PROVE  \E k \in DOMAIN heap.slots[GetIndex(heap.mem[a].size)] :
                 heap.slots[GetIndex(heap.mem[a].size)][k] = a
    <3>1. heap.slots[GetIndex(heap.mem[a].size)] = <<a>>
      BY <2>2 DEF Attached, FreePacks, IsFree
    <3>2. 1 \in DOMAIN <<a>> /\ <<a>>[1] = a
      OBVIOUS
    <3> QED
      BY <3>1, <3>2
  <2>5. 1 \notin heap.bitmap
    BY <2>2 DEF Attached
  <2> QED
    BY <2>3, <2>4, <2>5 DEF FreeLists
<1> QED
  BY <1>1, Invariance, PTL
=============================================================================
