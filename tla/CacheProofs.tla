---------------------------- MODULE CacheProofs ----------------------------
(***************************************************************************)
(* The buffer cache under the log: proofs of BufferCache and of what the   *)
(* log needs to know of its threads.                                       *)
(***************************************************************************)
EXTENDS Log, TLAPS

(* Where a thread is while it has no buffer, one, and two. *)
Free == {"off", "idle", "begin", "sleep", "op", "commit", "done", "log", "head",
         "install", "recover"}
Single == {"modify", "release", "read", "recover read", "head copy",
           "head release", "log from", "log release to", "install dst",
           "install release dst"}
Double == {"log copy", "log release from", "install copy",
           "install release log"}
Locs == Free \cup Single \cup Double
Calls == {"lock", "fill", "drop"}

InLog == {"log", "log from", "log copy", "log release from", "log release to"}
InHead == {"head", "head copy", "head release"}
InInstall == {"install", "install dst", "install copy", "install release log",
              "install release dst"}
InRecover == {"recover", "recover read"}
Working == {"commit", "done"} \cup InLog \cup InHead \cup InInstall \cup InRecover

AnyVersion == {Version(v) : v \in Nat}
Contents == AnyVersion \cup Seq(Home)

Buffers == [blockno : Blocks \cup {NIL}, valid : BOOLEAN, refcnt : Int,
            data : Contents, owner : Procs \cup {NIL}]
Threads == [pc : Locs \cup Calls, k : Locs, held : Seq(Bufs),
            drop : Bufs \cup {NIL}]

Types ==
  /\ buf \in [Bufs -> Buffers]
  /\ disk \in [Blocks -> Contents]
  /\ th \in [Procs -> Threads]

LogTypes ==
  /\ lh \in Seq(Home)
  /\ outstanding \in Int /\ committing \in BOOLEAN /\ tail \in Int
  /\ wrote \in [Procs -> [calls : Nat, blocks : SUBSET Home]]
  /\ booting \in Procs \cup {NIL}
  /\ ops \in Nat

(* The header block lists blocks, every other block has a version. *)
Kind(blk) == IF blk = Header THEN Seq(Home) ELSE AnyVersion
Kinds ==
  /\ \A blk \in Blocks : disk[blk] \in Kind(blk)
  /\ \A b \in Bufs : buf[b].valid => buf[b].data \in Kind(buf[b].blockno)

(* The lists of blocks in memory and in the header block, on the disk and  *)
(* in the cache.                                                           *)
Distinct(s) == \A i, j \in DOMAIN s : i # j => s[i] # s[j]
HeaderBuf == \A b \in Bufs :
  buf[b].valid /\ buf[b].blockno = Header => buf[b].data = disk[Header]
Lists == /\ Distinct(lh) /\ Len(lh) < NLog
         /\ Distinct(disk[Header]) /\ Len(disk[Header]) < NLog
         /\ HeaderBuf

Lru == lru \in [Bufs -> Bufs] /\ \A b \in Bufs : \E i \in Bufs : lru[i] = b

(* The buffers a thread has in its hands, on the way into bread and out of *)
(* brelse too.                                                             *)
Count(loc) == IF loc \in Double THEN 2 ELSE IF loc \in Single THEN 1 ELSE 0
Hand(p) ==
  /\ Len(th[p].held) = Count(Loc(p))
  /\ th[p].pc \in {"lock", "fill"} => th[p].k \notin Free
  /\ th[p].drop # NIL <=> th[p].pc = "drop"
  /\ Distinct(th[p].held)
  /\ \A i \in DOMAIN th[p].held :
       /\ th[p].held[i] # th[p].drop
       /\ buf[th[p].held[i]].blockno # NIL
  /\ th[p].pc = "fill" => buf[Got(p)].owner = p /\ ~buf[Got(p)].valid
Hands == \A p \in Procs : Hand(p)

(* One thread works on the log at a time, with no operation in progress.   *)
Turns ==
  /\ \A p, q \in Procs : Loc(p) \in Working /\ Loc(q) \in Working => p = q
  /\ booting # NIL =>
       /\ Loc(booting) \in {"done"} \cup InHead \cup InInstall \cup InRecover
       /\ \A q \in Procs \ {booting} : th[q].pc = "off"
       /\ ~committing
  /\ booting = NIL =>
       /\ \A p \in Procs : Loc(p) \notin {"off"} \cup InRecover
       /\ committing <=> \E p \in Procs : Loc(p) \in Working
  /\ outstanding = Cardinality(InOp)
  /\ committing => outstanding = 0
  /\ booting = NIL /\ outstanding = 0 /\ ~committing => lh = <<>>

(* Where it is in the transaction. *)
Place(loc) ==
  /\ tail # 1 => loc \in InLog \cup InInstall
  /\ tail \in 1 .. Len(lh) + 1
  /\ loc \in {"log from", "log copy", "log release from", "log release to",
              "install dst", "install copy"} => tail <= Len(lh)
  /\ loc \in InRecover \cup {"done"} => lh = <<>>
  /\ loc \in InHead /\ lh # <<>> => booting = NIL
Positions ==
  /\ \A p \in Procs : Loc(p) \in Working => Place(Loc(p))
  /\ (\A p \in Procs : Loc(p) \notin Working) => tail = 1

(* The blocks in its hands. *)
InHand(p, i) == buf[th[p].held[i]].blockno
Target(p) ==
  /\ Loc(p) \in {"modify", "release", "read"} => InHand(p, 1) \in Home
  /\ Loc(p) \in {"head copy", "head release", "recover read"} =>
       InHand(p, 1) = Header
  /\ Loc(p) \in {"log from", "log copy", "install dst", "install copy"} =>
       InHand(p, 1) = LogBlock(tail)
  /\ Loc(p) \in {"log copy", "install copy"} => InHand(p, 2) = lh[tail]
Targets == \A p \in Procs : Target(p)

(* A block of the log stays in the cache. *)
Pins == \A blk \in Blocks :
  Pinned(blk) => \E b \in Bufs : buf[b].blockno = blk /\ buf[b].valid

(* Facts about finite sets and sequences that hold whatever the state:     *)
(* LEMMA ElementaryFacts of module LogTheorems.                            *)
Elementary ==
  /\ \A S \in SUBSET Procs : Cardinality(S) \in Nat /\ (Cardinality(S) = 0 <=> S = {})
  /\ \A S \in SUBSET Procs : \A p \in Procs :
       /\ p \in S => Cardinality(S \ {p}) = Cardinality(S) - 1
       /\ p \notin S => Cardinality(S \cup {p}) = Cardinality(S) + 1
  /\ \A S \in SUBSET Bufs : S # {} => \E i \in S : \A j \in S : j <= i
  /\ \A s \in Seq(Bufs) : Len(s) = 1 => s = <<s[1]>>

Cache == Elementary /\ Types /\ Kinds /\ Lru /\ Hands /\ BufferCache /\ Pins
Control == LogTypes /\ Lists /\ Turns /\ Positions /\ Targets
IInv == Cache /\ Control

-----------------------------------------------------------------------------
(* What steps do to the cache and to the threads *)

(* bget gives thread p buffer b for block blk. *)
Takes(p, b, blk, k) ==
  /\ th' = [th EXCEPT ![p] = [pc |-> "lock", k |-> k, drop |-> NIL,
                              held |-> Append(th[p].held, b)]]
  /\ \/ /\ buf[b].blockno = blk
        /\ buf' = [buf EXCEPT ![b] = [buf[b] EXCEPT !.refcnt = @ + 1]]
     \/ /\ \A c \in Bufs : buf[c].blockno # blk
        /\ buf[b].refcnt = 0
        /\ buf' = [buf EXCEPT ![b] = [buf[b] EXCEPT !.blockno = blk,
                                        !.valid = FALSE, !.refcnt = 1]]
  /\ UNCHANGED <<lru, disk, panic>>

(* brelse takes the i-th buffer from thread p. *)
Gives(p, i, k) ==
  LET h == th[p].held IN
  /\ th' = [th EXCEPT ![p] = [pc |-> "drop", k |-> k, drop |-> h[i],
              held |-> IF Len(h) = 2 THEN <<h[3 - i]>> ELSE <<>>]]
  /\ buf' = [buf EXCEPT ![h[i]] = [buf[h[i]] EXCEPT !.owner = NIL]]
  /\ UNCHANGED <<lru, disk, panic>>

(* The kernel panics. *)
Halts == panic' # "" /\ UNCHANGED <<buf, lru, disk, th>>

(* Where the threads are, before and after. *)
Goes(p, from, to) ==
  /\ Loc(p) = from /\ Loc(p)' = to
  /\ \A q \in Procs \ {p} : \/ Loc(q)' = Loc(q)
                            \/ Loc(q) = "sleep" /\ Loc(q)' = "begin"

LEMMA BgetTakes ==
  ASSUME Elementary, Types, Lru, Hands, NEW p \in Procs, NEW blk \in Blocks, NEW k,
         th[p].pc \notin Calls, Bget(p, blk, k)
  PROVE  \/ \E b \in Bufs : Takes(p, b, blk, k)
         \/ /\ Halts /\ panic' = "bget: no buffers"
            /\ \A b \in Bufs : buf[b].refcnt # 0 /\ buf[b].blockno # blk
<1>2. CASE Cached(blk) # {}
  <2> DEFINE b == CHOOSE c \in Cached(blk) : TRUE
  <2>1. b \in Bufs /\ buf[b].blockno = blk
    BY <1>2, Zenon DEF Cached
  <2>2. /\ buf' = [buf EXCEPT ![b] = [buf[b] EXCEPT !.refcnt = @ + 1]]
        /\ th' = [th EXCEPT ![p] = [pc |-> "lock", k |-> k, drop |-> NIL,
                                    held |-> Append(th[p].held, b)]]
        /\ UNCHANGED <<lru, disk, panic>>
    BY <1>2, Zenon DEF Bget
  <2> HIDE DEF b
  <2> QED
    BY <2>1, <2>2, Zenon DEF Takes
<1>3. CASE Cached(blk) = {} /\ Unused # {}
  <2> DEFINE b == Victim
  <2>1. b \in Bufs /\ buf[b].refcnt = 0
    <3>1. Unused \in SUBSET Bufs
      BY Zenon DEF Unused
    <3>2. \E i \in Unused : \A j \in Unused : j <= i
      BY <1>3, <3>1, Zenon DEF Elementary
    <3>3. (CHOOSE i \in Unused : \A j \in Unused : j <= i) \in Unused
      BY <3>2, Zenon
    <3> QED
      BY <3>3, Zenon DEF Victim, Unused, Lru
  <2>2. /\ buf' = [buf EXCEPT ![b] = [buf[b] EXCEPT !.blockno = blk, !.valid = FALSE,
                                               !.refcnt = 1]]
        /\ th' = [th EXCEPT ![p] = [pc |-> "lock", k |-> k, drop |-> NIL,
                                    held |-> Append(th[p].held, b)]]
        /\ UNCHANGED <<lru, disk, panic>>
    BY <1>3, Zenon DEF Bget
  <2> HIDE DEF b
  <2>3. \A c \in Bufs : buf[c].blockno # blk
    BY <1>3, Zenon DEF Cached
  <2> QED
    BY <2>1, <2>2, <2>3, Zenon DEF Takes
<1>4. CASE Cached(blk) = {} /\ Unused = {}
  <2>1. Panic("bget: no buffers")
    BY <1>4, Zenon DEF Bget
  <2>2. \A b \in Bufs : buf[b].refcnt # 0 /\ buf[b].blockno # blk
    BY <1>4, Zenon DEF Cached, Unused, Lru
  <2> QED
    BY <2>1, <2>2, Zenon DEF Panic, Halts
<1> QED
  BY <1>2, <1>3, <1>4, Zenon

LEMMA BrelseGives ==
  ASSUME Elementary, Types, Hands, LockedByHolder, NEW p \in Procs, NEW k,
         NEW i \in DOMAIN th[p].held, th[p].pc \notin Calls, Brelse(p, i, k)
  PROVE  Gives(p, i, k)
<1> DEFINE h == th[p].held
<1>1. th[p] \in Threads /\ Len(h) = Count(Loc(p))
  BY Zenon DEF Hands, Hand, Types
<1>2. h \in Seq(Bufs) /\ Len(h) \in {0, 1, 2} /\ i \in 1 .. Len(h)
  BY <1>1 DEF Count, Threads
<1>3. h[i] \in Bufs /\ buf[h[i]].owner = p
  BY <1>2 DEF LockedByHolder, Calls
<1> HIDE DEF h
<1>4. SubSeq(h, 1, i - 1) \o SubSeq(h, i + 1, Len(h)) =
        IF Len(h) = 2 THEN <<h[3 - i]>> ELSE <<>>
  <2> DEFINE s == SubSeq(h, 1, i - 1)  t == SubSeq(h, i + 1, Len(h))
  <2>1. /\ s \in Seq(Bufs) /\ Len(s) = i - 1
        /\ \A j \in 1 .. i - 1 : s[j] = h[j]
    BY <1>2
  <2>2. /\ t \in Seq(Bufs) /\ Len(t) = Len(h) - i
        /\ \A j \in 1 .. Len(h) - i : t[j] = h[i + j]
    BY <1>2
  <2> HIDE DEF s, t
  <2>3. /\ s \o t \in Seq(Bufs) /\ Len(s \o t) = Len(h) - 1
        /\ \A j \in 1 .. Len(h) - 1 : (s \o t)[j] = IF j < i THEN h[j] ELSE h[j + 1]
    BY <1>2, <2>1, <2>2
  <2>4. ASSUME Len(h) = 1 PROVE s \o t = <<>>
    BY <2>3, <2>4
  <2>5. ASSUME Len(h) = 2 PROVE s \o t = <<h[3 - i]>>
    <3> DEFINE x == h[3 - i]
    <3>1. Len(s \o t) = 1 /\ (s \o t)[1] = x /\ x \in Bufs
      BY <1>2, <2>3, <2>5
    <3> HIDE DEF x
    <3>2. s \o t = <<x>>
      BY <2>3, <3>1, Zenon DEF Elementary
    <3> QED
      BY <3>2, Zenon DEF x
  <2>6. s \o t = IF Len(h) = 2 THEN <<h[3 - i]>> ELSE <<>>
    BY <1>2, <2>4, <2>5
  <2> QED
    BY <2>6, Zenon DEF s, t
<1>5. /\ buf' = [buf EXCEPT ![h[i]].owner = NIL]
      /\ th' = [th EXCEPT ![p] = [pc |-> "drop", k |-> k, drop |-> h[i],
                  held |-> SubSeq(h, 1, i - 1) \o SubSeq(h, i + 1, Len(h))]]
      /\ UNCHANGED <<lru, disk, panic>>
  BY <1>3, Zenon DEF Brelse, h
<1> QED
  BY <1>4, <1>5, Zenon DEF Gives, h
-----------------------------------------------------------------------------
(* The cache stays right *)

Users(b) == {p \in Procs : \E i \in DOMAIN th[p].held : th[p].held[i] = b}
Dropping(b) == {p \in Procs : th[p].drop = b}
Pin(b) == IF Pinned(buf[b].blockno) THEN 1 ELSE 0

LEMMA Counts ==
  ASSUME Elementary
  PROVE  /\ RefCounts <=>
              \A b \in Bufs : buf[b].refcnt = Cardinality(Users(b))
                                + Cardinality(Dropping(b)) + Pin(b)
         /\ \A b : /\ Cardinality(Users(b)) \in Nat
                   /\ Cardinality(Dropping(b)) \in Nat
                   /\ Pin(b) \in {0, 1}
<1>1. \A b : Users(b) \in SUBSET Procs /\ Dropping(b) \in SUBSET Procs
  BY Zenon DEF Users, Dropping
<1>2. \A b : Cardinality(Users(b)) \in Nat /\ Cardinality(Dropping(b)) \in Nat
  BY <1>1, Zenon DEF Elementary
<1> QED
  BY <1>2, Zenon DEF RefCounts, Users, Dropping, Pin

(* One thread more, or one less, in a set of threads. *)
LEMMA OneMore ==
  ASSUME Elementary, NEW S \in SUBSET Procs, NEW p \in Procs \ S
  PROVE  Cardinality(S \cup {p}) = Cardinality(S) + 1
BY Zenon DEF Elementary

LEMMA OneLess ==
  ASSUME Elementary, NEW S \in SUBSET Procs, NEW p \in S
  PROVE  Cardinality(S \ {p}) = Cardinality(S) - 1
BY Zenon DEF Elementary

(* A buffer with no references is in no one's hands and not in the log. *)
LEMMA Unreferenced ==
  ASSUME Elementary, RefCounts, NEW b \in Bufs, buf[b].refcnt = 0
  PROVE  Users(b) = {} /\ Dropping(b) = {} /\ Pin(b) = 0
<1>1. /\ Cardinality(Users(b)) = 0 /\ Cardinality(Dropping(b)) = 0
      /\ Pin(b) = 0
  BY Counts
<1>2. Users(b) \in SUBSET Procs /\ Dropping(b) \in SUBSET Procs
  BY Zenon DEF Users, Dropping
<1> QED
  BY <1>1, <1>2, Zenon DEF Elementary

(* The log pins the same blocks before and after. *)
SamePins == \A x \in Blocks \cup {NIL} : Pinned(x)' <=> Pinned(x)

LEMMA TakesCache ==
  ASSUME Cache, SamePins, NEW p \in Procs, NEW b \in Bufs, NEW blk \in Blocks,
         NEW k \in Single \cup Double, th[p].pc \notin Calls,
         Count(k) = Count(th[p].pc) + 1, Takes(p, b, blk, k),
         \A i \in DOMAIN th[p].held : InHand(p, i) # blk
  PROVE  Cache'
<1> DEFINE h == th[p].held
<1> USE DEF Cache, BufferCache
<1>1. /\ th[p] \in Threads /\ h \in Seq(Bufs) /\ th[p].drop = NIL
      /\ Len(h) = Count(th[p].pc)
  BY Zenon DEF Types, Threads, Hands, Hand, Calls, Loc
<1>2. /\ th' = [th EXCEPT ![p] = [pc |-> "lock", k |-> k, drop |-> NIL,
                                  held |-> Append(h, b)]]
      /\ UNCHANGED <<lru, disk, panic>>
  BY Zenon DEF Takes
<1>3. /\ Append(h, b) \in Seq(Bufs) /\ Len(Append(h, b)) = Count(k)
      /\ DOMAIN Append(h, b) = 1 .. Len(h) + 1 /\ DOMAIN h = 1 .. Len(h)
      /\ Append(h, b)[Len(h) + 1] = b
      /\ \A i \in DOMAIN h : Append(h, b)[i] = h[i]
  BY <1>1
(* The buffer was in no one's hands, or held the block before. *)
<1>4. /\ buf'[b].blockno = blk /\ buf'[b].owner = buf[b].owner
      /\ buf'[b].data = buf[b].data
      /\ \/ /\ buf[b].blockno = blk /\ buf'[b].refcnt = buf[b].refcnt + 1
            /\ buf'[b].valid = buf[b].valid
         \/ /\ \A c \in Bufs : buf[c].blockno # blk
            /\ buf[b].refcnt = 0 /\ buf'[b].refcnt = 1 /\ ~buf'[b].valid
      /\ \A c \in Bufs \ {b} : buf'[c] = buf[c]
      /\ buf' \in [Bufs -> Buffers]
  <2>1. buf \in [Bufs -> Buffers] /\ buf[b] \in Buffers
    BY Zenon DEF Types
  <2>2. CASE /\ buf[b].blockno = blk
             /\ buf' = [buf EXCEPT ![b] = [buf[b] EXCEPT !.refcnt = @ + 1]]
    BY <2>1, <2>2 DEF Buffers
  <2>3. CASE /\ \A c \in Bufs : buf[c].blockno # blk
             /\ buf[b].refcnt = 0
             /\ buf' = [buf EXCEPT ![b] = [buf[b] EXCEPT !.blockno = blk,
                                             !.valid = FALSE, !.refcnt = 1]]
    <3>1. buf'[b] = [buf[b] EXCEPT !.blockno = blk, !.valid = FALSE, !.refcnt = 1]
      BY <2>1, <2>3, Zenon
    <3>2. /\ buf'[b].blockno = blk /\ buf'[b].owner = buf[b].owner
          /\ buf'[b].data = buf[b].data /\ ~buf'[b].valid /\ buf'[b].refcnt = 1
      BY <2>1, <3>1, Zenon DEF Buffers
    <3>3. buf'[b] \in Buffers
      <4> DEFINE r == [buf[b] EXCEPT !.blockno = blk]
                 s == [r EXCEPT !.valid = FALSE]
      <4>1. r \in Buffers
        BY <2>1, Zenon DEF Buffers
      <4> HIDE DEF r
      <4>2. s \in Buffers
        BY <4>1, Zenon DEF Buffers
      <4> HIDE DEF s
      <4>3. [s EXCEPT !.refcnt = 1] \in Buffers
        BY <4>2 DEF Buffers
      <4> QED
        BY <3>1, <4>3, Zenon DEF r, s
    <3> QED
      BY <2>1, <2>3, <3>2, <3>3, Zenon
  <2> QED
    BY <2>2, <2>3, Zenon DEF Takes
<1>5. \A q \in Procs \ {p} : th'[q] = th[q]
  BY <1>2, Zenon DEF Types
<1>6. th'[p] = [pc |-> "lock", k |-> k, drop |-> NIL, held |-> Append(h, b)]
  BY <1>2, Zenon DEF Types
<1>7. buf[b].blockno = blk \/ (Users(b) = {} /\ Dropping(b) = {} /\ Pin(b) = 0)
  BY <1>4, Unreferenced, Zenon
<1>8. \A i \in DOMAIN h : h[i] # b
  BY <1>7, Zenon DEF InHand, Users
<1> HIDE DEF h
<1>9. Types'
  <2>1. th'[p] \in Threads
    BY <1>3, <1>6 DEF Threads, Locs, Calls
  <2> QED
    BY <1>2, <1>4, <2>1, Zenon DEF Types
<1>10. Kinds' /\ Lru'
  BY <1>2, <1>4 DEF Kinds, Kind, Lru
<1>11. OneBufferPerBlock'
  BY <1>4 DEF OneBufferPerBlock
(* What others have in their hands stays as it is. *)
<1>12. ASSUME NEW q \in Procs, NEW i \in DOMAIN th[q].held
       PROVE  LET c == th[q].held[i] IN
              /\ c \in Bufs
              /\ buf'[c].blockno = buf[c].blockno /\ buf'[c].valid = buf[c].valid
              /\ buf'[c].owner = buf[c].owner
  <2>1. th[q].held \in Seq(Bufs)
    BY Zenon DEF Types, Threads
  <2>2. th[q].held[i] = b => Users(b) # {}
    BY Zenon DEF Users
  <2> QED
    BY <1>4, <1>7, <2>1, <2>2
<1>13. ASSUME NEW q \in Procs \ {p} PROVE Hand(q)'
  <2>1. Hand(q)
    BY Zenon DEF Hands
  <2>2. th[q].held \in Seq(Bufs)
    BY Zenon DEF Types, Threads
  <2>3. th[q].pc = "fill" => Len(th[q].held) \in DOMAIN th[q].held
    BY <2>1, <2>2 DEF Hand, Loc, Count, Types, Threads, Locs
  <2> QED
    <3>1. th'[q] = th[q] /\ Loc(q)' = Loc(q) /\ Got(q)' = Got(q)
      BY <1>5, Zenon DEF Loc, Got
    <3>2. th[q].pc = "fill" => buf'[Got(q)].owner = q /\ ~buf'[Got(q)].valid
      BY <1>12, <2>1, <2>3 DEF Hand, Got
    <3>3. \A i \in DOMAIN th[q].held : buf'[th[q].held[i]].blockno # NIL
      BY <1>12, <2>1, Zenon DEF Hand
    <3> QED
      BY <2>1, <3>1, <3>2, <3>3, Zenon DEF Hand
<1>14. Hand(p)'
  <2>1. Loc(p)' = k
    BY <1>6 DEF Loc
  <2>2. k \notin Free
    BY Zenon DEF Free, Single, Double
  <2>3. Distinct(th'[p].held)
    <3> SUFFICES ASSUME NEW i \in 1 .. Len(h) + 1, NEW j \in 1 .. Len(h) + 1, i # j
                 PROVE  Append(h, b)[i] # Append(h, b)[j]
      BY <1>3, <1>6 DEF Distinct
    <3>1. Distinct(h)
      BY Zenon DEF Hands, Hand, h
    <3> QED
      BY <1>1, <1>3, <1>8, <3>1 DEF Distinct
  <2>4. NIL \notin Blocks /\ NIL \notin Bufs
    BY BioAssumption, Zenon
  <2>5. ASSUME NEW i \in DOMAIN th'[p].held
        PROVE  th'[p].held[i] # NIL /\ buf'[th'[p].held[i]].blockno # NIL
    <3>1. CASE i = Len(h) + 1
      BY <1>3, <1>4, <1>6, <2>4, <3>1
    <3>2. CASE i \in DOMAIN h
      <4>1. buf[h[i]].blockno # NIL
        BY <3>2 DEF Hands, Hand, h
      <4> QED
        BY <1>3, <1>6, <1>12, <2>4, <3>2, <4>1 DEF h
    <3> QED
      BY <1>3, <1>6, <3>1, <3>2
  <2> QED
    BY <1>3, <1>6, <2>1, <2>2, <2>3, <2>5 DEF Hand
<1>15. LockedByHolder'
  <2> SUFFICES ASSUME NEW q \in Procs, NEW i \in DOMAIN th'[q].held,
                      i < Len(th'[q].held) \/ th'[q].pc \notin {"lock", "fill"}
               PROVE  buf'[th'[q].held[i]].owner = q /\ buf'[th'[q].held[i]].valid
    BY Zenon DEF LockedByHolder
  <2>1. CASE q = p
    <3>1. i \in DOMAIN h /\ th'[p].held[i] = h[i]
      BY <1>1, <1>3, <1>6, <2>1
    <3>2. buf[h[i]].owner = p /\ buf[h[i]].valid
      BY <3>1, Zenon DEF LockedByHolder, h, Calls
    <3> QED
      BY <1>12, <2>1, <3>1, <3>2 DEF h
  <2>2. CASE q # p
    BY <1>5, <1>12, <2>2 DEF LockedByHolder
  <2> QED
    BY <2>1, <2>2, Zenon
<1>16. RefCounts'
  <2>1. Users(b)' = Users(b) \cup {p} /\ p \notin Users(b)
    <3>1. p \notin Users(b)
      BY <1>8, Zenon DEF Users, h
    <3>2. \E i \in DOMAIN th'[p].held : th'[p].held[i] = b
      BY <1>1, <1>3, <1>6
    <3>3. \A q \in Procs \ {p} : th'[q] = th[q]
      BY <1>5, Zenon
    <3> QED
      BY <3>1, <3>2, <3>3, Zenon DEF Users
  <2>2. \A c \in Bufs \ {b} : Users(c)' = Users(c)
    <3> TAKE c \in Bufs \ {b}
    <3>1. (\E i \in DOMAIN th'[p].held : th'[p].held[i] = c) <=>
             \E i \in DOMAIN h : h[i] = c
      BY <1>1, <1>3, <1>6
    <3> QED
      BY <1>5, <3>1 DEF Users, h
  <2>3. \A c \in Bufs : Dropping(c)' = Dropping(c)
    BY <1>1, <1>5, <1>6 DEF Dropping
  <2>4. \A c \in Bufs \ {b} : Pin(c)' = Pin(c)
    BY <1>4, Zenon DEF Pin, SamePins, Types, Buffers
  <2>5. Pin(b)' = Pin(b)
    <3>1. CASE buf[b].blockno = blk
      BY <1>4, <3>1, Zenon DEF Pin, SamePins
    <3>2. CASE \A c \in Bufs : buf[c].blockno # blk
      <4>1. ~Pinned(blk)
        BY <3>2, Zenon DEF Pins
      <4> QED
        BY <1>4, <1>7, <3>2, <4>1, Zenon DEF Pin, SamePins
    <3> QED
      BY <1>4, <3>1, <3>2, Zenon
  <2>6. Cardinality(Users(b)') = Cardinality(Users(b)) + 1
    <3>1. Users(b) \in SUBSET Procs /\ p \in Procs \ Users(b)
      BY <2>1, Zenon DEF Users
    <3> QED
      BY <2>1, <3>1, OneMore, Zenon
  <2>7. buf'[b].refcnt = buf[b].refcnt + 1
    BY <1>4
  <2>8. \A c \in Bufs : buf'[c].refcnt = Cardinality(Users(c)')
                          + Cardinality(Dropping(c)') + Pin(c)'
    <3> TAKE c \in Bufs
    <3>1. buf[c].refcnt = Cardinality(Users(c)) + Cardinality(Dropping(c)) + Pin(c)
      BY Counts, Zenon
    <3>2. CASE c = b
      BY <2>3, <2>5, <2>6, <2>7, <3>1, <3>2, Counts
    <3>3. CASE c # b
      BY <1>4, <2>2, <2>3, <2>4, <3>1, <3>3, Zenon
    <3> QED
      BY <3>2, <3>3, Zenon
  <2> QED
    BY <2>8, Zenon DEF RefCounts, Users, Dropping, Pin
<1>17. Pins'
  <2> SUFFICES ASSUME NEW x \in Blocks, Pinned(x)'
               PROVE  \E c \in Bufs : buf'[c].blockno = x /\ buf'[c].valid
    BY Zenon DEF Pins
  <2>1. Pinned(x)
    BY Zenon DEF SamePins
  <2>2. PICK c \in Bufs : buf[c].blockno = x /\ buf[c].valid
    BY <2>1, Zenon DEF Pins
  <2>3. c = b => buf[b].blockno = blk
    BY <1>7, <2>1, <2>2 DEF Pin
  <2> QED
    BY <1>4, <2>2, <2>3, Zenon
<1> QED
  BY <1>9, <1>10, <1>11, <1>13, <1>14, <1>15, <1>16, <1>17, Zenon DEF Hands

LEMMA GivesCache ==
  ASSUME Cache, SamePins, NEW p \in Procs, NEW i \in DOMAIN th[p].held,
         NEW k \in Locs, th[p].pc \notin Calls,
         Count(th[p].pc) = Count(k) + 1, Gives(p, i, k)
  PROVE  Cache'
<1> DEFINE h == th[p].held
           g == IF Len(h) = 2 THEN <<h[3 - i]>> ELSE <<>>
<1> USE DEF Cache, BufferCache
<1>0. /\ th[p] \in Threads /\ h \in Seq(Bufs) /\ th[p].drop = NIL
      /\ Len(h) = Count(th[p].pc) /\ i \in 1 .. Len(h)
  BY DEF Types, Threads, Hands, Hand, Calls, Loc
<1>b. PICK b \in Bufs : b = h[i]
  BY <1>0
<1>1. /\ th[p] \in Threads /\ h \in Seq(Bufs) /\ th[p].drop = NIL
      /\ Len(h) = Count(th[p].pc) /\ i \in 1 .. Len(h) /\ b = h[i]
  BY <1>0, <1>b, Zenon
<1>2. /\ th' = [th EXCEPT ![p] = [pc |-> "drop", k |-> k, drop |-> b, held |-> g]]
      /\ buf' = [buf EXCEPT ![b] = [buf[b] EXCEPT !.owner = NIL]]
      /\ UNCHANGED <<lru, disk, panic>>
  BY <1>b, Zenon DEF Gives
<1>3. /\ g \in Seq(Bufs) /\ Len(g) = Count(k) /\ DOMAIN g \subseteq {1}
      /\ \A j \in DOMAIN g : g[j] = h[3 - i] /\ Len(h) = 2 /\ 3 - i \in DOMAIN h
      /\ Len(h) = 2 => DOMAIN g = {1}
  <2>1. Len(h) \in {1, 2} /\ Count(k) = Len(h) - 1
    <3>1. Count(th[p].pc) \in {0, 1, 2} /\ Count(k) \in {0, 1, 2}
      BY Zenon DEF Count
    <3> HIDE DEF h
    <3> QED
      BY <1>1, <3>1
  <2>2. CASE Len(h) = 2
    <3>1. PICK x \in Bufs : x = h[3 - i]
      BY <1>1, <2>2
    <3>2. 3 - i \in DOMAIN h
      BY <1>1, <2>2
    <3>3. g = <<x>>
      BY <2>2, <3>1, Zenon
    <3> HIDE DEF g
    <3>4. g \in Seq(Bufs) /\ Len(g) = 1 /\ DOMAIN g = {1} /\ g[1] = x
      BY <3>3
    <3> QED
      BY <2>1, <2>2, <3>1, <3>2, <3>4
  <2>3. CASE Len(h) = 1
    <3>1. g = <<>>
      BY <2>3
    <3>2. Count(k) = 0
      BY <2>1, <2>3
    <3> HIDE DEF g
    <3>3. g \in Seq(Bufs) /\ Len(g) = 0 /\ DOMAIN g = {}
      BY <3>1
    <3> QED
      BY <2>3, <3>2, <3>3
  <2> QED
    BY <1>1, <2>1, <2>2, <2>3, Zenon
<1>4. /\ \A c \in Bufs : /\ buf'[c].blockno = buf[c].blockno
                         /\ buf'[c].valid = buf[c].valid
                         /\ buf'[c].data = buf[c].data
                         /\ buf'[c].refcnt = buf[c].refcnt
      /\ \A c \in Bufs \ {b} : buf'[c].owner = buf[c].owner
      /\ buf' \in [Bufs -> Buffers]
  <2>1. buf \in [Bufs -> Buffers] /\ buf[b] \in Buffers
    BY Zenon DEF Types
  <2>2. /\ buf'[b] = [buf[b] EXCEPT !.owner = NIL]
        /\ \A c \in Bufs \ {b} : buf'[c] = buf[c]
    BY <1>2, <2>1, Zenon
  <2>3. buf'[b] \in Buffers
    BY <2>1, <2>2, Zenon DEF Buffers
  <2>4. /\ buf'[b].blockno = buf[b].blockno /\ buf'[b].valid = buf[b].valid
        /\ buf'[b].data = buf[b].data /\ buf'[b].refcnt = buf[b].refcnt
    BY <2>1, <2>2, Zenon DEF Buffers
  <2> QED
    BY <1>2, <2>1, <2>2, <2>3, <2>4, Zenon
<1>5. \A q \in Procs \ {p} : th'[q] = th[q]
  BY <1>2, Zenon DEF Types
<1>6. th'[p] = [pc |-> "drop", k |-> k, drop |-> b, held |-> g]
  BY <1>2, Zenon DEF Types
<1>7. buf[b].owner = p
  BY <1>1, Zenon DEF LockedByHolder, Calls
<1>8. Distinct(h)
  BY Zenon DEF Hands, Hand
<1> HIDE DEF h, g
<1>9. Types'
  <2>1. th'[p] \in Threads
    BY <1>1, <1>3, <1>6 DEF Threads, Locs, Calls
  <2> QED
    BY <1>2, <1>4, <2>1, Zenon DEF Types
<1>10. Kinds' /\ Lru' /\ OneBufferPerBlock'
  BY <1>2, <1>4 DEF Kinds, Kind, Lru, OneBufferPerBlock
<1>11. ASSUME NEW q \in Procs \ {p} PROVE Hand(q)'
  <2>1. Hand(q)
    BY Zenon DEF Hands
  <2>2. th[q].held \in Seq(Bufs)
    BY Zenon DEF Types, Threads
  <2>3. th[q].pc = "fill" => Len(th[q].held) \in DOMAIN th[q].held
    BY <2>1, <2>2 DEF Hand, Loc, Count, Types, Threads, Locs
  <2>4. th'[q] = th[q] /\ Loc(q)' = Loc(q) /\ Got(q)' = Got(q)
    BY <1>5, Zenon DEF Loc, Got
  <2>5. th[q].pc = "fill" => buf'[Got(q)].owner = q /\ ~buf'[Got(q)].valid
    BY <1>4, <1>7, <2>1, <2>2, <2>3 DEF Hand, Got
  <2>6. \A j \in DOMAIN th[q].held : buf'[th[q].held[j]].blockno # NIL
    BY <1>4, <2>1, <2>2 DEF Hand
  <2> QED
    BY <2>1, <2>4, <2>5, <2>6, Zenon DEF Hand
<1>12. Hand(p)'
  <2>1. Loc(p)' = k
    BY <1>6 DEF Loc
  <2>2. b # NIL
    BY <1>1, BioAssumption, Zenon
  <2>3. \A j \in DOMAIN g : g[j] # b /\ g[j] \in Bufs
    BY <1>1, <1>3, <1>8 DEF Distinct
  <2>4. \A j \in DOMAIN g : buf'[g[j]].blockno # NIL
    <3>1. \A j \in DOMAIN h : buf[h[j]].blockno # NIL
      BY DEF Hands, Hand, h
    <3> QED
      BY <1>3, <1>4, <2>3, <3>1
  <2>5. Distinct(g)
    BY <1>3, Zenon DEF Distinct
  <2> QED
    BY <1>3, <1>6, <2>1, <2>2, <2>3, <2>4, <2>5 DEF Hand
<1>13. LockedByHolder'
  <2> SUFFICES ASSUME NEW q \in Procs, NEW j \in DOMAIN th'[q].held,
                      j < Len(th'[q].held) \/ th'[q].pc \notin {"lock", "fill"}
               PROVE  buf'[th'[q].held[j]].owner = q /\ buf'[th'[q].held[j]].valid
    BY Zenon DEF LockedByHolder
  <2>1. CASE q = p
    <3>1. 3 - i \in DOMAIN h /\ th'[p].held[j] = h[3 - i] /\ h[3 - i] # b
      BY <1>1, <1>3, <1>6, <1>8, <2>1 DEF Distinct
    <3>2. buf[h[3 - i]].owner = p /\ buf[h[3 - i]].valid /\ h[3 - i] \in Bufs
      BY <1>1, <3>1 DEF LockedByHolder, h, Calls
    <3> QED
      BY <1>4, <2>1, <3>1, <3>2
  <2>2. CASE q # p
    <3>1. th'[q] = th[q] /\ th[q].held[j] \in Bufs
      BY <1>5, <2>2 DEF Types, Threads
    <3>2. buf[th[q].held[j]].owner = q /\ buf[th[q].held[j]].valid
      BY <3>1, Zenon DEF LockedByHolder
    <3> QED
      BY <1>4, <1>7, <2>2, <3>1, <3>2
  <2> QED
    BY <2>1, <2>2, Zenon
<1>14. RefCounts'
  <2>1. p \in Users(b) /\ p \notin Dropping(b)
    BY <1>1, BioAssumption, Zenon DEF Users, Dropping, h
  <2>2. Users(b)' = Users(b) \ {p}
    <3>1. ~\E j \in DOMAIN g : g[j] = b
      BY <1>1, <1>3, <1>8 DEF Distinct
    <3> QED
      BY <1>5, <1>6, <3>1 DEF Users
  <2>3. Dropping(b)' = Dropping(b) \cup {p}
    BY <1>5, <1>6 DEF Dropping
  <2>4. \A c \in Bufs \ {b} : Users(c)' = Users(c)
    <3> TAKE c \in Bufs \ {b}
    <3>1. (\E j \in DOMAIN g : g[j] = c) <=> \E j \in DOMAIN h : h[j] = c
      <4>1. ASSUME NEW j \in DOMAIN h, h[j] = c PROVE \E j2 \in DOMAIN g : g[j2] = c
        <5>1. j # i
          BY <1>1, <4>1 , Zenon
        <5>2. Len(h) = 2 /\ j = 3 - i
          BY <1>1, <4>1, <5>1 DEF Count
        <5> QED
          BY <1>3, <4>1, <5>2, Zenon
      <4> QED
        BY <1>3, <4>1, Zenon
    <3> QED
      BY <1>5, <1>6, <3>1 DEF Users, h
  <2>5. \A c \in Bufs \ {b} : Dropping(c)' = Dropping(c)
    BY <1>1, <1>5, <1>6, BioAssumption DEF Dropping
  <2>6. \A c \in Bufs : Pin(c)' = Pin(c)
    BY <1>4, Zenon DEF Pin, SamePins, Types, Buffers
  <2>7. /\ Cardinality(Users(b)') = Cardinality(Users(b)) - 1
        /\ Cardinality(Dropping(b)') = Cardinality(Dropping(b)) + 1
    <3>1. Cardinality(Users(b) \ {p}) = Cardinality(Users(b)) - 1
      <4>1. Users(b) \in SUBSET Procs
        BY Zenon DEF Users
      <4> QED
        BY <2>1, <4>1, OneLess, Zenon
    <3>2. Cardinality(Dropping(b) \cup {p}) = Cardinality(Dropping(b)) + 1
      <4>1. Dropping(b) \in SUBSET Procs /\ p \in Procs \ Dropping(b)
        BY <2>1, Zenon DEF Dropping
      <4> QED
        BY <4>1, OneMore, Zenon
    <3> QED
      BY <2>2, <2>3, <3>1, <3>2, Zenon
  <2>8. \A c \in Bufs : buf'[c].refcnt = Cardinality(Users(c)')
                          + Cardinality(Dropping(c)') + Pin(c)'
    <3> TAKE c \in Bufs
    <3>1. buf[c].refcnt = Cardinality(Users(c)) + Cardinality(Dropping(c)) + Pin(c)
      BY Counts, Zenon
    <3>2. CASE c = b
      BY <1>4, <2>6, <2>7, <3>1, <3>2, Counts
    <3>3. CASE c # b
      BY <1>4, <2>4, <2>5, <2>6, <3>1, <3>3, Zenon
    <3> QED
      BY <3>2, <3>3, Zenon
  <2> QED
    BY <2>8, Zenon DEF RefCounts, Users, Dropping, Pin
<1>15. Pins'
  BY <1>4 DEF Pins, SamePins
<1> QED
  BY <1>9, <1>10, <1>11, <1>12, <1>13, <1>14, <1>15, Zenon DEF Hands

(* Steps that move no buffer from hand to hand. *)
SameUse ==
  /\ \A c \in Bufs : /\ buf'[c].blockno = buf[c].blockno
                     /\ buf[c].valid => buf'[c].valid
  /\ \A q \in Procs : th'[q].held = th[q].held /\ th'[q].drop = th[q].drop

LEMMA QuietCache ==
  ASSUME Cache, SamePins, SameUse, Types', Kinds', Lru', Hands', LockedByHolder',
         \A c \in Bufs : buf'[c].refcnt = buf[c].refcnt
  PROVE  Cache'
<1> USE DEF Cache, BufferCache
<1>1. OneBufferPerBlock'
  BY Zenon DEF SameUse, OneBufferPerBlock
<1>2. Pins'
  BY DEF SameUse, Pins, SamePins
<1>3. RefCounts'
  <2>1. \A c \in Bufs : /\ Users(c)' = Users(c) /\ Dropping(c)' = Dropping(c)
                        /\ Pin(c)' = Pin(c)
    BY DEF SameUse, Users, Dropping, Pin, SamePins, Types, Buffers
  <2>2. \A c \in Bufs : buf'[c].refcnt = Cardinality(Users(c)')
                          + Cardinality(Dropping(c)') + Pin(c)'
    BY <2>1, Counts, Zenon
  <2> QED
    BY <2>2, Zenon DEF RefCounts, Users, Dropping, Pin
<1> QED
  BY <1>1, <1>2, <1>3, Zenon

(* A thread in bread has the buffer in its hands. *)
LEMMA InBread ==
  ASSUME Types, Hands, NEW p \in Procs, th[p].pc \in {"lock", "fill"}
  PROVE  /\ Len(th[p].held) \in DOMAIN th[p].held /\ Got(p) \in Bufs
         /\ buf[Got(p)].blockno \in Blocks
<1>1. Hand(p) /\ th[p] \in Threads
  BY Zenon DEF Hands, Types
<1>2. th[p].held \in Seq(Bufs) /\ Len(th[p].held) \in {1, 2}
  BY <1>1, Zenon DEF Hand, Loc, Count, Threads, Locs
<1>3. Len(th[p].held) \in DOMAIN th[p].held /\ Got(p) \in Bufs
  <2> DEFINE s == th[p].held
  <2>1. /\ DOMAIN s = 1 .. Len(s) /\ s \in [1 .. Len(s) -> Bufs]
        /\ Len(s) \in {1, 2}
    BY <1>2
  <2> HIDE DEF s
  <2>2. Len(s) \in DOMAIN s /\ s[Len(s)] \in Bufs
    BY <2>1
  <2> QED
    BY <2>2, Zenon DEF Got, s
<1>4. buf[Got(p)].blockno # NIL /\ buf[Got(p)] \in Buffers
  BY <1>1, <1>3, Zenon DEF Hand, Got, Types
<1> QED
  BY <1>3, <1>4, Zenon DEF Buffers

(* The blocks of the buffers in a thread's hands stay as long as no buffer *)
(* changes its block.                                                      *)
LEMMA HeldKept ==
  ASSUME Types, Hands, NEW q \in Procs,
         \A c \in Bufs : buf'[c].blockno = buf[c].blockno
  PROVE  \A j \in DOMAIN th[q].held :
           /\ th[q].held[j] \in Bufs /\ th[q].held[j] # NIL
           /\ buf'[th[q].held[j]].blockno # NIL
<1>1. th[q].held \in Seq(Bufs)
  BY Zenon DEF Types, Threads
<1>2. \A j \in DOMAIN th[q].held : th[q].held[j] \in Bufs
  BY <1>1
<1>3. \A j \in DOMAIN th[q].held : buf[th[q].held[j]].blockno # NIL
  BY DEF Hands, Hand
<1> QED
  BY <1>2, <1>3, BioAssumption, Zenon

(* So does the lock of a thread about to read the block from the disk. *)
LEMMA FilledKept ==
  ASSUME Types, Hands, NEW q \in Procs,
         \A c \in Bufs : buf[c].owner = q => /\ buf'[c].owner = q
                                            /\ buf'[c].valid = buf[c].valid
  PROVE  th[q].pc = "fill" => buf'[Got(q)].owner = q /\ ~buf'[Got(q)].valid
<1> SUFFICES ASSUME th[q].pc = "fill"
             PROVE  buf'[Got(q)].owner = q /\ ~buf'[Got(q)].valid
  BY Zenon
<1>1. Got(q) \in Bufs
  BY InBread, Zenon
<1>2. buf[Got(q)].owner = q /\ ~buf[Got(q)].valid
  BY Zenon DEF Hands, Hand
<1> QED
  BY <1>1, <1>2, Zenon

LEMMA AcquireCache ==
  ASSUME Cache, SamePins, NEW p \in Procs, AcquireSleep(p)
  PROVE  Cache'
<1> USE DEF Cache, BufferCache
<1>1. th[p].pc = "lock" /\ th[p] \in Threads /\ th \in [Procs -> Threads]
  BY Zenon DEF AcquireSleep, At, Types
<1>2. PICK b \in Bufs : b = Got(p)
  BY <1>1, InBread, Zenon
<1>3. /\ Len(th[p].held) \in DOMAIN th[p].held
      /\ th[p].held \in Seq(Bufs) /\ b = th[p].held[Len(th[p].held)]
      /\ th[p].k \in Locs /\ th[p].k \notin Calls
  BY <1>1, <1>2, InBread, Zenon DEF Got, Threads, Locs, Free, Single, Double, Calls
<1>4. /\ buf[b].owner = NIL
      /\ buf' = [buf EXCEPT ![b].owner = p]
      /\ th' = [th EXCEPT ![p].pc = IF buf[b].valid THEN th[p].k ELSE "fill"]
      /\ UNCHANGED <<lru, disk, panic>>
  BY <1>2, Zenon DEF AcquireSleep, Goto
<1>5. /\ \A c \in Bufs : /\ buf'[c].blockno = buf[c].blockno
                         /\ buf'[c].valid = buf[c].valid
                         /\ buf'[c].data = buf[c].data
                         /\ buf'[c].refcnt = buf[c].refcnt
      /\ \A c \in Bufs \ {b} : buf'[c].owner = buf[c].owner
      /\ buf'[b].owner = p
      /\ buf' \in [Bufs -> Buffers]
  BY <1>4 DEF Types, Buffers
<1>6. \A q \in Procs \ {p} : th'[q] = th[q]
  BY <1>1, <1>4, Zenon
<1>7. /\ th'[p].pc = IF buf[b].valid THEN th[p].k ELSE "fill"
      /\ th'[p].k = th[p].k /\ th'[p].held = th[p].held
      /\ th'[p].drop = th[p].drop
  BY <1>1, <1>4, Zenon DEF Threads
<1>8. Types'
  <2>1. th' \in [Procs -> Threads]
    BY <1>1, <1>3, <1>4, Zenon DEF Threads, Calls
  <2> QED
    BY <1>4, <1>5, <2>1, Zenon DEF Types
<1>9. Kinds' /\ Lru'
  BY <1>4, <1>5 DEF Kinds, Kind, Lru
(* A buffer that a thread has locked is not the one p has now. *)
<1>10. ASSUME NEW q \in Procs, NEW i \in DOMAIN th[q].held, buf[th[q].held[i]].owner = q
       PROVE  /\ buf'[th[q].held[i]].owner = q
              /\ buf'[th[q].held[i]].valid = buf[th[q].held[i]].valid
  <2>1. th[q].held[i] \in Bufs /\ q # NIL
    BY BioAssumption DEF Types, Threads
  <2> QED
    BY <1>4, <1>5, <1>10, <2>1, Zenon
<1>11. ASSUME NEW q \in Procs \ {p} PROVE Hand(q)'
  <2>1. Hand(q) /\ th[q].held \in Seq(Bufs)
    BY Zenon DEF Hands, Types, Threads
  <2>2. th'[q] = th[q] /\ Loc(q)' = Loc(q) /\ Got(q)' = Got(q)
    BY <1>6, Zenon DEF Loc, Got
  <2>3. th[q].pc = "fill" => buf'[Got(q)].owner = q /\ ~buf'[Got(q)].valid
    BY <1>4, <1>5, FilledKept, BioAssumption
  <2>4. \A j \in DOMAIN th[q].held : buf'[th[q].held[j]].blockno # NIL
    BY <1>5, HeldKept, Zenon
  <2> QED
    BY <2>1, <2>2, <2>3, <2>4, Zenon DEF Hand
<1>12. Hand(p)'
  <2>1. Hand(p)
    BY Zenon DEF Hands
  <2>2. Loc(p)' = Loc(p) /\ th'[p].pc \notin {"lock", "drop"}
    BY <1>1, <1>3, <1>7, Zenon DEF Loc, Calls
  <2>3. \A j \in DOMAIN th[p].held : buf'[th[p].held[j]].blockno # NIL
    BY <1>5, HeldKept, Zenon
  <2>4. th'[p].pc = "fill" => buf'[Got(p)'].owner = p /\ ~buf'[Got(p)'].valid
    <3>1. th'[p].pc = "fill" => ~buf[b].valid
      BY <1>3, <1>7, Zenon DEF Calls
    <3>2. Got(p)' = b
      BY <1>3, <1>7, Zenon DEF Got
    <3> QED
      BY <1>5, <3>1, <3>2, Zenon
  <2> QED
    BY <1>1, <1>7, <2>1, <2>2, <2>3, <2>4, Zenon DEF Hand
<1>13. LockedByHolder'
  <2> SUFFICES ASSUME NEW q \in Procs, NEW i \in DOMAIN th'[q].held,
                      i < Len(th'[q].held) \/ th'[q].pc \notin {"lock", "fill"}
               PROVE  buf'[th'[q].held[i]].owner = q /\ buf'[th'[q].held[i]].valid
    BY Zenon DEF LockedByHolder
  <2>1. CASE q # p
    BY <1>6, <1>10, <2>1 DEF LockedByHolder
  <2>2. CASE q = p /\ i < Len(th[p].held)
    BY <1>7, <1>10, <2>2 DEF LockedByHolder
  <2>3. CASE q = p /\ ~(i < Len(th[p].held))
    <3>1. th'[p].held[i] = b /\ buf[b].valid
      BY <1>3, <1>7, <2>3
    <3> QED
      BY <1>5, <2>3, <3>1, Zenon
  <2> QED
    BY <2>1, <2>2, <2>3, Zenon
<1> QED
  BY <1>5, <1>6, <1>7, <1>8, <1>9, <1>11, <1>12, <1>13, QuietCache, Zenon
     DEF SameUse, Hands

LEMMA FillCache ==
  ASSUME Cache, SamePins, NEW p \in Procs, Fill(p)
  PROVE  Cache'
<1> USE DEF Cache, BufferCache
<1>1. th[p].pc = "fill" /\ th[p] \in Threads /\ th \in [Procs -> Threads]
  BY Zenon DEF Fill, At, Types
<1>2. PICK b \in Bufs : b = Got(p)
  BY <1>1, InBread, Zenon
<1>3. /\ Len(th[p].held) \in DOMAIN th[p].held
      /\ th[p].held \in Seq(Bufs) /\ b = th[p].held[Len(th[p].held)]
      /\ th[p].k \in Locs /\ th[p].k \notin Calls
      /\ buf[b].blockno \in Blocks
  BY <1>1, <1>2, InBread, Zenon DEF Got, Threads, Locs, Free, Single, Double, Calls
<1>4. /\ buf' = [buf EXCEPT ![b].data = disk[buf[b].blockno], ![b].valid = TRUE]
      /\ th' = [th EXCEPT ![p].pc = th[p].k]
      /\ UNCHANGED <<lru, disk, panic>>
  BY <1>2, Zenon DEF Fill, Goto
<1>5. /\ \A c \in Bufs : /\ buf'[c].blockno = buf[c].blockno
                         /\ buf'[c].owner = buf[c].owner
                         /\ buf'[c].refcnt = buf[c].refcnt
      /\ \A c \in Bufs \ {b} : buf'[c] = buf[c]
      /\ buf'[b].valid /\ buf'[b].data = disk[buf[b].blockno]
      /\ buf' \in [Bufs -> Buffers]
  <2>1. buf \in [Bufs -> Buffers] /\ disk[buf[b].blockno] \in Contents
    BY <1>3, Zenon DEF Types
  <2> QED
    BY <1>4, <2>1, Zenon DEF Buffers
<1>6. \A q \in Procs \ {p} : th'[q] = th[q]
  BY <1>1, <1>4, Zenon
<1>7. /\ th'[p].pc = th[p].k
      /\ th'[p].k = th[p].k /\ th'[p].held = th[p].held
      /\ th'[p].drop = th[p].drop
  BY <1>1, <1>4, Zenon DEF Threads
<1>8. Types'
  <2>1. th' \in [Procs -> Threads]
    BY <1>1, <1>3, <1>4, Zenon DEF Threads
  <2> QED
    BY <1>4, <1>5, <2>1, Zenon DEF Types
<1>9. Kinds' /\ Lru'
  <2>1. buf'[b].data \in Kind(buf'[b].blockno)
    BY <1>3, <1>5, Zenon DEF Kinds
  <2>2. \A c \in Bufs \ {b} : buf'[c].valid => buf'[c].data \in Kind(buf'[c].blockno)
    BY <1>5, Zenon DEF Kinds
  <2> QED
    BY <1>4, <2>1, <2>2, Zenon DEF Kinds, Kind, Lru
(* p has locked the buffer, so no one else has. *)
<1>10. buf[b].owner = p
  BY <1>1, <1>2, Zenon DEF Hands, Hand
<1>11. ASSUME NEW q \in Procs \ {p} PROVE Hand(q)'
  <2>1. Hand(q) /\ th[q].held \in Seq(Bufs)
    BY Zenon DEF Hands, Types, Threads
  <2>2. th'[q] = th[q] /\ Loc(q)' = Loc(q) /\ Got(q)' = Got(q)
    BY <1>6, Zenon DEF Loc, Got
  <2>3. th[q].pc = "fill" => buf'[Got(q)].owner = q /\ ~buf'[Got(q)].valid
    BY <1>5, <1>10, FilledKept, Zenon
  <2>4. \A j \in DOMAIN th[q].held : buf'[th[q].held[j]].blockno # NIL
    BY <1>5, HeldKept
  <2> QED
    BY <2>1, <2>2, <2>3, <2>4, Zenon DEF Hand
<1>12. Hand(p)'
  <2>1. Hand(p)
    BY Zenon DEF Hands
  <2>2. Loc(p)' = Loc(p) /\ th'[p].pc \notin {"lock", "fill", "drop"}
    BY <1>1, <1>3, <1>7, Zenon DEF Loc, Calls
  <2>3. \A j \in DOMAIN th[p].held : buf'[th[p].held[j]].blockno # NIL
    BY <1>5, HeldKept
  <2> QED
    BY <1>1, <1>7, <2>1, <2>2, <2>3, Zenon DEF Hand
<1>13. LockedByHolder'
  <2> SUFFICES ASSUME NEW q \in Procs, NEW i \in DOMAIN th'[q].held,
                      i < Len(th'[q].held) \/ th'[q].pc \notin {"lock", "fill"}
               PROVE  buf'[th'[q].held[i]].owner = q /\ buf'[th'[q].held[i]].valid
    BY Zenon DEF LockedByHolder
  <2>0. th'[q].held = th[q].held /\ th[q].held \in Seq(Bufs)
    BY <1>6, <1>7, Zenon DEF Types, Threads
  <2>1. th'[q].held = th[q].held /\ th[q].held[i] \in Bufs
    BY <2>0
  <2>2. CASE q # p \/ i < Len(th[p].held)
    <3>1. buf[th[q].held[i]].owner = q /\ buf[th[q].held[i]].valid
      BY <1>6, <2>1, <2>2, Zenon DEF LockedByHolder
    <3> QED
      BY <1>5, <2>1, <3>1
  <2>3. CASE q = p /\ ~(i < Len(th[p].held))
    <3>1. th[q].held[i] = b
      BY <1>3, <1>7, <2>3
    <3> QED
      BY <1>5, <1>10, <2>1, <2>3, <3>1
  <2> QED
    BY <2>2, <2>3, Zenon
<1> QED
  BY <1>5, <1>6, <1>7, <1>8, <1>9, <1>11, <1>12, <1>13, QuietCache, Zenon
     DEF SameUse, Hands

LEMMA MovedToHead ==
  ASSUME Lru, NEW b \in Bufs
  PROVE  /\ MoveToHead(b) \in [Bufs -> Bufs]
         /\ \A c \in Bufs : \E i \in Bufs : MoveToHead(b)[i] = c
<1> DEFINE at == CHOOSE i \in Bufs : lru[i] = b
           new == MoveToHead(b)
<1>1. at \in Bufs /\ lru[at] = b
  BY Zenon DEF Lru
<1>2. new = [i \in Bufs |-> IF i = 1 THEN b
                             ELSE IF i <= at THEN lru[i - 1] ELSE lru[i]]
  BY Zenon DEF MoveToHead
<1> HIDE DEF at, new
<1>3. new \in [Bufs -> Bufs]
  <2>1. \A i \in Bufs : i # 1 => i - 1 \in Bufs
    BY BioAssumption DEF Bufs
  <2> QED
    BY <1>1, <1>2, <2>1, Zenon DEF Lru
<1>4. ASSUME NEW c \in Bufs PROVE \E i \in Bufs : new[i] = c
  <2>1. PICK j \in Bufs : lru[j] = c
    BY Zenon DEF Lru
  <2>2. CASE j = at
    <3>1. 1 \in Bufs /\ new[1] = b
      BY <1>1, <1>2, BioAssumption DEF Bufs
    <3> QED
      BY <1>1, <2>1, <2>2, <3>1, Zenon
  <2>3. CASE j < at
    <3>1. j + 1 \in Bufs /\ new[j + 1] = c
      BY <1>1, <1>2, <2>1, <2>3, BioAssumption DEF Bufs
    <3> QED
      BY <3>1, Zenon
  <2>4. CASE j > at
    <3>1. new[j] = c
      BY <1>1, <1>2, <2>1, <2>4, BioAssumption DEF Bufs
    <3> QED
      BY <3>1, Zenon
  <2> QED
    BY <1>1, <2>2, <2>3, <2>4, BioAssumption DEF Bufs
<1> QED
  BY <1>3, <1>4, Zenon DEF new

LEMMA DropCache ==
  ASSUME Cache, SamePins, NEW p \in Procs, DropRef(p)
  PROVE  Cache'
<1> USE DEF Cache, BufferCache
<1>1. /\ th[p].pc = "drop" /\ th[p] \in Threads /\ th \in [Procs -> Threads]
      /\ Hand(p)
  BY Zenon DEF DropRef, At, Types, Hands
<1>2. PICK b \in Bufs : b = th[p].drop
  BY <1>1, Zenon DEF Hand, Threads
<1>3. th[p].k \in Locs /\ th[p].k \notin Calls
  BY <1>1, Zenon DEF Threads, Locs, Free, Single, Double, Calls
<1>4. /\ buf' = [buf EXCEPT ![b].refcnt = @ - 1]
      /\ lru' = IF buf[b].refcnt = 1 THEN MoveToHead(b) ELSE lru
      /\ th' = [th EXCEPT ![p].pc = th[p].k, ![p].drop = NIL]
      /\ UNCHANGED <<disk, panic>>
  BY <1>2, Zenon DEF DropRef
<1>5. /\ \A c \in Bufs : /\ buf'[c].blockno = buf[c].blockno
                         /\ buf'[c].valid = buf[c].valid
                         /\ buf'[c].data = buf[c].data
                         /\ buf'[c].owner = buf[c].owner
      /\ \A c \in Bufs \ {b} : buf'[c].refcnt = buf[c].refcnt
      /\ buf'[b].refcnt = buf[b].refcnt - 1
      /\ buf' \in [Bufs -> Buffers]
  BY <1>4 DEF Types, Buffers
<1>6. \A q \in Procs \ {p} : th'[q] = th[q]
  BY <1>1, <1>4, Zenon
<1>7. /\ th'[p].pc = th[p].k /\ th'[p].drop = NIL
      /\ th'[p].k = th[p].k /\ th'[p].held = th[p].held
      /\ th' \in [Procs -> Threads]
  <2>1. th'[p] = [th[p] EXCEPT !.pc = th[p].k, !.drop = NIL]
    BY <1>1, <1>4, Zenon
  <2>2. th'[p] \in Threads
    BY <1>1, <1>3, <2>1, Zenon DEF Threads
  <2> QED
    BY <1>1, <1>4, <2>1, <2>2, Zenon DEF Threads
<1>8. Types'
  BY <1>4, <1>5, <1>7, Zenon DEF Types
<1>9. Kinds' /\ OneBufferPerBlock'
  BY <1>4, <1>5 DEF Kinds, Kind, OneBufferPerBlock
<1>10. Lru'
  BY <1>4, MovedToHead, Zenon DEF Lru
<1>11. Pins'
  BY <1>5 DEF Pins, SamePins
<1>12. ASSUME NEW q \in Procs PROVE Hand(q)'
  <2>1. Hand(q) /\ th[q].held \in Seq(Bufs)
    BY Zenon DEF Hands, Types, Threads
  <2>2. /\ th'[q].held = th[q].held /\ Loc(q)' = Loc(q) /\ Got(q)' = Got(q)
        /\ th'[q].k = th[q].k
        /\ th'[q].pc = "fill" => th[q].pc = "fill"
        /\ th'[q].pc = "lock" => th[q].pc = "lock"
    BY <1>1, <1>3, <1>6, <1>7, Zenon DEF Loc, Got, Calls
  <2>3. th[q].pc = "fill" => buf'[Got(q)].owner = q /\ ~buf'[Got(q)].valid
    BY <1>5, FilledKept, Zenon
  <2>4. \A j \in DOMAIN th[q].held : /\ buf'[th[q].held[j]].blockno # NIL
                                     /\ th[q].held[j] # NIL
    BY <1>5, HeldKept, Zenon
  <2>5. th'[q].drop # NIL <=> th'[q].pc = "drop"
    BY <1>3, <1>6, <1>7, <2>1, Zenon DEF Hand, Calls
  <2>6. th'[q].drop \in {th[q].drop, NIL}
    BY <1>6, <1>7, Zenon
  <2> QED
    BY <2>1, <2>2, <2>3, <2>4, <2>5, <2>6, Zenon DEF Hand
<1>13. LockedByHolder'
  <2> SUFFICES ASSUME NEW q \in Procs, NEW i \in DOMAIN th'[q].held,
                      i < Len(th'[q].held) \/ th'[q].pc \notin {"lock", "fill"}
               PROVE  buf'[th'[q].held[i]].owner = q /\ buf'[th'[q].held[i]].valid
    BY Zenon DEF LockedByHolder
  <2>0. th'[q].held = th[q].held /\ th[q].held \in Seq(Bufs)
    BY <1>6, <1>7, Zenon DEF Types, Threads
  <2>1. th'[q].held = th[q].held /\ th[q].held[i] \in Bufs
    BY <2>0
  <2>2. i < Len(th[q].held) \/ th[q].pc \notin {"lock", "fill"}
    BY <1>1, <1>6, <2>1, Zenon
  <2>3. buf[th[q].held[i]].owner = q /\ buf[th[q].held[i]].valid
    BY <2>1, <2>2, Zenon DEF LockedByHolder
  <2> QED
    BY <1>5, <2>1, <2>3
<1>14. RefCounts'
  <2>1. \A c \in Bufs : Users(c)' = Users(c) /\ Pin(c)' = Pin(c)
    BY <1>5, <1>6, <1>7 DEF Users, Pin, SamePins, Types, Buffers
  <2>2. Dropping(b)' = Dropping(b) \ {p} /\ p \in Dropping(b)
    BY <1>2, <1>6, <1>7, BioAssumption, Zenon DEF Dropping
  <2>3. \A c \in Bufs \ {b} : Dropping(c)' = Dropping(c)
    BY <1>2, <1>6, <1>7, BioAssumption, Zenon DEF Dropping
  <2>4. Cardinality(Dropping(b)') = Cardinality(Dropping(b)) - 1
    <3>1. Cardinality(Dropping(b) \ {p}) = Cardinality(Dropping(b)) - 1
      <4>1. Dropping(b) \in SUBSET Procs
        BY Zenon DEF Dropping
      <4> QED
        BY <2>2, <4>1, OneLess, Zenon
    <3> QED
      BY <2>2, <3>1, Zenon
  <2>5. \A c \in Bufs : buf'[c].refcnt = Cardinality(Users(c)')
                          + Cardinality(Dropping(c)') + Pin(c)'
    <3> TAKE c \in Bufs
    <3>1. buf[c].refcnt = Cardinality(Users(c)) + Cardinality(Dropping(c)) + Pin(c)
      BY Counts, Zenon
    <3>2. CASE c = b
      BY <1>5, <2>1, <2>4, <3>1, <3>2, Counts
    <3>3. CASE c # b
      BY <1>5, <2>1, <2>3, <3>1, <3>3, Zenon
    <3> QED
      BY <3>2, <3>3, Zenon
  <2> QED
    BY <2>5, Zenon DEF RefCounts, Users, Dropping, Pin
<1> QED
  BY <1>8, <1>9, <1>10, <1>11, <1>12, <1>13, <1>14, Zenon DEF Hands

(* Thread p moves on to l, a place of the same kind as before, and changes *)
(* the contents of buffer b, and its pin by d.                             *)
Puts(p, b, l, d) ==
  /\ l \in Locs \ Calls /\ Count(l) = Count(th[p].pc)
  /\ th' = [th EXCEPT ![p].pc = l]
  /\ buf' \in [Bufs -> Buffers]
  /\ \A c \in Bufs \ {b} : buf'[c] = buf[c]
  /\ buf'[b].blockno = buf[b].blockno /\ buf'[b].valid = buf[b].valid
  /\ buf'[b].owner = buf[b].owner /\ buf'[b].data \in Kind(buf[b].blockno)
  /\ lru' = lru
  /\ disk' \in [Blocks -> Contents]
  /\ \A x \in Blocks : disk'[x] \in Kind(x)
  /\ buf'[b].refcnt = buf[b].refcnt + d /\ Pin(b)' = Pin(b) + d
  /\ \A c \in Bufs \ {b} : Pin(c)' = Pin(c)
  /\ \A x \in Blocks : Pinned(x)' => Pinned(x) \/ x = buf[b].blockno

(* It may do so with a buffer in its hands. *)
LEMMA PutsCache ==
  ASSUME Cache, NEW p \in Procs, NEW i \in DOMAIN th[p].held, NEW b \in Bufs,
         b = th[p].held[i], th[p].pc \notin Calls, NEW l, NEW d \in Int,
         Puts(p, b, l, d)
  PROVE  Cache'
<1> USE DEF Cache, BufferCache
<1>1. /\ th[p] \in Threads /\ th \in [Procs -> Threads]
      /\ l \notin Calls /\ Count(l) = Count(th[p].pc)
  BY Zenon DEF Types, Puts
<1>2. /\ \A q \in Procs \ {p} : th'[q] = th[q]
      /\ th'[p].pc = l /\ th'[p].k = th[p].k /\ th'[p].held = th[p].held
      /\ th'[p].drop = th[p].drop /\ th' \in [Procs -> Threads]
  BY <1>1, Zenon DEF Threads, Puts
<1>3. buf[b].owner = p /\ buf[b].valid
  BY Zenon DEF LockedByHolder, Calls
<1>4. Types'
  BY <1>2, Zenon DEF Types, Puts
<1>6. /\ \A c \in Bufs : /\ buf'[c].blockno = buf[c].blockno
                         /\ buf'[c].valid = buf[c].valid
                         /\ buf'[c].owner = buf[c].owner
      /\ \A c \in Bufs \ {b} : buf'[c].data = buf[c].data
      /\ buf'[b].data \in Kind(buf[b].blockno)
      /\ lru' = lru
      /\ \A x \in Blocks : disk'[x] \in Kind(x)
  BY Zenon DEF Puts
<1>12. /\ buf'[b].refcnt = buf[b].refcnt + d /\ Pin(b)' = Pin(b) + d
       /\ \A c \in Bufs \ {b} : buf'[c].refcnt = buf[c].refcnt /\ Pin(c)' = Pin(c)
       /\ \A x \in Blocks : Pinned(x)' => Pinned(x) \/ x = buf[b].blockno
  BY Zenon DEF Puts
<1>5. Kinds' /\ Lru' /\ OneBufferPerBlock'
  <2>1. \A c \in Bufs : buf'[c].valid => buf'[c].data \in Kind(buf'[c].blockno)
    BY <1>6, Zenon DEF Kinds
  <2>2. OneBufferPerBlock'
    BY <1>6 DEF OneBufferPerBlock
  <2> QED
    BY <1>6, <2>1, <2>2, Zenon DEF Kinds, Kind, Lru
<1>7. ASSUME NEW q \in Procs PROVE Hand(q)'
  <2>1. Hand(q) /\ th[q].held \in Seq(Bufs)
    BY Zenon DEF Hands, Types, Threads
  <2>2. /\ th'[q].held = th[q].held /\ th'[q].k = th[q].k /\ Got(q)' = Got(q)
        /\ th'[q].drop = th[q].drop
        /\ Count(Loc(q)') = Count(Loc(q))
    <3>1. CASE q = p
      BY <1>1, <1>2, <3>1, Zenon DEF Loc, Got, Calls
    <3>2. CASE q # p
      BY <1>2, <3>2, Zenon DEF Loc, Got
    <3> QED
      BY <3>1, <3>2, Zenon
  <2>3. /\ th'[q].pc = "fill" <=> th[q].pc = "fill"
        /\ th'[q].pc = "lock" <=> th[q].pc = "lock"
        /\ th'[q].pc = "drop" <=> th[q].pc = "drop"
    BY <1>1, <1>2, Zenon DEF Calls
  <2>4. th[q].pc = "fill" => buf'[Got(q)].owner = q /\ ~buf'[Got(q)].valid
    BY <1>6, FilledKept, Zenon
  <2>5. \A j \in DOMAIN th[q].held : buf'[th[q].held[j]].blockno # NIL
    BY <1>6, HeldKept, Zenon
  <2> QED
    BY <2>1, <2>2, <2>3, <2>4, <2>5, Zenon DEF Hand
<1>8. LockedByHolder'
  <2> SUFFICES ASSUME NEW q \in Procs, NEW j \in DOMAIN th'[q].held,
                      j < Len(th'[q].held) \/ th'[q].pc \notin {"lock", "fill"}
               PROVE  buf'[th'[q].held[j]].owner = q /\ buf'[th'[q].held[j]].valid
    BY Zenon DEF LockedByHolder
  <2>1. th'[q].held = th[q].held /\ th[q].held \in Seq(Bufs)
    BY <1>2, Zenon DEF Types, Threads
  <2>2. j < Len(th[q].held) \/ th[q].pc \notin {"lock", "fill"}
    BY <1>2, <2>1, Zenon DEF Calls
  <2>3. buf[th[q].held[j]].owner = q /\ buf[th[q].held[j]].valid
    BY <2>1, <2>2, Zenon DEF LockedByHolder
  <2>4. j \in DOMAIN th[q].held
    BY <2>1, Zenon
  <2>5. th[q].held[j] \in Bufs
    BY <2>1, <2>4
  <2> QED
    BY <1>6, <2>1, <2>3, <2>5
<1>9. RefCounts'
  <2>1. \A c \in Bufs : Users(c)' = Users(c) /\ Dropping(c)' = Dropping(c)
    BY <1>2, Zenon DEF Users, Dropping
  <2>2. \A c \in Bufs : buf'[c].refcnt = Cardinality(Users(c)')
                          + Cardinality(Dropping(c)') + Pin(c)'
    <3> TAKE c \in Bufs
    <3>1. buf[c].refcnt = Cardinality(Users(c)) + Cardinality(Dropping(c)) + Pin(c)
      BY Counts, Zenon
    <3>2. CASE c = b
      <4>1. /\ Cardinality(Users(b)) \in Nat /\ Cardinality(Dropping(b)) \in Nat
            /\ Pin(b) \in {0, 1}
        BY Counts, Zenon
      <4>2. buf'[b].refcnt = Cardinality(Users(b)) + Cardinality(Dropping(b)) + Pin(b)'
        <5>1. buf[b].refcnt + d = Cardinality(Users(b)) + Cardinality(Dropping(b))
                                    + (Pin(b) + d)
          BY <3>1, <3>2, <4>1
        <5> QED
          BY <1>12, <5>1, Zenon
      <4> QED
        BY <2>1, <3>2, <4>2, Zenon
    <3>3. CASE c # b
      BY <1>12, <2>1, <3>1, <3>3, Zenon
    <3> QED
      BY <3>2, <3>3, Zenon
  <2> QED
    BY <2>2, Zenon DEF RefCounts, Users, Dropping, Pin
<1>10. ASSUME NEW x \in Blocks, Pinned(x)'
       PROVE  \E c \in Bufs : buf'[c].blockno = x /\ buf'[c].valid
  <2>1. \E c \in Bufs : buf[c].blockno = x /\ buf[c].valid
    BY <1>3, <1>10, <1>12 DEF Pins
  <2> QED
    BY <1>6, <2>1, Zenon
<1>11. Pins'
  BY <1>10, Zenon DEF Pins
<1> QED
  BY <1>4, <1>5, <1>7, <1>8, <1>9, <1>11, Zenon DEF Hands

(* Threads with no buffers move on. *)
LEMMA JumpsCache ==
  ASSUME Cache, SamePins, UNCHANGED <<buf, lru, disk>>, th' \in [Procs -> Threads],
         \A q \in Procs : \/ th'[q] = th[q]
                          \/ /\ th[q].pc \in Free /\ th'[q].pc \in Free
                             /\ th'[q].held = th[q].held
                             /\ th'[q].drop = th[q].drop
  PROVE  Cache'
<1> USE DEF Cache, BufferCache
<1>1. ASSUME NEW q \in Procs PROVE Hand(q)'
  <2>1. Hand(q)
    BY Zenon DEF Hands
  <2>2. CASE th'[q] = th[q]
    <3>1. Loc(q)' = Loc(q) /\ Got(q)' = Got(q)
      BY <2>2, Zenon DEF Loc, Got
    <3> QED
      BY <2>1, <2>2, <3>1, Zenon DEF Hand
  <2>3. CASE /\ th[q].pc \in Free /\ th'[q].pc \in Free
             /\ th'[q].held = th[q].held /\ th'[q].drop = th[q].drop
    <3>1. th[q].pc \notin Calls /\ th'[q].pc \notin Calls
      BY <2>3, Zenon DEF Free, Calls
    <3>2. Count(Loc(q)) = 0 /\ Count(Loc(q)') = 0
      BY <2>3, <3>1, Zenon DEF Loc, Calls, Count, Free, Single, Double
    <3> QED
      BY <2>1, <2>3, <3>1, <3>2, Zenon DEF Hand, Calls
  <2> QED
    BY <2>2, <2>3, Zenon
<1>2. LockedByHolder'
  <2> SUFFICES ASSUME NEW q \in Procs, NEW j \in DOMAIN th'[q].held,
                      j < Len(th'[q].held) \/ th'[q].pc \notin {"lock", "fill"}
               PROVE  buf[th'[q].held[j]].owner = q /\ buf[th'[q].held[j]].valid
    BY Zenon DEF LockedByHolder
  <2>1. th'[q].held = th[q].held
    BY Zenon
  <2>2. j < Len(th[q].held) \/ th[q].pc \notin {"lock", "fill"}
    BY <2>1, Zenon DEF Free
  <2> QED
    BY <2>1, <2>2 DEF LockedByHolder
<1>3. Types' /\ Kinds' /\ Lru'
  BY Zenon DEF Types, Kinds, Kind, Lru
<1>4. SameUse
  BY Zenon DEF SameUse
<1> QED
  BY <1>1, <1>2, <1>3, <1>4, QuietCache, Zenon DEF Hands

(* A fresh start. *)
Fresh == /\ BInit
         /\ disk \in [Blocks -> Contents] /\ \A x \in Blocks : disk[x] \in Kind(x)
         /\ \E p \in Procs : booting = p /\ th = Boot(p)

LEMMA FreshCache == Elementary /\ Fresh => Cache
<1> SUFFICES ASSUME Elementary, Fresh PROVE Cache
  BY Zenon
<1>1. PICK p \in Procs : booting = p /\ th = Boot(p)
  BY Zenon DEF Fresh
<1>2. /\ buf = [b \in Bufs |-> FreshBuf] /\ lru = [i \in Bufs |-> NBUF + 1 - i]
      /\ FreshBuf \in Buffers /\ ~FreshBuf.valid /\ FreshBuf.blockno = NIL
      /\ FreshBuf.refcnt = 0
  <2>1. /\ FreshBuf \in Buffers /\ ~FreshBuf.valid /\ FreshBuf.blockno = NIL
        /\ FreshBuf.refcnt = 0
    BY DEF FreshBuf, Buffers, Contents
  <2> QED
    BY <2>1, Zenon DEF Fresh, BInit
<1>3. \A q \in Procs : /\ th[q].held = <<>> /\ th[q].drop = NIL
                       /\ th[q].pc \in {"recover", "off"}
  BY <1>1, Zenon DEF Boot, Thread
<1>4. th \in [Procs -> Threads]
  BY <1>1 DEF Boot, Thread, Threads, Locs, Free
<1>5. Types /\ Kinds
  BY <1>2, <1>4, Zenon DEF Types, Kinds, Fresh
<1>6. Lru
  <2>1. \A i \in Bufs : NBUF + 1 - i \in Bufs /\ NBUF + 1 - (NBUF + 1 - i) = i
    BY BioAssumption DEF Bufs
  <2>2. \A i \in Bufs : lru[NBUF + 1 - i] = i
    BY <1>2, <2>1, Zenon
  <2> QED
    BY <1>2, <2>1, <2>2, Zenon DEF Lru
<1>7. Hands
  <2> SUFFICES ASSUME NEW q \in Procs PROVE Hand(q)
    BY Zenon DEF Hands
  <2>1. Loc(q) \in {"recover", "off"}
    BY <1>3, Zenon DEF Loc
  <2>2. Count(Loc(q)) = 0
    BY <2>1, Zenon DEF Count, Single, Double
  <2> QED
    BY <1>3, <2>2 DEF Hand, Distinct
<1>8. OneBufferPerBlock /\ LockedByHolder
  BY <1>2, <1>3 DEF OneBufferPerBlock, LockedByHolder
<1>9. booting # NIL
  BY <1>1, BioAssumption, Zenon
<1>10. Pins
  BY <1>9, Zenon DEF Pins, Pinned
<1>11. RefCounts
  <2>1. \A b \in Bufs : Users(b) = {} /\ Dropping(b) = {} /\ Pin(b) = 0
    BY <1>3, <1>9, BioAssumption DEF Users, Dropping, Pin, Pinned
  <2> QED
    BY <1>2, <2>1, Counts DEF Elementary
<1> QED
  BY <1>5, <1>6, <1>7, <1>8, <1>10, <1>11, Zenon DEF Cache, BufferCache
-----------------------------------------------------------------------------
(* What the steps of log.c have in common *)

InOpLocs == {"op", "modify", "release"}

(* The other threads keep what they have in their hands. *)
Keeps(p) ==
  \A q \in Procs \ {p} :
    /\ th'[q].held = th[q].held
    /\ th'[q].pc = "off" <=> th[q].pc = "off"
    /\ \A i \in DOMAIN th[q].held : InHand(q, i)' = InHand(q, i)

(* A thread that runs no recovery runs when there is none. *)
LEMMA Running ==
  ASSUME LogTypes, Turns, NEW p \in Procs,
         Loc(p) \notin {"off", "done"} \cup InHead \cup InInstall \cup InRecover
  PROVE  booting = NIL
<1>1. th[p].pc = "off" => Loc(p) = "off"
  BY Zenon DEF Loc
<1> QED
  BY <1>1, Zenon DEF Turns, LogTypes

LEMMA TakesGoes ==
  ASSUME Cache, NEW p \in Procs, NEW b \in Bufs, NEW blk \in Blocks,
         NEW k \in Locs, th[p].pc \notin Calls, Takes(p, b, blk, k)
  PROVE  /\ Goes(p, th[p].pc, k) /\ Keeps(p)
         /\ \A n : n = Len(th[p].held) + 1 => InHand(p, n)' = blk
         /\ \A i \in DOMAIN th[p].held : InHand(p, i)' = InHand(p, i)
<1> USE DEF Cache
<1> DEFINE h == th[p].held
<1>1. /\ th' = [th EXCEPT ![p] = [pc |-> "lock", k |-> k, drop |-> NIL,
                                  held |-> Append(h, b)]]
      /\ buf \in [Bufs -> Buffers] /\ th \in [Procs -> Threads]
      /\ h \in Seq(Bufs)
  BY Zenon DEF Takes, Types, Threads
<1>2. /\ \A q \in Procs \ {p} : th'[q] = th[q]
      /\ th'[p].pc = "lock" /\ th'[p].k = k /\ th'[p].held = Append(h, b)
  BY <1>1, Zenon
<1>3. Goes(p, th[p].pc, k)
  BY <1>2, Zenon DEF Goes, Loc, Calls
<1>4. buf'[b].blockno = blk /\ \A c \in Bufs \ {b} : buf'[c] = buf[c]
  <2>1. buf[b] \in Buffers
    BY <1>1, Zenon
  <2>2. CASE /\ buf[b].blockno = blk
             /\ buf' = [buf EXCEPT ![b] = [buf[b] EXCEPT !.refcnt = @ + 1]]
    BY <1>1, <2>1, <2>2, Zenon DEF Buffers
  <2>3. CASE buf' = [buf EXCEPT ![b] = [buf[b] EXCEPT !.blockno = blk, !.valid = FALSE,
                                                   !.refcnt = 1]]
    BY <1>1, <2>1, <2>3, Zenon DEF Buffers
  <2> QED
    BY <2>2, <2>3, Zenon DEF Takes
<1>5. \/ buf[b].blockno = blk
      \/ \A q \in Procs : \A i \in DOMAIN th[q].held : th[q].held[i] # b
  <2>1. CASE buf[b].refcnt = 0
    BY <2>1, Unreferenced, Zenon DEF BufferCache, Users, Cache
  <2>2. CASE buf[b].blockno = blk
    BY <2>2, Zenon
  <2> QED
    BY <2>1, <2>2, Zenon DEF Takes
<1>6. ASSUME NEW q \in Procs, NEW i \in DOMAIN th[q].held
      PROVE  buf'[th[q].held[i]].blockno = buf[th[q].held[i]].blockno
  <2>1. th[q].held[i] \in Bufs
    BY <1>1 DEF Threads
  <2> QED
    BY <1>4, <1>5, <2>1, Zenon
<1>7. Keeps(p)
  BY <1>2, <1>6 DEF Keeps, InHand
<1>8. /\ Append(h, b)[Len(h) + 1] = b
      /\ \A i \in DOMAIN h : Append(h, b)[i] = h[i]
  BY <1>1
<1>9. \A n : n = Len(h) + 1 => InHand(p, n)' = blk
  BY <1>2, <1>4, <1>8, Zenon DEF InHand
<1>10. \A i \in DOMAIN h : InHand(p, i)' = InHand(p, i)
  BY <1>2, <1>6, <1>8 DEF InHand
<1> QED
  BY <1>3, <1>7, <1>9, <1>10, Zenon

LEMMA GivesGoes ==
  ASSUME Types, Hands, NEW p \in Procs, NEW i \in DOMAIN th[p].held, NEW k \in Locs,
         th[p].pc \notin Calls, Gives(p, i, k)
  PROVE  /\ Goes(p, th[p].pc, k) /\ Keeps(p)
         /\ Len(th[p].held) = 2 => InHand(p, 1)' = InHand(p, 3 - i)
<1> DEFINE h == th[p].held
<1>1. /\ th' = [th EXCEPT ![p] = [pc |-> "drop", k |-> k, drop |-> h[i],
                                  held |-> IF Len(h) = 2 THEN <<h[3 - i]>> ELSE <<>>]]
      /\ buf' = [buf EXCEPT ![h[i]] = [buf[h[i]] EXCEPT !.owner = NIL]]
  BY Zenon DEF Gives
<1>2. /\ buf \in [Bufs -> Buffers] /\ th \in [Procs -> Threads]
      /\ h \in Seq(Bufs)
  BY Zenon DEF Types, Threads
<1>3. /\ \A q \in Procs \ {p} : th'[q] = th[q]
      /\ th'[p].pc = "drop" /\ th'[p].k = k
      /\ th'[p].held = IF Len(h) = 2 THEN <<h[3 - i]>> ELSE <<>>
  BY <1>1, <1>2, Zenon
<1>4. Goes(p, th[p].pc, k)
  BY <1>3, Zenon DEF Goes, Loc, Calls
<1>5. h[i] \in Bufs
  BY <1>2
<1>6. \A c \in Bufs : buf'[c].blockno = buf[c].blockno
  BY <1>1, <1>2, <1>5, Zenon DEF Buffers
<1>7. \A q \in Procs : \A j \in DOMAIN th[q].held : th[q].held[j] \in Bufs
  BY <1>2 DEF Threads
<1>8. Keeps(p)
  BY <1>3, <1>6, <1>7, Zenon DEF Keeps, InHand
<1>9. ASSUME Len(h) = 2 PROVE InHand(p, 1)' = InHand(p, 3 - i)
  <2>1. 3 - i \in DOMAIN h
    BY <1>2, <1>9
  <2>2. th'[p].held[1] = h[3 - i]
    BY <1>3, <1>9
  <2> QED
    BY <1>6, <1>7, <2>1, <2>2, Zenon DEF InHand
<1> QED
  BY <1>4, <1>8, <1>9, Zenon

(* A thread goes to l with the buffers it has. *)
LEMMA MovesGoes ==
  ASSUME Types, NEW p \in Procs, NEW l \in Locs, th[p].pc \notin Calls,
         th' = [th EXCEPT ![p].pc = l],
         \A c \in Bufs : buf'[c].blockno = buf[c].blockno
  PROVE  /\ Goes(p, th[p].pc, l) /\ Keeps(p)
         /\ \A i \in DOMAIN th[p].held : InHand(p, i)' = InHand(p, i)
<1>1. th \in [Procs -> Threads] /\ l \notin Calls
  BY Zenon DEF Types, Locs, Free, Single, Double, Calls
<1>2. /\ \A q \in Procs \ {p} : th'[q] = th[q]
      /\ th'[p].pc = l /\ th'[p].held = th[p].held
  BY <1>1, Zenon DEF Threads
<1>3. \A q \in Procs : \A j \in DOMAIN th[q].held : th[q].held[j] \in Bufs
  BY <1>1 DEF Threads
<1>4. Goes(p, th[p].pc, l)
  BY <1>1, <1>2, Zenon DEF Goes, Loc, Calls
<1>5. \A q \in Procs : \A j \in DOMAIN th[q].held : InHand(q, j)' = InHand(q, j)
  BY <1>2, <1>3, Zenon DEF InHand
<1> QED
  BY <1>2, <1>4, <1>5, Zenon DEF Keeps

LEMMA PinsKept ==
  ASSUME NEW p \in Procs, NEW from, NEW to, Goes(p, from, to),
         lh' = lh, booting' = booting,
         from \in InInstall <=> to \in InInstall, Installing => tail' = tail
  PROVE  SamePins
<1>1. Installing' <=> Installing
  BY Zenon DEF Installing, Goes, InInstall
<1> QED
  BY <1>1, Zenon DEF SamePins, Pinned

(* The calls of bread: where from, and where to. *)
Reads(from, k) ==
  \/ from = "op" /\ k = "modify"
  \/ from = "idle" /\ k = "read"
  \/ from = "log" /\ k = "log from"
  \/ from = "log from" /\ k = "log copy"
  \/ from = "head" /\ k = "head copy"
  \/ from = "install" /\ k = "install dst"
  \/ from = "install dst" /\ k = "install copy"
  \/ from = "recover" /\ k = "recover read"

(* The calls of brelse: where from, which buffer, and where to. *)
Releases(from, i, k) ==
  \/ from = "release" /\ i = 1 /\ k = "op"
  \/ from = "read" /\ i = 1 /\ k = "idle"
  \/ from = "log release from" /\ i = 2 /\ k = "log release to"
  \/ from = "log release to" /\ i = 1 /\ k = "log"
  \/ from = "head release" /\ i = 1 /\ k \in {"done", "install"}
  \/ from = "install release log" /\ i = 1 /\ k = "install release dst"
  \/ from = "install release dst" /\ i = 1 /\ k = "install"
  \/ from = "recover read" /\ i = 1 /\ k = "install"

LEMMA CountOf ==
  /\ \A l \in Free : Count(l) = 0
  /\ \A l \in Single : Count(l) = 1
  /\ \A l \in Double : Count(l) = 2
BY Zenon DEF Count, Free, Single, Double

LEMMA ReleasesCount ==
  ASSUME NEW from \in Locs, NEW i, NEW k \in Locs, Releases(from, i, k)
  PROVE  /\ i \in {1, 2} /\ i <= Count(from)
         /\ \/ Count(from) = 1 /\ Count(k) = 0
            \/ Count(from) = 2 /\ Count(k) = 1
<1>1. CASE from \in {"log release from", "install release log"}
  <2>1. from \in Double /\ i \in {1, 2} /\ k \in Single
    BY <1>1, Zenon DEF Releases, Single, Double
  <2> QED
    BY <2>1, CountOf
<1>2. CASE from \notin {"log release from", "install release log"}
  <2>1. from \in Single /\ i = 1 /\ k \in Free
    BY <1>2, Zenon DEF Releases, Single, Free
  <2> QED
    BY <2>1, CountOf
<1> QED
  BY <1>1, <1>2, Zenon

(* Where the thread holds buffers, it holds as many as the place says. *)
LEMMA HeldNow ==
  ASSUME Types, Hands, NEW p \in Procs, th[p].pc \notin Calls
  PROVE  /\ Loc(p) = th[p].pc /\ Len(th[p].held) = Count(th[p].pc)
         /\ DOMAIN th[p].held = 1 .. Count(th[p].pc)
         /\ \A i \in DOMAIN th[p].held : th[p].held[i] \in Bufs
<1>1. Loc(p) = th[p].pc
  BY Zenon DEF Loc, Calls
<1>2. th[p].held \in Seq(Bufs) /\ Len(th[p].held) = Count(th[p].pc)
  BY <1>1, Zenon DEF Types, Threads, Hands, Hand
<1> QED
  BY <1>1, <1>2

(* A thread without buffers goes elsewhere; it may wake those that sleep. *)
LEMMA JumpGoes ==
  ASSUME Cache, NEW p \in Procs, NEW from \in Free, NEW to \in Free, th[p].pc = from,
         \/ th' = [th EXCEPT ![p].pc = to]
         \/ th' = Wakeup([th EXCEPT ![p].pc = to]) /\ to # "sleep",
         UNCHANGED <<buf, lru, disk>>
  PROVE  /\ Goes(p, from, to) /\ Keeps(p) /\ Target(p)'
         /\ SamePins => Cache'
<1>1. th \in [Procs -> Threads]
  BY Zenon DEF Cache, Types
<1>2. /\ th'[p].pc = to /\ th'[p].held = th[p].held /\ th'[p].drop = th[p].drop
      /\ th'[p].k = th[p].k
  BY <1>1 DEF Wakeup, Threads
<1>3. ASSUME NEW q \in Procs \ {p}
      PROVE  \/ th'[q] = th[q]
             \/ /\ th[q].pc = "sleep" /\ th'[q] = [th[q] EXCEPT !.pc = "begin"]
  BY <1>1, Zenon DEF Wakeup, Threads
<1>4. \A q \in Procs \ {p} :
        \/ th'[q] = th[q]
        \/ /\ th[q].pc = "sleep" /\ th'[q].pc = "begin" /\ th'[q].held = th[q].held
           /\ th'[q].drop = th[q].drop
  <2> TAKE q \in Procs \ {p}
  <2>1. th[q] \in Threads
    BY <1>1, Zenon
  <2>2. CASE th'[q] = [th[q] EXCEPT !.pc = "begin"] /\ th[q].pc = "sleep"
    BY <2>1, <2>2, Zenon DEF Threads
  <2> QED
    BY <1>3, <2>2, Zenon
<1>5. from \notin Calls /\ to \notin Calls
  BY Zenon DEF Free, Calls
<1>6. Loc(p) = from /\ Loc(p)' = to
  BY <1>2, <1>5, Zenon DEF Loc, Calls
<1>7. \A q \in Procs \ {p} : \/ Loc(q)' = Loc(q)
                             \/ Loc(q) = "sleep" /\ Loc(q)' = "begin"
  BY <1>4, Zenon DEF Loc
<1>8. Keeps(p)
  BY <1>4, Zenon DEF Keeps, InHand
<1>9. Target(p)'
  BY <1>6, Zenon DEF Target, Free
<1>10. th' \in [Procs -> Threads]
  <2>1. \A q \in Procs : th'[q] \in Threads
    <3>1. th'[p] \in Threads
      <4>1. th'[p] = [th[p] EXCEPT !.pc = to] /\ th[p] \in Threads
        BY <1>1, Zenon DEF Wakeup, Threads
      <4>2. to \in Locs
        BY Zenon DEF Locs
      <4> QED
        BY <4>1, <4>2, Zenon DEF Threads
    <3>2. "begin" \in Locs
      BY Zenon DEF Locs, Free
    <3>3. ASSUME NEW q \in Procs \ {p} PROVE th'[q] \in Threads
      <4>1. th[q] \in Threads
        BY <1>1, Zenon
      <4>2. [th[q] EXCEPT !.pc = "begin"] \in Threads
        BY <3>2, <4>1, Zenon DEF Threads
      <4> QED
        BY <1>3, <4>1, <4>2, Zenon
    <3> QED
      BY <3>1, <3>3, Zenon
  <2>2. DOMAIN th' = Procs /\ th' = [q \in DOMAIN th' |-> th'[q]]
    BY <1>1, Zenon DEF Wakeup
  <2> QED
    BY <2>1, <2>2, Zenon
<1>11. SamePins => Cache'
  <2>1. \A q \in Procs : \/ th'[q] = th[q]
                         \/ /\ th[q].pc \in Free /\ th'[q].pc \in Free
                            /\ th'[q].held = th[q].held
                            /\ th'[q].drop = th[q].drop
    BY <1>2, <1>4, Zenon DEF Free
  <2> QED
    BY <1>10, <2>1, JumpsCache, Zenon
<1> QED
  BY <1>6, <1>7, <1>8, <1>9, <1>11, Zenon DEF Goes

(* Where a working thread is in the transaction. *)
LEMMA PlaceNow ==
  ASSUME IInv, NEW p \in Procs, th[p].pc \in Working
  PROVE  Place(th[p].pc) /\ Loc(p) = th[p].pc /\ th[p].pc \notin Calls
<1>1. th[p].pc \notin Calls
  BY Zenon DEF Working, InLog, InHead, InInstall, InRecover, Calls
<1>2. Loc(p) = th[p].pc
  BY <1>1, Zenon DEF Loc, Calls
<1> QED
  BY <1>1, <1>2, Zenon DEF IInv, Control, Positions

(* The blocks that the worker asks for. *)
LEMMA WorkBlocks ==
  ASSUME IInv, NEW p \in Procs, th[p].pc \in Working, tail <= Len(lh)
  PROVE  LogBlock(tail) \in Blocks /\ lh[tail] \in Blocks /\ lh[tail] \in Home
<1>1. tail \in 1 .. Len(lh) + 1 /\ lh \in Seq(Home) /\ Len(lh) < NLog
  BY PlaceNow, Zenon DEF IInv, Control, LogTypes, Lists, Place
<1>2. lh[tail] \in Home /\ tail \in 0 .. NLog - 1
  BY <1>1, LogAssumption
<1> QED
  BY <1>2, LogAssumption, Zenon DEF LogBlock

(* The log pins the same blocks at the start of a pass over them, and none *)
(* while it recovers.                                                      *)
LEMMA PinsAtStart ==
  ASSUME LogTypes, lh' = lh, booting' = booting, tail = 1, tail' = 1
  PROVE  SamePins
<1>1. \A i \in DOMAIN lh : i >= 1
  BY DEF LogTypes
<1> QED
  BY <1>1, Zenon DEF SamePins, Pinned

LEMMA PinsBooting ==
  ASSUME booting # NIL, booting' # NIL
  PROVE  SamePins
BY Zenon DEF SamePins, Pinned

(* brelse leaves the cached header as it is. *)
LEMMA ReleaseGoes ==
  ASSUME IInv, NEW p \in Procs, NEW from \in Locs, NEW i, NEW k \in Locs,
         Releases(from, i, k), th[p].pc = from, Brelse(p, i, k)
  PROVE  Goes(p, from, k) /\ HeaderBuf' /\ disk' = disk
<1> USE DEF IInv, Cache
<1>1. from \notin Calls
  BY Zenon DEF Releases, Calls
<1>2. i \in 1 .. Count(from)
  BY ReleasesCount
<1>3. i \in DOMAIN th[p].held /\ th[p].held[i] \in Bufs
  BY <1>1, <1>2, HeldNow, Zenon
<1>4. Gives(p, i, k)
  BY <1>1, <1>3, BrelseGives, Zenon DEF BufferCache
<1>5. Goes(p, from, k)
  BY <1>1, <1>3, <1>4, GivesGoes, Zenon
<1>6. PICK b \in Bufs : buf' = [buf EXCEPT ![b] = [buf[b] EXCEPT !.owner = NIL]]
  BY <1>3, <1>4, Zenon DEF Gives
<1>7. disk' = disk /\ HeaderBuf /\ buf \in [Bufs -> Buffers]
  BY <1>4, Zenon DEF Gives, Control, Lists, Types
<1>8. HeaderBuf'
  BY <1>6, <1>7 DEF HeaderBuf, Buffers
<1> QED
  BY <1>5, <1>7, <1>8, Zenon

LEMMA HeaderBlock == Header \in Blocks /\ Header # NIL /\ Header \notin Home
<1>1. 0 \in 0 .. NLog - 1
  BY LogAssumption
<1> QED
  BY <1>1, LogAssumption, BioAssumption, Zenon DEF Header

(* A thread with one buffer, or two, in its hands. *)
LEMMA HoldsOne ==
  ASSUME Cache, NEW p \in Procs, th[p].pc \in Single
  PROVE  /\ Len(th[p].held) = 1 /\ 1 \in DOMAIN th[p].held
         /\ Got(p) = th[p].held[1] /\ Got(p) \in Bufs
         /\ buf[Got(p)].valid /\ buf[Got(p)].blockno \in Blocks
<1> USE DEF Cache
<1>1. th[p].pc \notin Calls /\ Count(th[p].pc) = 1
  BY CountOf, Zenon DEF Single, Calls
<1>2. Len(th[p].held) = 1 /\ DOMAIN th[p].held = 1 .. 1
  BY <1>1, HeldNow, Zenon
<1>3. 1 \in DOMAIN th[p].held
  BY <1>2
<1>4. Got(p) = th[p].held[1] /\ Got(p) \in Bufs
  BY <1>1, <1>2, <1>3, HeldNow, Zenon DEF Got
<1>5. buf[th[p].held[1]].valid /\ buf[th[p].held[1]].blockno # NIL
  BY <1>1, <1>3, Zenon DEF BufferCache, LockedByHolder, Hands, Hand, Calls
<1> QED
  BY <1>2, <1>3, <1>4, <1>5, Zenon DEF Types, Buffers

LEMMA HoldsTwo ==
  ASSUME Cache, NEW p \in Procs, th[p].pc \in Double, NEW b, b = th[p].held[1],
         NEW c, c = th[p].held[2]
  PROVE  /\ 1 \in DOMAIN th[p].held /\ 2 \in DOMAIN th[p].held
         /\ b \in Bufs /\ c \in Bufs
         /\ buf[b].valid /\ buf[b].blockno \in Blocks
         /\ buf[c].valid /\ buf[c].blockno \in Blocks
<1> USE DEF Cache
<1>1. th[p].pc \notin Calls /\ Count(th[p].pc) = 2
  BY CountOf, Zenon DEF Double, Calls
<1>2. DOMAIN th[p].held = 1 .. 2
  BY <1>1, HeldNow, Zenon
<1>3. 1 \in DOMAIN th[p].held /\ 2 \in DOMAIN th[p].held
  BY <1>2
<1>4. b \in Bufs /\ c \in Bufs
  BY <1>1, <1>3, HeldNow, Zenon
<1>5. /\ buf[b].valid /\ buf[b].blockno # NIL
      /\ buf[c].valid /\ buf[c].blockno # NIL
  BY <1>1, <1>3, Zenon DEF BufferCache, LockedByHolder, Hands, Hand, Calls
<1> QED
  BY <1>3, <1>4, <1>5, Zenon DEF Types, Buffers

(* bwrite finds that its caller has locked the buffer. *)
LEMMA Owns ==
  ASSUME Cache, NEW p \in Procs, th[p].pc \notin Calls, NEW i \in DOMAIN th[p].held
  PROVE  buf[th[p].held[i]].owner = p
BY Zenon DEF Cache, BufferCache, LockedByHolder, Calls

LEMMA WriteLogCopies ==
  ASSUME Cache, NEW p \in Procs, WriteLogCopy(p)
  PROVE  /\ th[p].pc = "log copy"
         /\ DiskWrite(th[p].held[1], buf[th[p].held[2]].data)
         /\ Goto(p, "log release from") /\ UNCHANGED <<lru, panic, logVars, ops>>
<1>1. th[p].pc = "log copy" /\ "log copy" \in Double /\ "log copy" \notin Calls
  BY Zenon DEF WriteLogCopy, At, Double, Calls
<1>2. 1 \in DOMAIN th[p].held
  BY <1>1, HoldsTwo, Zenon
<1>3. buf[th[p].held[1]].owner = p
  BY <1>1, <1>2, Owns, Zenon
<1> QED
  BY <1>1, <1>3, Zenon DEF WriteLogCopy, Bwrite

LEMMA WriteHeadCopies ==
  ASSUME Cache, NEW p \in Procs, th[p].pc = "head copy",
         Bwrite(p, Got(p), lh, "head release")
  PROVE  DiskWrite(Got(p), lh) /\ Goto(p, "head release") /\ UNCHANGED <<lru, panic>>
<1>1. "head copy" \in Single /\ "head copy" \notin Calls
  BY Zenon DEF Single, Calls
<1>2. 1 \in DOMAIN th[p].held /\ Got(p) = th[p].held[1]
  BY <1>1, HoldsOne, Zenon
<1>3. buf[Got(p)].owner = p
  BY <1>1, <1>2, Owns, Zenon
<1> QED
  BY <1>3, Zenon DEF Bwrite

LEMMA InstallOwns ==
  ASSUME Cache, NEW p \in Procs, InstallCopy(p)
  PROVE  buf[th[p].held[2]].owner = p
<1>1. /\ th[p].pc = "install copy" /\ "install copy" \in Double
      /\ "install copy" \notin Calls
  BY Zenon DEF InstallCopy, At, Double, Calls
<1>2. 2 \in DOMAIN th[p].held
  BY <1>1, HoldsTwo, Zenon
<1> QED
  BY <1>1, <1>2, Owns, Zenon

(* The log blocks and the blocks in the log are not the header. *)
LEMMA NotHeader ==
  ASSUME IInv, NEW p \in Procs, th[p].pc \in Working, tail <= Len(lh)
  PROVE  /\ LogBlock(tail) # Header /\ lh[tail] # Header /\ lh[tail] \in Home
         /\ tail \in DOMAIN lh /\ tail \in 1 .. Len(lh) + 1
<1>1. tail \in 1 .. Len(lh) + 1 /\ lh \in Seq(Home) /\ Len(lh) < NLog
  BY PlaceNow, Zenon DEF IInv, Control, LogTypes, Lists, Place
<1>2. lh[tail] \in Home /\ tail # 0 /\ tail \in DOMAIN lh
  BY <1>1
<1> QED
  BY <1>1, <1>2, HeaderBlock, Zenon DEF LogBlock, Header

(* What bunpin takes away: block lh[tail] is pinned before install_trans   *)
(* has written it to its home, and not after.                              *)
LEMMA InstallPins ==
  ASSUME LogTypes, Distinct(lh), tail \in DOMAIN lh, Installing, Installing', lh' = lh,
         booting' = booting, tail' = tail + 1, NEW y, y = lh[tail]
  PROVE  /\ booting = NIL => Pinned(y) /\ ~Pinned(y)'
         /\ booting # NIL => ~Pinned(y) /\ ~Pinned(y)'
         /\ \A x : x # y => (Pinned(x)' <=> Pinned(x))
<1>1. /\ \A i \in DOMAIN lh : lh[i] = y => i = tail
      /\ tail >= tail /\ ~(tail >= tail + 1)
      /\ \A i \in DOMAIN lh : i # tail => (i >= tail + 1 <=> i >= tail)
  BY DEF LogTypes, Distinct
<1> QED
  BY <1>1, Zenon DEF Pinned

LEMMA InstallCopied ==
  ASSUME buf \in [Bufs -> Buffers], disk \in [Blocks -> Contents], NEW b \in Bufs,
         NEW x \in Blocks, buf[b].blockno = x, NEW d \in Contents,
         buf' = [buf EXCEPT ![b].data = d,
                            ![b].refcnt = IF booting = NIL THEN @ - 1 ELSE @],
         disk' = [disk EXCEPT ![buf[b].blockno] = d]
  PROVE  /\ buf' \in [Bufs -> Buffers] /\ disk' \in [Blocks -> Contents]
         /\ \A a \in Bufs \ {b} : buf'[a] = buf[a]
         /\ \A y \in Blocks : disk'[y] = IF y = x THEN d ELSE disk[y]
<1>1. buf'[b] \in Buffers
  <2>1. buf[b] \in Buffers /\ buf[b].refcnt \in Int
    BY Zenon DEF Buffers
  <2>2. PICK n \in Int : n = IF booting = NIL THEN buf[b].refcnt - 1 ELSE buf[b].refcnt
    BY <2>1
  <2>3. buf'[b] = [buf[b] EXCEPT !.data = d, !.refcnt = n]
    BY <2>1, <2>2, Zenon DEF Buffers
  <2> QED
    BY <2>1, <2>2, <2>3, Zenon DEF Buffers
<1>2. buf' \in [Bufs -> Buffers] /\ \A a \in Bufs \ {b} : buf'[a] = buf[a]
  BY <1>1, Zenon
<1> QED
  BY <1>2, Zenon

(* No one works on the log while an operation is in progress. *)
LEMMA NoWorker ==
  ASSUME IInv, NEW p \in Procs, Loc(p) \in InOpLocs
  PROVE  /\ booting = NIL /\ outstanding # 0 /\ ~committing /\ ~Installing
         /\ \A q \in Procs : Loc(q) \notin Working
<1> USE DEF IInv, Control
<1>1. InOp \in SUBSET Procs /\ p \in InOp
  BY Zenon DEF InOp, InOpLocs
<1>2. outstanding # 0
  BY <1>1, Zenon DEF Turns, Cache, Elementary
<1>3. booting = NIL
  BY Running, Zenon DEF InOpLocs, InHead, InInstall, InRecover
<1>4. ~committing /\ \A q \in Procs : Loc(q) \notin Working
  BY <1>2, <1>3, Zenon DEF Turns
<1>5. ~Installing
  BY <1>4, Zenon DEF Installing, Working, InInstall
<1> QED
  BY <1>2, <1>3, <1>4, <1>5, Zenon

(* The log takes a block, or absorbs it when it is there already. *)
LEMMA LogTakes ==
  ASSUME lh \in Seq(Home), Distinct(lh), NEW x \in Home,
         lh' = IF Logged(x) THEN lh ELSE Append(lh, x)
  PROVE  /\ lh' \in Seq(Home) /\ Distinct(lh') /\ Len(lh') <= Len(lh) + 1
         /\ \E i \in DOMAIN lh' : lh'[i] = x
         /\ \A y : y # x => ((\E i \in DOMAIN lh' : lh'[i] = y) <=>
                             (\E i \in DOMAIN lh : lh[i] = y))
<1>1. CASE Logged(x)
  <2>1. lh' = lh /\ Len(lh) <= Len(lh) + 1
    BY <1>1
  <2> QED
    BY <1>1, <2>1, Zenon DEF Logged
<1>2. CASE ~Logged(x)
  <2>1. lh' = Append(lh, x)
    BY <1>2, Zenon
  <2>2. /\ lh' \in Seq(Home) /\ Len(lh') = Len(lh) + 1 /\ DOMAIN lh' = 1 .. Len(lh) + 1
        /\ lh'[Len(lh) + 1] = x /\ \A i \in 1 .. Len(lh) : lh'[i] = lh[i]
        /\ DOMAIN lh = 1 .. Len(lh) /\ Len(lh) \in Nat
    BY <2>1
  <2>3. DOMAIN lh' = DOMAIN lh \cup {Len(lh) + 1} /\ Len(lh) + 1 \notin DOMAIN lh
    BY <2>2
  <2>4. Distinct(lh')
    <3>1. \A i \in DOMAIN lh : lh'[i] = lh[i] /\ lh[i] # x
      BY <1>2, <2>2, Zenon DEF Logged
    <3>2. \A i, j \in DOMAIN lh : i # j => lh[i] # lh[j]
      BY Zenon DEF Distinct
    <3>3. ASSUME NEW i \in DOMAIN lh', NEW j \in DOMAIN lh', i # j
          PROVE  lh'[i] # lh'[j]
      <4>1. CASE i \in DOMAIN lh /\ j \in DOMAIN lh
        BY <3>1, <3>2, <3>3, <4>1, Zenon
      <4>2. CASE i = Len(lh) + 1 /\ j \in DOMAIN lh
        BY <2>2, <3>1, <4>2, Zenon
      <4>3. CASE i \in DOMAIN lh /\ j = Len(lh) + 1
        BY <2>2, <3>1, <4>3, Zenon
      <4> QED
        BY <2>3, <3>3, <4>1, <4>2, <4>3, Zenon
    <3> QED
      BY <3>3, Zenon DEF Distinct
  <2>5. \E i \in DOMAIN lh' : lh'[i] = x
    BY <2>2, <2>3, Zenon
  <2>6. \A y : y # x => ((\E i \in DOMAIN lh' : lh'[i] = y) <=>
                        (\E i \in DOMAIN lh : lh[i] = y))
    BY <2>2, <2>3, Zenon
  <2> QED
    BY <2>2, <2>4, <2>5, <2>6
<1> QED
  BY <1>1, <1>2, Zenon
=============================================================================
