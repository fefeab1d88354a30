---------------------------- MODULE LogContents -----------------------------
(***************************************************************************)
(* What the disk and the buffer cache contain, step by step of the log: a  *)
(* buffer that the log does not pin is clean, and the thread that commits  *)
(* or recovers has saved and installed what its place in the code says     *)
(* (CInv).  Each step keeps CInv, and is a step of AtomicDisk or one that  *)
(* the users of the disk do not see (Kept).                                *)
(***************************************************************************)
EXTENDS CacheProofs

(* A buffer that the log does not pin holds what the disk holds. *)
Clean == \A b \in Bufs :
  buf[b].valid /\ buf[b].blockno \in Blocks /\ ~Pinned(buf[b].blockno) =>
    buf[b].data = disk[buf[b].blockno]

(* Blocks of the transaction that are in the on-disk log, and blocks of    *)
(* list s that are in their homes.                                         *)
Saved(S) == \A i \in S : disk[LogBlock(i)] = Latest[lh[i]]
Installed(s, S) == \A i \in S : disk[s[i]] = disk[LogBlock(i)]

(* How far the thread at l has come with the transaction. *)
Phase(l) ==
  /\ l \in {"commit", "done"} \cup InLog => disk[Header] = <<>>
  /\ l \in InLog => Saved(1 .. tail - 1)
  /\ l \in {"log release from", "log release to"} => Saved({tail})
  /\ l \in {"head", "head copy"} /\ lh # <<>> =>
       disk[Header] = <<>> /\ Saved(DOMAIN lh)
  /\ l \in {"head", "head copy"} /\ lh = <<>> =>
       Installed(disk[Header], DOMAIN disk[Header])
  /\ l \in {"head release"} \cup InInstall =>
       disk[Header] = lh /\ (booting = NIL => Saved(DOMAIN lh))
  /\ l \in InInstall => Installed(lh, 1 .. tail - 1)
Phases ==
  /\ \A p \in Procs : Loc(p) \in Working => Phase(Loc(p))
  /\ (\A p \in Procs : Loc(p) \notin Working) => disk[Header] = <<>>

CInv == Clean /\ Phases

(* Durable and Latest without CHOOSE. *)
DurableIs ==
  /\ Durable = [b \in Home |-> Durable[b]]
  /\ \A b \in Home :
       /\ \A i \in DOMAIN disk[Header] :
            disk[Header][i] = b => Durable[b] = disk[LogBlock(i)]
       /\ (\A i \in DOMAIN disk[Header] : disk[Header][i] # b) => Durable[b] = disk[b]
LatestIs ==
  /\ Latest = [b \in Home |-> Latest[b]]
  /\ \A b \in Home :
       /\ \A c \in Bufs : buf[c].blockno = b /\ buf[c].valid => Latest[b] = buf[c].data
       /\ ~Pinned(b) => Latest[b] = disk[b]

LEMMA DurableAt == IInv => DurableIs
<1> SUFFICES ASSUME IInv PROVE DurableIs
  BY Zenon
<1>1. Durable = [b \in Home |-> Durable[b]]
  <2> DEFINE F(b) == LET S == {i \in DOMAIN disk[Header] : disk[Header][i] = b}
                     IN IF S = {} THEN disk[b]
                        ELSE disk[LogBlock(CHOOSE i \in S : TRUE)]
  <2>1. Durable = [b \in Home |-> F(b)]
    BY Zenon DEF Durable
  <2> HIDE DEF F
  <2> QED
    BY <2>1
<1>2. ASSUME NEW b \in Home
      PROVE  /\ \A i \in DOMAIN disk[Header] :
                  disk[Header][i] = b => Durable[b] = disk[LogBlock(i)]
             /\ (\A i \in DOMAIN disk[Header] : disk[Header][i] # b) =>
                  Durable[b] = disk[b]
  <2> DEFINE S == {i \in DOMAIN disk[Header] : disk[Header][i] = b}
  <2>1. Durable[b] = IF S = {} THEN disk[b] ELSE disk[LogBlock(CHOOSE i \in S : TRUE)]
    BY Zenon DEF Durable
  <2>2. \A i, j \in S : i = j
    BY Zenon DEF IInv, Control, Lists, Distinct
  <2>3. S # {} => (CHOOSE i \in S : TRUE) \in S
    BY Zenon
  <2>4. ASSUME NEW i \in DOMAIN disk[Header], disk[Header][i] = b
        PROVE  Durable[b] = disk[LogBlock(i)]
    <3>1. i \in S
      BY <2>4, Zenon
    <3>2. (CHOOSE j \in S : TRUE) = i
      BY <2>2, <2>3, <3>1, Zenon
    <3> QED
      BY <2>1, <3>1, <3>2, Zenon
  <2>5. (\A i \in DOMAIN disk[Header] : disk[Header][i] # b) => S = {}
    BY Zenon
  <2> QED
    BY <2>1, <2>4, <2>5, Zenon
<1> QED
  BY <1>1, <1>2, Zenon DEF DurableIs

LEMMA LatestAt == IInv /\ Clean => LatestIs
<1> SUFFICES ASSUME IInv, Clean PROVE LatestIs
  BY Zenon
<1>1. Latest = [b \in Home |-> Latest[b]]
  <2> DEFINE F(b) == LET S == {c \in Cached(b) : buf[c].valid}
                     IN IF S = {} THEN disk[b] ELSE buf[CHOOSE c \in S : TRUE].data
  <2>1. Latest = [b \in Home |-> F(b)]
    BY Zenon DEF Latest
  <2> HIDE DEF F
  <2> QED
    BY <2>1
<1>2. ASSUME NEW b \in Home
      PROVE  /\ \A c \in Bufs :
                  buf[c].blockno = b /\ buf[c].valid => Latest[b] = buf[c].data
             /\ ~Pinned(b) => Latest[b] = disk[b]
  <2> DEFINE S == {c \in Cached(b) : buf[c].valid}
  <2>1. Latest[b] = IF S = {} THEN disk[b] ELSE buf[CHOOSE c \in S : TRUE].data
    BY Zenon DEF Latest
  <2>2. \A c : c \in S <=> c \in Bufs /\ buf[c].blockno = b /\ buf[c].valid
    BY Zenon DEF Cached
  <2> HIDE DEF S
  <2>3. b # NIL
    BY LogAssumption, BioAssumption, Zenon
  <2>4. ASSUME NEW c \in S, NEW d \in S PROVE c = d
    <3>1. /\ c \in Bufs /\ buf[c].blockno = b
          /\ d \in Bufs /\ buf[d].blockno = b
      BY <2>2, Zenon
    <3>2. OneBufferPerBlock
      BY Zenon DEF IInv, Cache, BufferCache
    <3> QED
      BY <2>3, <3>1, <3>2, Zenon DEF OneBufferPerBlock
  <2>5. S # {} => (CHOOSE c \in S : TRUE) \in S
    BY Zenon
  <2>6. ASSUME NEW c \in S PROVE Latest[b] = buf[c].data
    BY <2>1, <2>4, <2>5, <2>6, Zenon
  <2>7. ~Pinned(b) => Latest[b] = disk[b]
    BY <2>1, <2>2, <2>6, LogAssumption, Zenon DEF Clean
  <2> QED
    BY <2>2, <2>6, <2>7, Zenon
<1> QED
  BY <1>1, <1>2, Zenon DEF LatestIs

LEMMA DurableKept ==
  ASSUME disk' = disk
  PROVE  Durable' = Durable
<1> DEFINE F(f, b) == LET S == {i \in DOMAIN f[Header] : f[Header][i] = b}
                      IN IF S = {} THEN f[b] ELSE f[LogBlock(CHOOSE i \in S : TRUE)]
<1>1. Durable = [b \in Home |-> F(disk, b)] /\ Durable' = [b \in Home |-> F(disk', b)]
  BY Zenon DEF Durable, LogBlock, Header
<1> HIDE DEF F
<1> QED
  BY <1>1

(* A step that writes neither the disk nor a buffer in the log. *)
DataKept == \A c \in Bufs :
  /\ buf'[c].valid =>
       \/ /\ buf[c].valid /\ buf'[c].blockno = buf[c].blockno
          /\ buf'[c].data = buf[c].data
       \/ buf'[c].data = disk'[buf'[c].blockno]
  /\ buf[c].valid /\ Pinned(buf[c].blockno) =>
       /\ buf'[c].valid /\ buf'[c].blockno = buf[c].blockno
       /\ buf'[c].data = buf[c].data
Quiet == SamePins /\ disk' = disk /\ DataKept

LEMMA QuietContents ==
  ASSUME IInv, IInv', Clean, Quiet
  PROVE  Clean' /\ Latest' = Latest /\ Durable' = Durable
<1>1. Durable' = Durable
  BY DurableKept, Zenon DEF Quiet
<1>2. Clean'
  <2> SUFFICES ASSUME NEW c \in Bufs, buf'[c].valid, buf'[c].blockno \in Blocks,
                      ~Pinned(buf[c].blockno)'
               PROVE  buf'[c].data = disk'[buf'[c].blockno]
    BY Zenon DEF Clean
  <2>1. CASE buf'[c].data = disk'[buf'[c].blockno]
    BY <2>1, Zenon
  <2>2. CASE /\ buf[c].valid /\ buf'[c].blockno = buf[c].blockno
             /\ buf'[c].data = buf[c].data
    <3>1. buf[c].blockno \in Blocks \cup {NIL}
      BY Zenon DEF IInv, Cache, Types, Buffers
    <3>2. ~Pinned(buf[c].blockno)
      BY <2>2, <3>1, Zenon DEF Quiet, SamePins
    <3>3. buf[c].data = disk[buf[c].blockno]
      BY <2>2, <3>2, Zenon DEF Clean
    <3> QED
      BY <2>2, <3>3, Zenon DEF Quiet
  <2> QED
    BY <2>1, <2>2, Zenon DEF Quiet, DataKept
<1>3. LatestIs /\ LatestIs'
  <2>1. (IInv /\ Clean => LatestIs)'
    BY LatestAt, PTL
  <2> QED
    BY <1>2, <2>1, LatestAt, Zenon
<1>4. ASSUME NEW b \in Home PROVE Latest'[b] = Latest[b]
  <2>1. b \in Blocks
    BY LogAssumption, Zenon
  <2>2. CASE Pinned(b)
    <3>1. PICK c \in Bufs : buf[c].blockno = b /\ buf[c].valid
      BY <2>1, <2>2, Zenon DEF IInv, Cache, Pins
    <3>2. buf'[c].valid /\ buf'[c].blockno = b /\ buf'[c].data = buf[c].data
      BY <2>2, <3>1, Zenon DEF Quiet, DataKept
    <3> QED
      BY <1>3, <3>1, <3>2, Zenon DEF LatestIs
  <2>3. CASE ~Pinned(b)
    <3>1. ~Pinned(b)'
      BY <2>1, <2>3, Zenon DEF Quiet, SamePins
    <3> QED
      BY <1>3, <2>3, <3>1, Zenon DEF LatestIs, Quiet
  <2> QED
    BY <2>2, <2>3, Zenon
<1>5. Latest' = Latest
  BY <1>3, <1>4, Zenon DEF LatestIs
<1> QED
  BY <1>1, <1>2, <1>5, Zenon

(* Progress through the transaction. *)
LEMMA PhaseSame ==
  ASSUME UNCHANGED <<disk, lh, tail, booting>>, Latest' = Latest, NEW l, Phase(l)
  PROVE  Phase(l)'
<1>1. disk' = disk /\ lh' = lh /\ tail' = tail /\ booting' = booting
  BY Zenon
<1>2. Saved(1 .. tail - 1)' <=> Saved(1 .. tail - 1)
  BY <1>1, Zenon DEF Saved
<1>3. /\ Saved({tail})' <=> Saved({tail})
      /\ Saved(DOMAIN lh)' <=> Saved(DOMAIN lh)
  BY <1>1, Zenon DEF Saved
<1>4. /\ Installed(lh, 1 .. tail - 1)' <=> Installed(lh, 1 .. tail - 1)
      /\ Installed(disk[Header], DOMAIN disk[Header])' <=>
           Installed(disk[Header], DOMAIN disk[Header])
  BY <1>1, Zenon DEF Installed
<1> QED
  BY <1>1, <1>2, <1>3, <1>4, Zenon DEF Phase

LEMMA PhasesKept ==
  ASSUME Turns, Phases, NEW p \in Procs, NEW from \in Locs, NEW to \in Locs,
         Goes(p, from, to),
         \/ /\ from \in Working
            /\ to \in Working => Phase(to)'
            /\ to \notin Working => disk'[Header] = <<>>
         \/ /\ from \notin Working /\ to \notin Working
            /\ UNCHANGED <<disk, lh, tail, booting>> /\ Latest' = Latest
         \/ /\ \A q \in Procs : Loc(q) \notin Working
            /\ disk'[Header] = disk[Header]
            /\ to \in Working => Phase(to)'
  PROVE  Phases'
<1>1. Loc(p) = from /\ Loc(p)' = to
  BY Zenon DEF Goes
<1>2. ASSUME NEW q \in Procs \ {p}, Loc(q)' \in Working
      PROVE  Loc(q)' = Loc(q)
  <2>1. "begin" \notin Working
    BY Zenon DEF Working, InLog, InHead, InInstall, InRecover
  <2> QED
    BY <1>2, <2>1, Zenon DEF Goes
<1>3. ASSUME NEW q \in Procs \ {p}, Loc(q) \in Working
      PROVE  Loc(q)' = Loc(q)
  <2>1. "sleep" \notin Working
    BY Zenon DEF Working, InLog, InHead, InInstall, InRecover
  <2> QED
    BY <1>3, <2>1, Zenon DEF Goes
<1>4. CASE /\ from \in Working
           /\ to \in Working => Phase(to)'
           /\ to \notin Working => disk'[Header] = <<>>
  <2>1. \A q \in Procs : Loc(q)' \in Working => q = p
    BY <1>1, <1>2, <1>4, Zenon DEF Turns
  <2>2. \A q \in Procs : Loc(q)' \in Working => Phase(Loc(q))'
    BY <1>1, <1>4, <2>1, Zenon
  <2> QED
    BY <1>1, <1>4, <2>2, Zenon DEF Phases
<1>5. CASE /\ from \notin Working /\ to \notin Working
           /\ UNCHANGED <<disk, lh, tail, booting>> /\ Latest' = Latest
  <2>1. ASSUME NEW q \in Procs, Loc(q)' \in Working
        PROVE  Phase(Loc(q))'
    <3>1. PICK l : l = Loc(q)
      BY Zenon
    <3>2. q # p /\ Loc(q)' = l /\ l \in Working
      BY <1>1, <1>2, <1>5, <2>1, <3>1, Zenon
    <3>3. Phase(l)
      BY <3>1, <3>2, Zenon DEF Phases
    <3>4. Phase(l)'
      BY <1>5, <3>3, PhaseSame, Zenon
    <3> QED
      BY <3>2, <3>4, Zenon
  <2>2. (\A q \in Procs : Loc(q)' \notin Working) => \A q \in Procs : Loc(q) \notin Working
    BY <1>1, <1>3, <1>5, Zenon
  <2> QED
    BY <1>5, <2>1, <2>2, Zenon DEF Phases
<1>6. CASE /\ \A q \in Procs : Loc(q) \notin Working
           /\ disk'[Header] = disk[Header]
           /\ to \in Working => Phase(to)'
  <2>1. \A q \in Procs : Loc(q)' \in Working => q = p
    BY <1>2, <1>6, Zenon
  <2>2. \A q \in Procs : Loc(q)' \in Working => Phase(Loc(q))'
    BY <1>1, <1>6, <2>1, Zenon
  <2>3. disk'[Header] = <<>>
    BY <1>6, Zenon DEF Phases
  <2> QED
    BY <2>2, <2>3, Zenon DEF Phases
<1> QED
  BY <1>4, <1>5, <1>6, Zenon

(* The invariant is kept, and what users of the disk see goes on as        *)
(* AtomicDisk says.                                                        *)
Unseen == Durable' = Durable /\ Current' = Current /\ InOp' = InOp
Kept == CInv' /\ (AD!Next \/ Unseen)

LEMMA InOpKept ==
  ASSUME NEW p \in Procs, NEW from \in Locs, NEW to \in Locs, Goes(p, from, to)
  PROVE  /\ (from \in InOpLocs <=> to \in InOpLocs) => InOp' = InOp
         /\ from \notin InOpLocs /\ to \in InOpLocs => p \notin InOp /\ InOp' = InOp \cup {p}
         /\ from \in InOpLocs /\ to \notin InOpLocs => p \in InOp /\ InOp' = InOp \ {p}
<1>1. \A q \in Procs \ {p} : Loc(q)' \in InOpLocs <=> Loc(q) \in InOpLocs
  BY Zenon DEF Goes, InOpLocs
<1>2. Loc(p) = from /\ Loc(p)' = to
  BY Zenon DEF Goes
<1>3. /\ \A q : q \in InOp <=> q \in Procs /\ Loc(q) \in InOpLocs
      /\ \A q : q \in InOp' <=> q \in Procs /\ Loc(q)' \in InOpLocs
  BY Zenon DEF InOp, InOpLocs
<1> QED
  BY <1>1, <1>2, <1>3, Zenon

LEMMA QuietStep ==
  ASSUME IInv, IInv', CInv, Quiet, NEW p \in Procs, NEW from \in Locs, NEW to \in Locs,
         Goes(p, from, to), booting' = booting,
         from \in InOpLocs <=> to \in InOpLocs, from \in Working <=> to \in Working,
         \/ UNCHANGED <<lh, tail>> /\ (from \in Working /\ Phase(from) => Phase(to))
         \/ from \in Working /\ (Latest' = Latest => Phase(to)')
  PROVE  Kept
<1>1. Clean' /\ Latest' = Latest /\ Durable' = Durable /\ disk' = disk
  BY QuietContents, Zenon DEF CInv, Quiet
<1>2. InOp' = InOp
  BY InOpKept, Zenon
<1>3. Current' = Current
  BY <1>1, Zenon DEF Current
<1>4. from \in Working => Phase(to)'
  <2>1. CASE UNCHANGED <<lh, tail>> /\ (from \in Working /\ Phase(from) => Phase(to))
    <3>1. from \in Working => Phase(from)
      BY Zenon DEF CInv, Phases, Goes
    <3> QED
      BY <1>1, <2>1, <3>1, PhaseSame, Zenon
  <2> QED
    BY <1>1, <2>1, Zenon
<1>5. Phases'
  <2>1. CASE from \in Working
    BY <1>4, <2>1, PhasesKept, Zenon DEF IInv, Control, CInv
  <2>2. CASE from \notin Working
    BY <1>1, <2>2, PhasesKept, Zenon DEF IInv, Control, CInv
  <2> QED
    BY <2>1, <2>2, Zenon
<1> QED
  BY <1>1, <1>2, <1>3, <1>5, Zenon DEF Kept, Unseen, CInv

-----------------------------------------------------------------------------
(* Steps that no user of the disk sees *)

LEMMA SameData ==
  ASSUME \A c \in Bufs : /\ buf'[c].blockno = buf[c].blockno
                         /\ buf'[c].valid = buf[c].valid
                         /\ buf'[c].data = buf[c].data
  PROVE  DataKept
BY Zenon DEF DataKept

LEMMA TakesData ==
  ASSUME Cache, NEW p \in Procs, NEW b \in Bufs, NEW blk \in Blocks, NEW k,
         Takes(p, b, blk, k)
  PROVE  DataKept /\ disk' = disk
<1>1. disk' = disk /\ buf \in [Bufs -> Buffers] /\ buf[b] \in Buffers
  BY Zenon DEF Takes, Cache, Types
<1>2. CASE buf' = [buf EXCEPT ![b] = [buf[b] EXCEPT !.refcnt = @ + 1]]
  <2>1. \A c \in Bufs : /\ buf'[c].blockno = buf[c].blockno
                        /\ buf'[c].valid = buf[c].valid
                        /\ buf'[c].data = buf[c].data
    BY <1>1, <1>2, Zenon DEF Buffers
  <2> QED
    BY <1>1, <2>1, SameData, Zenon
<1>3. CASE /\ buf[b].refcnt = 0
           /\ buf' = [buf EXCEPT ![b] = [buf[b] EXCEPT !.blockno = blk,
                                           !.valid = FALSE, !.refcnt = 1]]
  <2>1. ~Pinned(buf[b].blockno)
    <3>1. Pin(b) = 0
      BY <1>3, Unreferenced, Zenon DEF Cache, BufferCache
    <3> QED
      BY <3>1 DEF Pin
  <2>2. buf'[b].valid = FALSE /\ \A c \in Bufs \ {b} : buf'[c] = buf[c]
    BY <1>1, <1>3, Zenon DEF Buffers
  <2> QED
    BY <1>1, <2>1, <2>2, Zenon DEF DataKept
<1> QED
  BY <1>2, <1>3, Zenon DEF Takes

LEMMA GivesData ==
  ASSUME Cache, NEW p \in Procs, NEW i \in DOMAIN th[p].held, NEW k, Gives(p, i, k),
         th[p].held[i] \in Bufs
  PROVE  DataKept /\ disk' = disk
<1>1. PICK b \in Bufs : buf' = [buf EXCEPT ![b] = [buf[b] EXCEPT !.owner = NIL]]
  BY Zenon DEF Gives
<1>2. disk' = disk /\ buf \in [Bufs -> Buffers] /\ buf[b] \in Buffers
  BY Zenon DEF Gives, Cache, Types
<1>3. \A c \in Bufs : /\ buf'[c].blockno = buf[c].blockno
                      /\ buf'[c].valid = buf[c].valid
                      /\ buf'[c].data = buf[c].data
  BY <1>1, <1>2, Zenon DEF Buffers
<1> QED
  BY <1>2, <1>3, SameData, Zenon

LEMMA BioData ==
  ASSUME Cache, NEW p \in Procs, BioStep(p)
  PROVE  DataKept /\ disk' = disk
<1>1. /\ disk' = disk /\ buf \in [Bufs -> Buffers]
  BY Zenon DEF BioStep, AcquireSleep, Fill, DropRef, Cache, Types
<1>2. CASE AcquireSleep(p) \/ DropRef(p)
  <2>1. \A c \in Bufs : /\ buf'[c].blockno = buf[c].blockno
                        /\ buf'[c].valid = buf[c].valid
                        /\ buf'[c].data = buf[c].data
    BY <1>1, <1>2 DEF AcquireSleep, DropRef, Buffers
  <2> QED
    BY <1>1, <2>1, SameData, Zenon
<1>3. CASE Fill(p)
  <2>1. PICK b : b = Got(p)
    BY Zenon
  <2>2. /\ buf' = [buf EXCEPT ![b].data = disk[buf[b].blockno], ![b].valid = TRUE]
        /\ th[p].pc = "fill"
    BY <1>3, <2>1, Zenon DEF Fill, At
  <2>3. b \in Bufs /\ ~buf[b].valid
    BY <2>1, <2>2, InBread, Zenon DEF Cache, Hands, Hand
  <2>4. /\ \A c \in Bufs \ {b} : buf'[c] = buf[c]
        /\ buf'[b].blockno = buf[b].blockno /\ buf'[b].data = disk[buf[b].blockno]
    BY <1>1, <2>2, <2>3 DEF Buffers
  <2> QED
    BY <1>1, <2>3, <2>4, Zenon DEF DataKept
<1> QED
  BY <1>2, <1>3, Zenon DEF BioStep

(* No thread goes anywhere. *)
LEMMA StaySees ==
  ASSUME IInv, IInv', CInv, NEW p \in Procs, \A q \in Procs : Loc(q)' = Loc(q),
         disk' = disk, DataKept, UNCHANGED logVars
  PROVE  Kept
<1>1. UNCHANGED <<lh, tail, booting>>
  BY Zenon DEF logVars
<1>2. PICK l : l = Loc(p)
  BY Zenon
<1>3. Goes(p, l, l)
  BY <1>2, Zenon DEF Goes
<1>4. l \in Locs
  <2>1. th[p] \in Threads
    BY Zenon DEF IInv, Cache, Types
  <2> QED
    BY <1>2, <2>1, Zenon DEF Loc, Threads, Calls
<1>5. SamePins
  BY <1>1, <1>3, PinsKept, Zenon
<1> QED
  BY <1>1, <1>3, <1>4, <1>5, QuietStep, Zenon DEF Quiet

LEMMA HaltSees ==
  ASSUME IInv, IInv', CInv, NEW p \in Procs, UNCHANGED <<buf, disk, th, logVars>>
  PROVE  Kept
<1>1. \A q \in Procs : Loc(q)' = Loc(q)
  BY Zenon DEF Loc
<1>2. DataKept
  BY SameData, Zenon
<1> QED
  BY <1>1, <1>2, StaySees, Zenon

LEMMA BreadSees ==
  ASSUME IInv, IInv', CInv, NEW p \in Procs, Bread(p)
  PROVE  Kept
<1>1. /\ th[p].k \in Locs /\ th[p].k \notin Calls /\ th \in [Procs -> Threads]
  BY DEF IInv, Cache, Types, Threads, Locs, Free, Single, Double, Calls, Hands
<1>2. BioStep(p) /\ UNCHANGED logVars
  BY Zenon DEF Bread
<1>3. /\ \A q \in Procs \ {p} : th'[q] = th[q]
      /\ th'[p].k = th[p].k /\ th'[p].pc \in {th[p].k, "fill"}
  BY <1>1, <1>2 DEF BioStep, AcquireSleep, Fill, DropRef, Goto, Threads
<1>4. th[p].pc \in Calls
  BY <1>2, Zenon DEF BioStep, AcquireSleep, Fill, DropRef, At, Calls
<1>5. \A q \in Procs : Loc(q)' = Loc(q)
  BY <1>1, <1>3, <1>4, Zenon DEF Loc, Calls
<1>6. DataKept /\ disk' = disk
  BY <1>2, BioData, Zenon DEF IInv
<1> QED
  BY <1>2, <1>5, <1>6, StaySees, Zenon

(* The calls of bread. *)
LEMMA PhaseRead ==
  ASSUME NEW from, NEW k, Reads(from, k), Phase(from)
  PROVE  Phase(k)
<1>1. CASE k \in {"modify", "read", "recover read"}
  BY <1>1, Zenon DEF Phase, InLog, InInstall
<1>2. CASE from \in {"log", "log from"} /\ k \in {"log from", "log copy"}
  BY <1>2, Zenon DEF Phase, InLog, InInstall
<1>3. CASE from = "head" /\ k = "head copy"
  BY <1>3, Zenon DEF Phase, InLog, InInstall
<1>4. CASE from \in {"install", "install dst"} /\ k \in {"install dst", "install copy"}
  BY <1>4, Zenon DEF Phase, InLog, InInstall
<1> QED
  BY <1>1, <1>2, <1>3, <1>4, Zenon DEF Reads

LEMMA ReadSees ==
  ASSUME IInv, IInv', CInv, NEW p \in Procs, NEW from \in Locs, NEW k \in Locs,
         Reads(from, k), th[p].pc = from, NEW blk \in Blocks, Bget(p, blk, k),
         UNCHANGED logVars
  PROVE  Kept
<1>1. UNCHANGED <<lh, tail, booting>>
  BY Zenon DEF logVars
<1>2. /\ from \notin Calls
      /\ from \in InOpLocs <=> k \in InOpLocs
      /\ from \in InInstall <=> k \in InInstall
      /\ from \in Working <=> k \in Working
  <2>1. from \notin Calls /\ (from \in InOpLocs <=> k \in InOpLocs)
    BY Zenon DEF Reads, Calls, InOpLocs
  <2>2. /\ from \in InInstall <=> k \in InInstall
        /\ from \in InRecover <=> k \in InRecover
        /\ from \in InLog <=> k \in InLog
        /\ from \in InHead <=> k \in InHead
        /\ from \notin {"commit", "done"} /\ k \notin {"commit", "done"}
    BY Zenon DEF Reads, InInstall, InRecover, InLog, InHead
  <2> QED
    BY <2>1, <2>2, Zenon DEF Working
<1>3. CASE Halts
  BY <1>3, HaltSees, Zenon DEF Halts
<1>4. ASSUME NEW b \in Bufs, Takes(p, b, blk, k) PROVE Kept
  <2>1. Goes(p, from, k)
    BY <1>2, <1>4, TakesGoes, Zenon DEF IInv
  <2>2. SamePins
    BY <1>1, <1>2, <2>1, PinsKept, Zenon
  <2>3. DataKept /\ disk' = disk
    BY <1>4, TakesData, Zenon DEF IInv
  <2>4. Phase(from) => Phase(k)
    BY PhaseRead, Zenon
  <2> QED
    BY <1>1, <1>2, <2>1, <2>2, <2>3, <2>4, QuietStep, Zenon DEF Quiet
<1> QED
  BY <1>2, <1>3, <1>4, BgetTakes, Zenon DEF IInv, Cache

LEMMA OpBreadSees ==
  ASSUME IInv, IInv', CInv, NEW p \in Procs, NEW blk \in Home, OpBread(p, blk)
  PROVE  Kept
<1>1. /\ {"op", "modify"} \subseteq Locs /\ Reads("op", "modify")
      /\ blk \in Blocks
  BY LogAssumption, Zenon DEF Reads, Locs, Free, Single
<1>2. th[p].pc = "op" /\ Bget(p, blk, "modify") /\ UNCHANGED logVars
  BY Zenon DEF OpBread, At
<1> QED
  BY <1>1, <1>2, ReadSees, Zenon

LEMMA StartReadSees ==
  ASSUME IInv, IInv', CInv, NEW p \in Procs, StartRead(p)
  PROVE  Kept
<1>1. {"idle", "read"} \subseteq Locs /\ Reads("idle", "read")
  BY Zenon DEF Reads, Locs, Free, Single
<1>2. PICK blk \in Home : Bget(p, blk, "read")
  BY Zenon DEF StartRead
<1>3. th[p].pc = "idle" /\ UNCHANGED logVars /\ blk \in Blocks
  BY LogAssumption, Zenon DEF StartRead, At
<1> QED
  BY <1>1, <1>2, <1>3, ReadSees, Zenon

LEMMA WriteLogFromSees ==
  ASSUME IInv, IInv', CInv, NEW p \in Procs, WriteLogFrom(p)
  PROVE  Kept
<1>1. /\ {"log from", "log copy"} \subseteq Locs /\ Reads("log from", "log copy")
      /\ "log from" \in Working
  BY Zenon DEF Reads, Locs, Single, Double, Working, InLog
<1>2. th[p].pc = "log from" /\ Bget(p, lh[tail], "log copy") /\ UNCHANGED logVars
  BY Zenon DEF WriteLogFrom, At
<1>3. tail <= Len(lh)
  BY <1>1, <1>2, PlaceNow, Zenon DEF Place
<1>4. lh[tail] \in Blocks
  BY <1>1, <1>2, <1>3, WorkBlocks, Zenon
<1> QED
  BY <1>1, <1>2, <1>4, ReadSees, Zenon

LEMMA InstallDstSees ==
  ASSUME IInv, IInv', CInv, NEW p \in Procs, InstallDst(p)
  PROVE  Kept
<1>1. /\ {"install dst", "install copy"} \subseteq Locs /\ Reads("install dst", "install copy")
      /\ "install dst" \in Working
  BY Zenon DEF Reads, Locs, Single, Double, Working, InInstall
<1>2. th[p].pc = "install dst" /\ Bget(p, lh[tail], "install copy") /\ UNCHANGED logVars
  BY Zenon DEF InstallDst, At
<1>3. tail <= Len(lh)
  BY <1>1, <1>2, PlaceNow, Zenon DEF Place
<1>4. lh[tail] \in Blocks
  BY <1>1, <1>2, <1>3, WorkBlocks, Zenon
<1> QED
  BY <1>1, <1>2, <1>4, ReadSees, Zenon

(* The calls of brelse. *)
LEMMA EmptyRange == 1 .. 1 - 1 = {}
OBVIOUS

LEMMA PhaseRelease ==
  ASSUME NEW from, NEW i, NEW k, Releases(from, i, k), Phase(from),
         from \notin {"log release to", "recover read"},
         k = "done" => lh = <<>>, from = "head release" => tail = 1
  PROVE  Phase(k)
<1>1. CASE k \in {"op", "idle"}
  BY <1>1, Zenon DEF Phase, InLog, InInstall
<1>2. CASE from = "log release from" /\ k = "log release to"
  BY <1>2, Zenon DEF Phase, InLog, InInstall
<1>3. CASE from = "head release" /\ k = "done"
  BY <1>3, Zenon DEF Phase, InLog, InInstall
<1>4. CASE from = "head release" /\ k = "install"
  <2>1. Installed(lh, 1 .. tail - 1)
    BY <1>4, EmptyRange, Zenon DEF Installed
  <2> QED
    BY <1>4, <2>1, Zenon DEF Phase, InLog, InInstall
<1>5. CASE /\ from \in {"install release log", "install release dst"}
           /\ k \in {"install release dst", "install"}
  BY <1>5, Zenon DEF Phase, InLog, InInstall
<1> QED
  BY <1>1, <1>2, <1>3, <1>4, <1>5, Zenon DEF Releases

LEMMA ReleaseSees ==
  ASSUME IInv, IInv', CInv, NEW p \in Procs, NEW from \in Locs, NEW i, NEW k \in Locs,
         Releases(from, i, k), th[p].pc = from, Brelse(p, i, k), SamePins,
         booting' = booting,
         \/ UNCHANGED <<lh, tail>> /\ (from \in Working /\ Phase(from) => Phase(k))
         \/ from \in Working /\ (Latest' = Latest /\ disk' = disk => Phase(k)')
  PROVE  Kept
<1>1. from \notin Calls
  BY Zenon DEF Releases, Calls
<1>2. i \in 1 .. Count(from)
  BY ReleasesCount
<1>3. i \in DOMAIN th[p].held /\ th[p].held[i] \in Bufs
  BY <1>1, <1>2, HeldNow, Zenon DEF IInv, Cache
<1>4. Gives(p, i, k)
  BY <1>1, <1>3, BrelseGives, Zenon DEF IInv, Cache, BufferCache
<1>5. Goes(p, from, k) /\ disk' = disk
  BY ReleaseGoes, Zenon
<1>6. DataKept
  BY <1>3, <1>4, GivesData, Zenon DEF IInv
<1>7. from \in InOpLocs <=> k \in InOpLocs
  BY Zenon DEF Releases, InOpLocs
<1>8. from \in Working <=> k \in Working
  <2>1. CASE from \in {"release", "read"} /\ k \in {"op", "idle"}
    BY <2>1, Zenon DEF Working, InLog, InHead, InInstall, InRecover
  <2>2. CASE /\ from \in {"log release from", "log release to", "head release",
                          "install release log", "install release dst", "recover read"}
             /\ k \in {"log release to", "log", "done", "install", "install release dst"}
    BY <2>2, Zenon DEF Working, InLog, InHead, InInstall, InRecover
  <2> QED
    BY <2>1, <2>2, Zenon DEF Releases
<1> QED
  BY <1>5, <1>6, <1>7, <1>8, QuietStep, Zenon DEF Quiet

LEMMA OpBrelseSees ==
  ASSUME IInv, IInv', CInv, NEW p \in Procs, OpBrelse(p)
  PROVE  Kept
<1>1. /\ {"release", "op"} \subseteq Locs /\ Releases("release", 1, "op")
      /\ "release" \notin Working /\ {"release", "op"} \cap InInstall = {}
  BY Zenon DEF Releases, Locs, Free, Single, Working, InLog, InHead, InInstall,
     InRecover
<1>2. /\ th[p].pc = "release" /\ Brelse(p, 1, "op")
      /\ UNCHANGED <<lh, tail, booting>>
  BY Zenon DEF OpBrelse, At, logVars
<1>3. Goes(p, "release", "op")
  BY <1>1, <1>2, ReleaseGoes, Zenon
<1>4. SamePins
  BY <1>1, <1>2, <1>3, PinsKept, Zenon
<1> QED
  BY <1>1, <1>2, <1>4, ReleaseSees, Zenon

LEMMA EndReadSees ==
  ASSUME IInv, IInv', CInv, NEW p \in Procs, EndRead(p)
  PROVE  Kept
<1>1. /\ {"read", "idle"} \subseteq Locs /\ Releases("read", 1, "idle")
      /\ "read" \notin Working /\ {"read", "idle"} \cap InInstall = {}
  BY Zenon DEF Releases, Locs, Free, Single, Working, InLog, InHead, InInstall,
     InRecover
<1>2. /\ th[p].pc = "read" /\ Brelse(p, 1, "idle")
      /\ UNCHANGED <<lh, tail, booting>>
  BY Zenon DEF EndRead, At, logVars
<1>3. Goes(p, "read", "idle")
  BY <1>1, <1>2, ReleaseGoes, Zenon
<1>4. SamePins
  BY <1>1, <1>2, <1>3, PinsKept, Zenon
<1> QED
  BY <1>1, <1>2, <1>4, ReleaseSees, Zenon

LEMMA InstallReleaseSees ==
  ASSUME IInv, IInv', CInv, NEW p \in Procs, InstallRelease(p)
  PROVE  Kept
<1>1. PICK from \in {"install release log", "install release dst"},
           k \in {"install release dst", "install"} :
        /\ th[p].pc = from /\ Brelse(p, 1, k)
        /\ from = "install release log" <=> k = "install release dst"
  BY Zenon DEF InstallRelease, At
<1>2. /\ from \in Locs /\ k \in Locs /\ Releases(from, 1, k)
      /\ from \in InInstall /\ k \in InInstall
      /\ from \notin {"log release to", "recover read", "head release"} /\ k # "done"
  BY <1>1, Zenon DEF Releases, Locs, Free, Single, Double, InInstall
<1>3. UNCHANGED <<lh, tail, booting>>
  BY Zenon DEF InstallRelease, logVars
<1>4. Goes(p, from, k)
  BY <1>1, <1>2, ReleaseGoes, Zenon
<1>5. SamePins
  BY <1>2, <1>3, <1>4, PinsKept, Zenon
<1>6. Phase(from) => Phase(k)
  BY <1>2, PhaseRelease, Zenon
<1> QED
  BY <1>1, <1>2, <1>3, <1>5, <1>6, ReleaseSees, Zenon

(* A pass over the log goes on, or is over. *)
LEMMA SavedOneMore ==
  ASSUME tail \in Int, Saved(1 .. tail - 1), Saved({tail}), tail' = tail + 1,
         disk' = disk, Latest' = Latest, lh' = lh
  PROVE  Saved(1 .. tail - 1)'
<1>1. \A i \in 1 .. tail' - 1 : i \in 1 .. tail - 1 \/ i \in {tail}
  OBVIOUS
<1> QED
  BY <1>1, Zenon DEF Saved

LEMMA WriteLogReleaseSees ==
  ASSUME IInv, IInv', CInv, NEW p \in Procs, WriteLogRelease(p)
  PROVE  Kept
<1>1. lh' = lh /\ booting' = booting
  BY Zenon DEF WriteLogRelease
<1>2. CASE /\ th[p].pc = "log release from" /\ Brelse(p, 2, "log release to")
           /\ tail' = tail
  <2>1. /\ {"log release from", "log release to"} \subseteq Locs
        /\ Releases("log release from", 2, "log release to")
        /\ {"log release from", "log release to"} \cap InInstall = {}
    BY Zenon DEF Releases, Locs, Single, Double, InInstall
  <2>2. Goes(p, "log release from", "log release to")
    BY <1>2, <2>1, ReleaseGoes, Zenon
  <2>3. SamePins
    BY <1>1, <1>2, <2>1, <2>2, PinsKept, Zenon
  <2>4. Phase("log release from") => Phase("log release to")
    BY <2>1, PhaseRelease, Zenon
  <2> QED
    BY <1>1, <1>2, <2>1, <2>3, <2>4, ReleaseSees, Zenon
<1>3. CASE /\ th[p].pc = "log release to" /\ Brelse(p, 1, "log")
           /\ tail' = tail + 1
  <2>1. /\ {"log release to", "log"} \subseteq Locs \cap Working \cap InLog
        /\ Releases("log release to", 1, "log")
        /\ {"log release to", "log"} \cap InInstall = {}
    BY Zenon DEF Releases, Locs, Free, Single, Working, InLog, InInstall
  <2>2. Goes(p, "log release to", "log")
    BY <1>3, <2>1, ReleaseGoes, Zenon
  <2>3. Loc(p) = "log release to"
    BY <2>2, Zenon DEF Goes
  <2>4. ~Installing
    BY <2>1, <2>3, Zenon DEF IInv, Control, Turns, Installing, Working, InInstall
  <2>5. SamePins
    BY <1>1, <2>1, <2>2, <2>4, PinsKept, Zenon
  <2>6. Phase("log release to") /\ tail \in Int
    BY <2>1, <2>3, Zenon DEF CInv, Phases, IInv, Control, LogTypes
  <2>7. /\ disk[Header] = <<>> /\ Saved(1 .. tail - 1) /\ Saved({tail})
    BY <2>1, <2>6, Zenon DEF Phase
  <2>8. ASSUME Latest' = Latest, disk' = disk PROVE Phase("log")'
    <3>1. Saved(1 .. tail - 1)'
      BY <1>1, <1>3, <2>6, <2>7, <2>8, SavedOneMore, Zenon
    <3> QED
      BY <2>7, <2>8, <3>1, Zenon DEF Phase, InInstall
  <2> QED
    BY <1>1, <1>3, <2>1, <2>5, <2>8, ReleaseSees, Zenon
<1> QED
  BY <1>2, <1>3, Zenon DEF WriteLogRelease, At

LEMMA HeadReleaseSees ==
  ASSUME IInv, IInv', CInv, NEW p \in Procs, th[p].pc = "head release",
         Brelse(p, 1, IF lh = <<>> THEN "done" ELSE "install"), UNCHANGED logVars
  PROVE  Kept
<1>1. PICK k \in {"done", "install"} : Brelse(p, 1, k) /\ (k = "done" => lh = <<>>)
  BY Zenon
<1>2. /\ "head release" \in Locs \cap Working /\ k \in Locs
      /\ Releases("head release", 1, k)
      /\ "head release" \notin InLog \cup InInstall
  BY Zenon DEF Releases, Locs, Free, Single, Working, InHead, InLog, InInstall
<1>3. tail = 1
  BY <1>2, PlaceNow, Zenon DEF Place
<1>4. UNCHANGED <<lh, tail, booting>>
  BY Zenon DEF logVars
<1>5. SamePins
  BY <1>3, <1>4, PinsAtStart, Zenon DEF IInv, Control
<1>6. Phase("head release") => Phase(k)
  BY <1>1, <1>2, <1>3, PhaseRelease, Zenon
<1> QED
  BY <1>1, <1>2, <1>4, <1>5, <1>6, ReleaseSees, Zenon

LEMMA ReadHeadSees ==
  ASSUME IInv, IInv', CInv, NEW p \in Procs, ReadHead(p)
  PROVE  Kept
<1>1. UNCHANGED <<outstanding, committing, tail, wrote, booting>>
  BY Zenon DEF ReadHead
<1>2. CASE th[p].pc = "recover" /\ Bget(p, Header, "recover read") /\ lh' = lh
  <2>1. {"recover", "recover read"} \subseteq Locs /\ Reads("recover", "recover read")
    BY Zenon DEF Reads, Locs, Free, Single
  <2>2. UNCHANGED logVars
    BY <1>1, <1>2, Zenon DEF logVars
  <2> QED
    BY <1>2, <2>1, <2>2, HeaderBlock, ReadSees, Zenon
<1>3. CASE /\ th[p].pc = "recover read" /\ lh' = buf[Got(p)].data
           /\ Brelse(p, 1, "install")
  <2>1. /\ {"recover read", "install"} \subseteq Locs \cap Working
        /\ Releases("recover read", 1, "install")
        /\ "recover read" \notin InLog \cup InInstall /\ "recover read" \in InRecover
        /\ "recover read" \in Single
    BY Zenon DEF Releases, Locs, Free, Single, Working, InLog, InInstall, InRecover
  <2>2. Place("recover read") /\ Loc(p) = "recover read"
    BY <1>3, <2>1, PlaceNow, Zenon
  <2>3. booting # NIL /\ booting' # NIL
    BY <1>1, <2>1, <2>2, Zenon DEF IInv, Control, Turns
  <2>4. tail' = 1
    BY <1>1, <2>1, <2>2, Zenon DEF Place
  <2>5. SamePins
    BY <2>3, PinsBooting, Zenon
  <2>6. lh' = disk[Header]
    <3>1. Got(p) = th[p].held[1] /\ Got(p) \in Bufs /\ buf[Got(p)].valid
      BY <1>3, <2>1, HoldsOne, Zenon DEF IInv
    <3>2. buf[Got(p)].blockno = Header
      BY <2>2, <3>1, Zenon DEF IInv, Control, Targets, Target, InHand
    <3> QED
      BY <1>3, <3>1, <3>2, Zenon DEF IInv, Control, Lists, HeaderBuf
  <2>7. Installed(lh, 1 .. tail - 1)'
    BY <2>4, EmptyRange, Zenon DEF Installed
  <2>8. disk' = disk => Phase("install")'
    BY <2>3, <2>6, <2>7, Zenon DEF Phase, InLog
  <2> QED
    BY <1>1, <1>3, <2>1, <2>5, <2>8, ReleaseSees, Zenon
<1> QED
  BY <1>2, <1>3, Zenon DEF ReadHead, At

(* Jumps. *)
LEMMA JumpSees ==
  ASSUME IInv, IInv', CInv, NEW p \in Procs, NEW from \in Free, NEW to \in Free,
         th[p].pc = from, th' = [th EXCEPT ![p].pc = to],
         UNCHANGED <<buf, lru, disk>>, SamePins, booting' = booting,
         from \in InOpLocs <=> to \in InOpLocs, from \in Working <=> to \in Working,
         \/ UNCHANGED <<lh, tail>> /\ (from \in Working /\ Phase(from) => Phase(to))
         \/ from \in Working /\ (Latest' = Latest => Phase(to)')
  PROVE  Kept
<1>1. Goes(p, from, to)
  BY JumpGoes, Zenon DEF IInv
<1>2. DataKept /\ disk' = disk
  BY SameData, Zenon
<1>3. from \in Locs /\ to \in Locs
  BY Zenon DEF Locs
<1> QED
  BY <1>1, <1>2, <1>3, QuietStep, Zenon DEF Quiet

LEMMA StartOpSees ==
  ASSUME IInv, IInv', CInv, NEW p \in Procs, StartOp(p)
  PROVE  Kept
<1>1. /\ {"idle", "begin"} \subseteq Free /\ "idle" \notin Working /\ "begin" \notin Working
      /\ "idle" \notin InOpLocs /\ "begin" \notin InOpLocs
      /\ {"idle", "begin"} \cap InInstall = {}
  BY Zenon DEF Free, Working, InLog, InHead, InInstall, InRecover, InOpLocs
<1>2. /\ th[p].pc = "idle" /\ th' = [th EXCEPT ![p].pc = "begin"]
      /\ UNCHANGED <<buf, lru, disk>> /\ UNCHANGED <<lh, tail, booting>>
  BY Zenon DEF StartOp, At, Goto, logVars
<1>3. Goes(p, "idle", "begin")
  BY <1>1, <1>2, JumpGoes, Zenon DEF IInv
<1>4. SamePins
  BY <1>1, <1>2, <1>3, PinsKept, Zenon
<1> QED
  BY <1>1, <1>2, <1>4, JumpSees, Zenon

LEMMA CommitSees ==
  ASSUME IInv, IInv', CInv, NEW p \in Procs, Commit(p)
  PROVE  Kept
<1>1. /\ th[p].pc = "commit" /\ UNCHANGED <<buf, lru, disk>>
      /\ UNCHANGED <<lh, tail, booting>>
  BY Zenon DEF Commit, At, logVars
<1>2. PICK to \in {"done", "log"} : th' = [th EXCEPT ![p].pc = to]
  BY Zenon DEF Commit, Goto
<1>3. /\ "commit" \in Free /\ to \in Free /\ "commit" \in Working /\ to \in Working
      /\ "commit" \notin InOpLocs /\ to \notin InOpLocs
      /\ "commit" \notin InLog \cup InInstall
  BY Zenon DEF Free, Working, InLog, InInstall, InOpLocs
<1>4. tail = 1
  BY <1>1, <1>3, PlaceNow, Zenon DEF Place
<1>5. SamePins
  BY <1>1, <1>4, PinsAtStart, Zenon DEF IInv, Control
<1>6. Phase("commit") => Phase(to)
  <2>1. Saved(1 .. tail - 1)
    BY <1>4, EmptyRange, Zenon DEF Saved
  <2> QED
    BY <2>1, Zenon DEF Phase, InInstall
<1> QED
  BY <1>1, <1>2, <1>3, <1>5, <1>6, JumpSees, Zenon

LEMMA WriteLogToSees ==
  ASSUME IInv, IInv', CInv, NEW p \in Procs, WriteLogTo(p)
  PROVE  Kept
<1>1. /\ th[p].pc = "log" /\ UNCHANGED <<lh, outstanding, committing, wrote, booting>>
  BY Zenon DEF WriteLogTo, At
<1>2. /\ {"log", "head"} \subseteq Working \cap Free
      /\ {"log", "head"} \cap InOpLocs = {} /\ {"log", "head"} \cap InInstall = {}
      /\ "head" \notin InLog \cup {"commit", "done", "head release"}
      /\ {"log", "log from"} \subseteq Locs /\ Reads("log", "log from") /\ "log" \in InLog
  BY Zenon DEF Working, InLog, InHead, Free, InOpLocs, InInstall, Locs, Single,
     Reads
<1>3. CASE tail <= Len(lh)
  <2>1. Bget(p, LogBlock(tail), "log from") /\ UNCHANGED logVars
    BY <1>1, <1>3, Zenon DEF WriteLogTo, logVars
  <2>2. LogBlock(tail) \in Blocks
    BY <1>1, <1>2, <1>3, WorkBlocks, Zenon
  <2> QED
    BY <1>1, <1>2, <2>1, <2>2, ReadSees, Zenon
<1>4. CASE ~(tail <= Len(lh))
  <2>1. th' = [th EXCEPT ![p].pc = "head"] /\ tail' = 1 /\ UNCHANGED <<buf, lru, disk>>
    BY <1>4, Zenon DEF WriteLogTo, Goto
  <2>2. Loc(p) = "log" /\ tail \in 1 .. Len(lh) + 1 /\ lh \in Seq(Home)
    BY <1>1, <1>2, PlaceNow, Zenon DEF Place, IInv, Control, LogTypes
  <2>3. DOMAIN lh = 1 .. tail - 1
    BY <1>4, <2>2
  <2>4. Goes(p, "log", "head")
    BY <1>1, <1>2, <2>1, JumpGoes, Zenon DEF IInv
  <2>5. ~Installing
    BY <1>2, <2>2, Zenon DEF IInv, Control, Turns, Installing, InInstall, Working
  <2>6. SamePins
    BY <1>1, <1>2, <2>4, <2>5, PinsKept, Zenon
  <2>7. disk[Header] = <<>> /\ Saved(DOMAIN lh)
    BY <1>2, <2>2, <2>3, Zenon DEF CInv, Phases, Phase
  <2>8. ASSUME Latest' = Latest PROVE Phase("head")'
    <3>1. disk'[Header] = <<>>
      BY <2>1, <2>7, Zenon
    <3>2. Saved(DOMAIN lh)'
      BY <1>1, <2>1, <2>7, <2>8, Zenon DEF Saved
    <3>3. Installed(disk[Header], DOMAIN disk[Header])'
      BY <3>1 DEF Installed
    <3> QED
      BY <1>2, <3>1, <3>2, <3>3, Zenon DEF Phase
  <2> QED
    BY <1>1, <1>2, <2>1, <2>6, <2>8, JumpSees, Zenon
<1> QED
  BY <1>3, <1>4, Zenon

LEMMA InstallLogSees ==
  ASSUME IInv, IInv', CInv, NEW p \in Procs, InstallLog(p)
  PROVE  Kept
<1>1. /\ th[p].pc = "install" /\ UNCHANGED <<outstanding, committing, wrote, booting>>
  BY Zenon DEF InstallLog, At
<1>2. /\ {"install", "head"} \subseteq Working \cap Free
      /\ {"install", "head"} \cap InOpLocs = {}
      /\ "head" \notin InLog \cup InInstall \cup {"commit", "done", "head release"}
      /\ {"install", "install dst"} \subseteq Locs /\ Reads("install", "install dst")
      /\ "install" \in InInstall
  BY Zenon DEF Working, InLog, InHead, Free, InOpLocs, InInstall, Locs, Single,
     Reads
<1>3. CASE tail <= Len(lh)
  <2>1. Bget(p, LogBlock(tail), "install dst") /\ UNCHANGED logVars
    BY <1>1, <1>3, Zenon DEF InstallLog, InstallMore, logVars
  <2>2. LogBlock(tail) \in Blocks
    BY <1>1, <1>2, <1>3, WorkBlocks, Zenon
  <2> QED
    BY <1>1, <1>2, <2>1, <2>2, ReadSees, Zenon
<1>4. CASE ~(tail <= Len(lh))
  <2>1. /\ th' = [th EXCEPT ![p].pc = "head"] /\ tail' = 1 /\ lh' = <<>>
        /\ UNCHANGED <<buf, lru, disk>>
    BY <1>4, Zenon DEF InstallLog, InstallMore, Goto
  <2>2. Loc(p) = "install" /\ tail \in 1 .. Len(lh) + 1 /\ lh \in Seq(Home)
    BY <1>1, <1>2, PlaceNow, Zenon DEF Place, IInv, Control, LogTypes
  <2>3. DOMAIN lh = 1 .. tail - 1 /\ \A i \in DOMAIN lh : ~(i >= tail)
    BY <1>4, <2>2
  <2>4. Installing
    BY <2>2, Zenon DEF Installing
  <2>5. \A x : ~Pinned(x)
    BY <2>3, <2>4, Zenon DEF Pinned
  <2>6. \A x : ~Pinned(x)'
    BY <2>1 DEF Pinned
  <2>7. SamePins
    BY <2>5, <2>6, Zenon DEF SamePins
  <2>8. disk[Header] = lh /\ Installed(lh, DOMAIN lh)
    BY <1>2, <2>2, <2>3, Zenon DEF CInv, Phases, Phase
  <2>9. Phase("head")'
    <3>1. Installed(disk[Header], DOMAIN disk[Header])'
      BY <2>1, <2>8, Zenon DEF Installed
    <3> QED
      BY <1>2, <2>1, <3>1, Zenon DEF Phase
  <2> QED
    BY <1>1, <1>2, <2>1, <2>7, <2>9, JumpSees, Zenon
<1> QED
  BY <1>3, <1>4, Zenon

-----------------------------------------------------------------------------
(* Steps that users of the disk see, and writes *)

LEMMA BeginOpSees ==
  ASSUME IInv, IInv', CInv, NEW p \in Procs, BeginOp(p)
  PROVE  Kept
<1>1. /\ th[p].pc = "begin" /\ UNCHANGED <<buf, lru, disk>>
      /\ UNCHANGED <<lh, tail, booting>>
  BY Zenon DEF BeginOp, At
<1>2. /\ {"begin", "sleep", "op"} \subseteq (Locs \cap Free) \ Working
      /\ {"begin", "sleep"} \cap InOpLocs = {} /\ "op" \in InOpLocs
      /\ {"begin", "sleep", "op"} \cap InInstall = {}
  BY Zenon DEF Locs, Free, Working, InLog, InHead, InInstall, InRecover, InOpLocs
<1>3. PICK to \in {"sleep", "op"} : th' = [th EXCEPT ![p].pc = to]
  BY Zenon DEF BeginOp, Goto
<1>4. Goes(p, "begin", to) /\ to \in Free /\ to \in Locs
  BY <1>1, <1>2, <1>3, JumpGoes, Zenon DEF IInv
<1>5. SamePins
  BY <1>1, <1>2, <1>4, PinsKept, Zenon
<1>6. CASE to = "sleep"
  BY <1>1, <1>2, <1>3, <1>5, <1>6, JumpSees, Zenon
<1>7. CASE to = "op"
  <2>1. Quiet
    BY <1>1, <1>5, SameData, Zenon DEF Quiet
  <2>2. Clean' /\ Latest' = Latest /\ Durable' = Durable
    BY <2>1, QuietContents, Zenon DEF CInv
  <2>3. Phases'
    BY <1>1, <1>2, <1>4, <1>7, <2>2, PhasesKept, Zenon DEF IInv, Control, CInv
  <2>4. p \notin InOp /\ InOp' = InOp \cup {p}
    BY <1>2, <1>4, <1>7, InOpKept, Zenon
  <2>5. Current' = Current
    BY <1>1, <2>2, Zenon DEF Current
  <2>6. AD!Begin(p)
    BY <2>2, <2>4, <2>5, Zenon DEF AD!Begin
  <2> QED
    BY <2>2, <2>3, <2>6, Zenon DEF Kept, CInv, AD!Next
<1> QED
  BY <1>6, <1>7, Zenon

LEMMA EndOpSees ==
  ASSUME IInv, IInv', CInv, NEW p \in Procs, EndOp(p)
  PROVE  Kept
<1>1. th[p].pc = "op" /\ UNCHANGED <<lh, tail, booting>>
  BY Zenon DEF EndOp, At
<1>2. /\ {"op", "idle", "commit"} \subseteq Locs \cap Free
      /\ "op" \in InOpLocs /\ {"idle", "commit"} \cap InOpLocs = {}
      /\ {"op", "idle", "commit"} \cap InInstall = {}
  BY Zenon DEF Locs, Free, InInstall, InOpLocs
<1>3. Loc(p) = "op"
  BY <1>1, Zenon DEF Loc
<1>4. ~committing /\ \A q \in Procs : Loc(q) \notin Working
  BY <1>2, <1>3, NoWorker, Zenon
<1>5. PICK to \in {"idle", "commit"} :
        /\ \/ th' = [th EXCEPT ![p].pc = to]
           \/ th' = Wakeup([th EXCEPT ![p].pc = to]) /\ to # "sleep"
        /\ UNCHANGED <<buf, lru, disk>>
  <2>1. "idle" # "sleep"
    BY Zenon
  <2> QED
    BY <1>4, <2>1, Zenon DEF EndOp, Goto
<1>6. Goes(p, "op", to)
  BY <1>1, <1>2, <1>5, JumpGoes, Zenon DEF IInv
<1>7. SamePins
  BY <1>1, <1>2, <1>6, PinsKept, Zenon
<1>8. Quiet
  BY <1>5, <1>7, SameData, Zenon DEF Quiet
<1>9. Clean' /\ Latest' = Latest /\ Durable' = Durable
  BY <1>8, QuietContents, Zenon DEF CInv
<1>10. disk[Header] = <<>> /\ disk'[Header] = <<>>
  BY <1>4, <1>5, Zenon DEF CInv, Phases
<1>11. Phase(to)'
  BY <1>10, Zenon DEF Phase, InLog, InInstall
<1>12. Phases'
  BY <1>2, <1>4, <1>6, <1>10, <1>11, PhasesKept, Zenon DEF IInv, Control, CInv
<1>13. p \in InOp /\ InOp' = InOp \ {p}
  BY <1>2, <1>6, InOpKept, Zenon
<1>14. Current' = Current
  BY <1>1, <1>9, Zenon DEF Current
<1>15. AD!End(p)
  BY <1>9, <1>13, <1>14, Zenon DEF AD!End
<1> QED
  BY <1>9, <1>12, <1>15, Zenon DEF Kept, CInv, AD!Next

(* bwrite of a block of the log. *)
LEMMA OtherBuffers ==
  ASSUME IInv, NEW b \in Bufs, buf[b].blockno \in Blocks, NEW c \in Bufs \ {b}
  PROVE  buf[c].blockno # buf[b].blockno
<1>1. buf[b].blockno # NIL /\ OneBufferPerBlock
  BY BioAssumption, Zenon DEF IInv, Cache, BufferCache
<1> QED
  BY <1>1, Zenon DEF OneBufferPerBlock

LEMMA Bwritten ==
  ASSUME Types, NEW p \in Procs, NEW b \in Bufs, NEW d \in Contents, DiskWrite(b, d)
  PROVE  /\ \A c \in Bufs \ {b} : buf'[c] = buf[c]
         /\ buf'[b].blockno = buf[b].blockno /\ buf'[b].valid = buf[b].valid
         /\ buf'[b].data = d
         /\ \A c \in Bufs : buf'[c].blockno = buf[c].blockno
         /\ buf[b].blockno \in Blocks => disk'[buf[b].blockno] = d
         /\ \A y \in Blocks \ {buf[b].blockno} : disk'[y] = disk[y]
<1>1. /\ buf \in [Bufs -> Buffers] /\ disk \in [Blocks -> Contents]
      /\ buf' = [buf EXCEPT ![b].data = d] /\ disk' = [disk EXCEPT ![buf[b].blockno] = d]
  BY Zenon DEF Types, DiskWrite
<1>2. /\ \A c \in Bufs \ {b} : buf'[c] = buf[c]
      /\ buf'[b].blockno = buf[b].blockno /\ buf'[b].valid = buf[b].valid
      /\ buf'[b].data = d
  BY <1>1 DEF Buffers
<1>3. /\ buf[b].blockno \in Blocks => disk'[buf[b].blockno] = d
      /\ \A y \in Blocks \ {buf[b].blockno} : disk'[y] = disk[y]
  BY <1>1, Zenon
<1> QED
  BY <1>2, <1>3, Zenon

LEMMA WritesLog ==
  ASSUME IInv, IInv', Clean, SamePins, NEW p \in Procs, NEW b \in Bufs,
         NEW d \in Contents, buf[b].blockno \in Blocks, buf[b].blockno \notin Home,
         DiskWrite(b, d)
  PROVE  /\ Clean' /\ Latest' = Latest
         /\ disk'[buf[b].blockno] = d
         /\ \A y \in Blocks \ {buf[b].blockno} : disk'[y] = disk[y]
<1>0. PICK x : x = buf[b].blockno
  BY Zenon
<1>1. Types /\ x \in Blocks /\ x \notin Home
  BY <1>0, Zenon DEF IInv, Cache
<1>2. /\ \A c \in Bufs \ {b} : buf'[c] = buf[c]
      /\ buf'[b].blockno = x /\ buf'[b].valid = buf[b].valid /\ buf'[b].data = d
  BY <1>0, <1>1, Bwritten, Zenon
<1>3. disk'[x] = d /\ \A y \in Blocks \ {x} : disk'[y] = disk[y]
  BY <1>0, <1>1, Bwritten, Zenon
<1>4. \A c \in Bufs \ {b} : buf[c].blockno # x
  BY <1>0, OtherBuffers, Zenon
<1>5. Clean'
  <2> SUFFICES ASSUME NEW c \in Bufs, buf'[c].valid, buf'[c].blockno \in Blocks,
                      ~Pinned(buf[c].blockno)'
               PROVE  buf'[c].data = disk'[buf'[c].blockno]
    BY Zenon DEF Clean
  <2>1. CASE c = b
    BY <1>2, <1>3, <2>1, Zenon
  <2>2. CASE c # b
    <3>1. buf'[c] = buf[c] /\ buf[c].blockno # x
      BY <1>2, <1>4, <2>2, Zenon
    <3>2. ~Pinned(buf[c].blockno)
      BY <3>1, Zenon DEF SamePins
    <3>3. buf[c].data = disk[buf[c].blockno]
      BY <3>1, <3>2, Zenon DEF Clean
    <3> QED
      BY <1>3, <3>1, <3>3, Zenon
  <2> QED
    BY <2>1, <2>2, Zenon
<1>6. LatestIs /\ LatestIs'
  <2>1. (IInv /\ Clean => LatestIs)'
    BY LatestAt, PTL
  <2> QED
    BY <1>5, <2>1, LatestAt, Zenon
<1>7. ASSUME NEW h \in Home PROVE Latest'[h] = Latest[h]
  <2>1. h \in Blocks /\ h # x
    BY <1>1, LogAssumption, Zenon
  <2>2. CASE Pinned(h)
    <3>1. PICK c \in Bufs : buf[c].blockno = h /\ buf[c].valid
      BY <2>1, <2>2, Zenon DEF IInv, Cache, Pins
    <3>2. buf'[c] = buf[c]
      BY <1>2, <2>1, <3>1, Zenon
    <3>3. Latest[h] = buf[c].data
      BY <1>6, <3>1, Zenon DEF LatestIs
    <3>4. buf'[c].blockno = h /\ buf'[c].valid
      BY <3>1, <3>2, Zenon
    <3>5. Latest'[h] = buf'[c].data
      BY <1>6, <3>4, Zenon DEF LatestIs
    <3> QED
      BY <3>2, <3>3, <3>5, Zenon
  <2>3. CASE ~Pinned(h)
    <3>1. ~Pinned(h)' /\ disk'[h] = disk[h]
      BY <1>3, <2>1, <2>3, Zenon DEF SamePins
    <3> QED
      BY <1>6, <2>3, <3>1, Zenon DEF LatestIs
  <2> QED
    BY <2>2, <2>3, Zenon
<1>8. Latest' = Latest
  BY <1>6, <1>7, Zenon DEF LatestIs
<1> QED
  BY <1>0, <1>3, <1>5, <1>8, Zenon

LEMMA NoIndex == DOMAIN <<>> = {}
OBVIOUS

(* The log's own blocks. *)
LEMMA LogBlocks ==
  ASSUME IInv, NEW i \in DOMAIN lh
  PROVE  LogBlock(i) \in Blocks \ Home /\ LogBlock(i) # Header /\ lh[i] \in Home
<1>1. lh \in Seq(Home) /\ Len(lh) < NLog
  BY Zenon DEF IInv, Control, LogTypes, Lists
<1>2. i \in 0 .. NLog - 1 /\ i # 0 /\ lh[i] \in Home
  BY <1>1, LogAssumption
<1> QED
  BY <1>2, LogAssumption, Zenon DEF LogBlock, Header

(* write_log: a copy of the cached block. *)
LEMMA WriteLogCopySees ==
  ASSUME IInv, IInv', CInv, NEW p \in Procs, WriteLogCopy(p)
  PROVE  Kept
<1>1. PICK b, c, d, x, y : /\ b = th[p].held[1] /\ c = th[p].held[2]
                           /\ d = buf[c].data /\ x = LogBlock(tail) /\ y = lh[tail]
  BY Zenon
<1>2. /\ th[p].pc = "log copy" /\ DiskWrite(b, d)
      /\ th' = [th EXCEPT ![p].pc = "log release from"]
      /\ UNCHANGED <<lh, tail, booting>>
  BY <1>1, WriteLogCopies, Zenon DEF IInv, Goto, logVars
<1>3. /\ {"log copy", "log release from"} \subseteq Working \cap InLog \cap Double \cap Locs
      /\ {"log copy", "log release from"} \cap InInstall = {}
      /\ {"log copy", "log release from"} \cap InOpLocs = {} /\ "log copy" \notin Calls
  BY Zenon DEF Working, InLog, InInstall, Double, Locs, InOpLocs, Calls
<1>4. /\ b \in Bufs /\ c \in Bufs /\ buf[c].valid /\ d \in Contents
  <2>1. b \in Bufs /\ c \in Bufs /\ buf[c].valid
    BY <1>1, <1>2, <1>3, HoldsTwo, Zenon DEF IInv
  <2> QED
    BY <1>1, <2>1, Zenon DEF IInv, Cache, Types, Buffers
<1>5. Place("log copy") /\ Loc(p) = "log copy"
  BY <1>2, <1>3, PlaceNow, Zenon
<1>6. /\ tail \in DOMAIN lh /\ tail \in 1 .. Len(lh) + 1
  BY <1>2, <1>3, <1>5, NotHeader, Zenon DEF Place
<1>7. x \in Blocks \ Home /\ x # Header /\ y \in Home
  BY <1>1, <1>6, LogBlocks, Zenon
<1>8. buf[b].blockno = x /\ buf[c].blockno = y
  BY <1>1, <1>5, Zenon DEF IInv, Control, Targets, Target, InHand
<1>9. \A a \in Bufs : buf'[a].blockno = buf[a].blockno
  BY <1>2, <1>4, Bwritten, Zenon DEF IInv, Cache
<1>10. Goes(p, "log copy", "log release from")
  BY <1>2, <1>3, <1>9, MovesGoes, Zenon DEF IInv, Cache
<1>11. SamePins
  BY <1>2, <1>3, <1>10, PinsKept, Zenon
<1>12. /\ Clean' /\ Latest' = Latest
       /\ disk'[x] = d /\ \A z \in Blocks \ {x} : disk'[z] = disk[z]
  <2>1. Clean
    BY Zenon DEF CInv
  <2>2. /\ Clean' /\ Latest' = Latest /\ disk'[buf[b].blockno] = d
        /\ \A z \in Blocks \ {buf[b].blockno} : disk'[z] = disk[z]
    BY <1>2, <1>4, <1>7, <1>8, <1>11, <2>1, WritesLog, Zenon
  <2> QED
    BY <1>8, <2>2, Zenon
<1>13. /\ disk[Header] = <<>> /\ disk'[Header] = <<>> /\ Saved(1 .. tail - 1)
  BY <1>3, <1>5, <1>7, <1>12, HeaderBlock, Zenon DEF CInv, Phases, Phase
<1>14. Durable' = Durable
  <2>1. DurableIs /\ DurableIs'
    BY DurableAt, PTL
  <2>2. DOMAIN disk[Header] = {} /\ DOMAIN disk'[Header] = {}
    BY <1>13, NoIndex, Zenon
  <2>3. \A h \in Home : disk'[h] = disk[h]
    BY <1>7, <1>12, LogAssumption, Zenon
  <2>4. \A h \in Home : Durable[h] = disk[h] /\ Durable'[h] = disk'[h]
    BY <2>1, <2>2, Zenon DEF DurableIs
  <2> QED
    BY <2>1, <2>3, <2>4, Zenon DEF DurableIs
<1>15. Saved({tail})'
  <2>1. IInv /\ Clean => LatestIs
    BY LatestAt, Zenon
  <2>2. Latest[y] = d
    BY <1>1, <1>4, <1>7, <1>8, <2>1, Zenon DEF LatestIs, CInv
  <2>3. disk'[x] = d
    BY <1>7, <1>12, Zenon
  <2> QED
    BY <1>1, <1>2, <1>12, <2>2, <2>3, Zenon DEF Saved, LogBlock
<1>16. Saved(1 .. tail - 1)'
  <2>1. \A i \in 1 .. tail - 1 : i \in DOMAIN lh /\ i # tail
    BY <1>6 DEF IInv, Control, LogTypes
  <2>2. ASSUME NEW i \in 1 .. tail - 1 PROVE disk'[LogBlock(i)] = Latest'[lh'[i]]
    <3>1. LogBlock(i) \in Blocks /\ LogBlock(i) # x
      BY <1>1, <2>1, LogBlocks, Zenon DEF LogBlock
    <3>2. disk'[LogBlock(i)] = disk[LogBlock(i)]
      BY <1>12, <3>1, Zenon
    <3> QED
      BY <1>2, <1>12, <1>13, <3>2, Zenon DEF Saved
  <2> QED
    BY <1>2, <2>2, Zenon DEF Saved
<1>17. Phase("log release from")'
  BY <1>13, <1>15, <1>16, Zenon DEF Phase, InInstall
<1>18. Phases'
  BY <1>3, <1>10, <1>17, PhasesKept, Zenon DEF IInv, Control, CInv
<1>19. InOp' = InOp
  BY <1>3, <1>10, InOpKept, Zenon
<1>20. Current' = Current
  BY <1>2, <1>12, <1>14, Zenon DEF Current
<1> QED
  BY <1>12, <1>14, <1>18, <1>19, <1>20, Zenon DEF Kept, Unseen, CInv

(* write_head: the commit, and the erasure of what is installed. *)
LEMMA HeadCopySees ==
  ASSUME IInv, IInv', CInv, NEW p \in Procs, th[p].pc = "head copy", DiskWrite(Got(p), lh),
         Goto(p, "head release"), UNCHANGED logVars
  PROVE  Kept
<1>1. PICK b : b = Got(p)
  BY Zenon
<1>2. /\ {"head copy", "head release"} \subseteq Working \cap InHead \cap Single \cap Locs
      /\ {"head copy", "head release"} \cap InInstall = {}
      /\ {"head copy", "head release"} \cap InOpLocs = {} /\ "head copy" \notin Calls
  BY Zenon DEF Working, InHead, InInstall, Single, Locs, InOpLocs, Calls
<1>3. /\ DiskWrite(b, lh) /\ th' = [th EXCEPT ![p].pc = "head release"]
      /\ UNCHANGED <<lh, tail, booting>>
  BY <1>1, Zenon DEF Goto, logVars
<1>4. b = th[p].held[1] /\ b \in Bufs /\ lh \in Contents
  BY <1>1, <1>2, HoldsOne, Zenon DEF IInv, Control, LogTypes, Contents
<1>5. Place("head copy") /\ Loc(p) = "head copy"
  BY <1>2, PlaceNow, Zenon
<1>6. buf[b].blockno = Header /\ Header \in Blocks \ Home
  BY <1>4, <1>5, HeaderBlock, Zenon DEF IInv, Control, Targets, Target, InHand
<1>7. \A a \in Bufs : buf'[a].blockno = buf[a].blockno
  BY <1>3, <1>4, Bwritten, Zenon DEF IInv, Cache
<1>8. Goes(p, "head copy", "head release")
  BY <1>2, <1>3, <1>7, MovesGoes, Zenon DEF IInv, Cache
<1>9. SamePins
  BY <1>2, <1>3, <1>8, PinsKept, Zenon
<1>10. /\ Clean' /\ Latest' = Latest
       /\ disk'[Header] = lh /\ \A z \in Blocks \ {Header} : disk'[z] = disk[z]
  <2>1. Clean
    BY Zenon DEF CInv
  <2>2. /\ Clean' /\ Latest' = Latest /\ disk'[buf[b].blockno] = lh
        /\ \A z \in Blocks \ {buf[b].blockno} : disk'[z] = disk[z]
    BY <1>3, <1>4, <1>6, <1>9, <2>1, WritesLog, Zenon
  <2> QED
    BY <1>6, <2>2, Zenon
<1>11. disk'[Header] = lh /\ \A h \in Home : disk'[h] = disk[h] /\ h # Header
  BY <1>6, <1>10, LogAssumption, Zenon
<1>12. \A i \in DOMAIN lh : disk'[LogBlock(i)] = disk[LogBlock(i)]
  BY <1>10, LogBlocks, Zenon
<1>13. DurableIs /\ DurableIs' /\ LatestIs
  <2>1. DurableIs /\ DurableIs'
    BY DurableAt, PTL
  <2> QED
    BY <2>1, LatestAt, Zenon DEF CInv
<1>14. Phase("head copy")
  BY <1>2, <1>5, Zenon DEF CInv, Phases
<1>15. InOp' = InOp
  BY <1>2, <1>8, InOpKept, Zenon
<1>16. CASE lh = <<>>
  <2>1. Installed(disk[Header], DOMAIN disk[Header])
    BY <1>14, <1>16, Zenon DEF Phase
  <2>2. ASSUME NEW h \in Home PROVE Durable'[h] = Durable[h]
    <3>1. DOMAIN disk'[Header] = {}
      BY <1>11, <1>16, NoIndex, Zenon
    <3>2. Durable'[h] = disk[h]
      BY <1>11, <1>13, <3>1, Zenon DEF DurableIs
    <3>3. CASE \A i \in DOMAIN disk[Header] : disk[Header][i] # h
      BY <1>13, <3>2, <3>3, Zenon DEF DurableIs
    <3>4. ASSUME NEW i \in DOMAIN disk[Header], disk[Header][i] = h
          PROVE  Durable[h] = disk[h]
      BY <1>13, <2>1, <3>4, Zenon DEF DurableIs, Installed
    <3> QED
      BY <3>2, <3>3, <3>4, Zenon
  <2>3. Durable' = Durable
    BY <1>13, <2>2, Zenon DEF DurableIs
  <2>4. DOMAIN lh' = {}
    BY <1>3, <1>16, NoIndex, Zenon
  <2>5. Phase("head release")'
    BY <1>3, <1>11, <2>4, Zenon DEF Phase, InLog, InInstall, Saved
  <2>6. Phases'
    BY <1>2, <1>8, <2>5, PhasesKept, Zenon DEF IInv, Control, CInv
  <2>7. Current' = Current
    BY <1>3, <1>10, <2>3, Zenon DEF Current
  <2> QED
    BY <1>10, <1>15, <2>3, <2>6, <2>7, Zenon DEF Kept, Unseen, CInv
<1>17. CASE lh # <<>>
  <2>1. Saved(DOMAIN lh) /\ booting = NIL
    BY <1>2, <1>5, <1>14, <1>17, Zenon DEF Phase, Place
  <2>2. ASSUME NEW h \in Home PROVE Durable'[h] = Latest[h]
    <3>1. ASSUME NEW i \in DOMAIN lh, lh[i] = h PROVE Durable'[h] = Latest[h]
      <4>1. Durable'[h] = disk[LogBlock(i)]
        BY <1>11, <1>12, <1>13, <3>1, Zenon DEF DurableIs
      <4> QED
        BY <2>1, <3>1, <4>1, Zenon DEF Saved
    <3>2. CASE \A i \in DOMAIN lh : lh[i] # h
      <4>1. Durable'[h] = disk[h]
        BY <1>11, <1>13, <3>2, Zenon DEF DurableIs
      <4>2. ~Pinned(h)
        BY <3>2, Zenon DEF Pinned
      <4> QED
        BY <1>13, <4>1, <4>2, Zenon DEF LatestIs
    <3> QED
      BY <3>1, <3>2, Zenon
  <2>3. Durable' = Latest
    BY <1>13, <2>2, Zenon DEF DurableIs, LatestIs
  <2>4. Saved(DOMAIN lh)'
    BY <1>3, <1>10, <1>12, <2>1, Zenon DEF Saved
  <2>5. Phase("head release")'
    BY <1>3, <1>11, <2>4, Zenon DEF Phase, InLog, InInstall
  <2>6. Phases'
    BY <1>2, <1>8, <2>5, PhasesKept, Zenon DEF IInv, Control, CInv
  <2>7. Current = Latest /\ Current' = Latest
    BY <1>3, <1>10, <2>1, Zenon DEF Current
  <2>8. InOp = {}
    <3>1. committing
      BY <1>2, <1>5, <2>1, Zenon DEF IInv, Control, Turns
    <3>2. Cardinality(InOp) = 0 /\ InOp \in SUBSET Procs
      BY <3>1, Zenon DEF IInv, Control, Turns, InOp
    <3> QED
      BY <3>2, Zenon DEF IInv, Cache, Elementary
  <2>9. AD!Commit
    BY <1>15, <2>3, <2>7, <2>8, Zenon DEF AD!Commit
  <2> QED
    BY <1>10, <2>6, <2>9, Zenon DEF Kept, CInv, AD!Next
<1> QED
  BY <1>16, <1>17, Zenon

LEMMA WriteHeadSees ==
  ASSUME IInv, IInv', CInv, NEW p \in Procs, WriteHead(p)
  PROVE  Kept
<1>1. UNCHANGED logVars
  BY Zenon DEF WriteHead
<1>2. CASE th[p].pc = "head" /\ Bget(p, Header, "head copy")
  <2>1. {"head", "head copy"} \subseteq Locs /\ Reads("head", "head copy")
    BY Zenon DEF Reads, Locs, Free, Single
  <2> QED
    BY <1>1, <1>2, <2>1, HeaderBlock, ReadSees, Zenon
<1>3. CASE th[p].pc = "head copy" /\ Bwrite(p, Got(p), lh, "head release")
  BY <1>1, <1>3, WriteHeadCopies, HeadCopySees, Zenon DEF IInv
<1>4. CASE /\ th[p].pc = "head release"
           /\ Brelse(p, 1, IF lh = <<>> THEN "done" ELSE "install")
  BY <1>1, <1>4, HeadReleaseSees, Zenon
<1> QED
  BY <1>2, <1>3, <1>4, Zenon DEF WriteHead, At

(* install_trans: a block goes home. *)
LEMMA NextInstalled ==
  ASSUME LogTypes, tail \in DOMAIN lh, tail' = tail + 1, NEW i \in 1 .. tail' - 1
  PROVE  i \in DOMAIN lh /\ (i = tail \/ (i \in 1 .. tail - 1 /\ i # tail))
BY DEF LogTypes

LEMMA InstallCopySees ==
  ASSUME IInv, IInv', CInv, NEW p \in Procs, InstallCopy(p)
  PROVE  Kept
<1>1. PICK c, b, d, x : /\ c = th[p].held[1] /\ b = th[p].held[2]
                        /\ d = buf[c].data /\ x = lh[tail]
  BY Zenon
<1>2. /\ th[p].pc = "install copy" /\ tail' = tail + 1
      /\ th' = [th EXCEPT ![p].pc = "install release log"]
      /\ UNCHANGED <<lh, booting>>
  BY InstallOwns, Zenon DEF InstallCopy, At, IInv, Goto
<1>3. /\ buf' = [buf EXCEPT ![b].data = d,
                            ![b].refcnt = IF booting = NIL THEN @ - 1 ELSE @]
      /\ disk' = [disk EXCEPT ![buf[b].blockno] = d]
  BY <1>1, InstallOwns, Zenon DEF InstallCopy, IInv
<1>4. /\ {"install copy", "install release log"} \subseteq
            Working \cap InInstall \cap Double \cap Locs
      /\ {"install copy", "install release log"} \cap InOpLocs = {}
      /\ "install copy" \notin Calls
  BY Zenon DEF Working, InInstall, Double, Locs, InOpLocs, Calls
<1>5. b \in Bufs /\ c \in Bufs /\ buf[b].blockno \in Blocks /\ buf[c].valid /\ buf[b].valid
  BY <1>1, <1>2, <1>4, HoldsTwo, Zenon DEF IInv
<1>6. Place("install copy") /\ Loc(p) = "install copy"
  BY <1>2, <1>4, PlaceNow, Zenon
<1>7. tail \in DOMAIN lh
  BY <1>2, <1>4, <1>6, NotHeader, Zenon DEF Place
<1>8. /\ x \in Home /\ x \in Blocks /\ x # Header
      /\ LogBlock(tail) \in Blocks \ Home
      /\ buf[c].blockno = LogBlock(tail) /\ buf[b].blockno = x
  <2>1. buf[c].blockno = LogBlock(tail) /\ buf[b].blockno = x
    BY <1>1, <1>6, Zenon DEF IInv, Control, Targets, Target, InHand
  <2> QED
    BY <1>1, <1>7, <2>1, LogBlocks, HeaderBlock, LogAssumption, Zenon
<1>9. /\ d \in Contents /\ buf \in [Bufs -> Buffers] /\ disk \in [Blocks -> Contents]
  <2>1. buf \in [Bufs -> Buffers] /\ disk \in [Blocks -> Contents]
    BY Zenon DEF IInv, Cache, Types
  <2> QED
    BY <1>1, <1>5, <2>1, Zenon DEF Buffers
<1>10. /\ \A a \in Bufs \ {b} : buf'[a] = buf[a]
       /\ disk'[x] = d /\ \A y \in Blocks \ {x} : disk'[y] = disk[y]
  <2>1. /\ \A a \in Bufs \ {b} : buf'[a] = buf[a]
        /\ \A y \in Blocks : disk'[y] = IF y = x THEN d ELSE disk[y]
    BY <1>3, <1>5, <1>8, <1>9, InstallCopied, Zenon
  <2> QED
    BY <1>8, <2>1, Zenon
<1>11. buf'[b].blockno = x /\ buf'[b].valid /\ buf'[b].data = d
  BY <1>3, <1>5, <1>8, <1>9, Zenon DEF Buffers
<1>12. Goes(p, "install copy", "install release log")
  <2>1. \A a \in Bufs : buf'[a].blockno = buf[a].blockno
    BY <1>8, <1>10, <1>11, Zenon
  <2> QED
    BY <1>2, <1>4, <2>1, MovesGoes, Zenon DEF IInv, Cache
<1>13. ~Pinned(x)' /\ \A y : y # x => (Pinned(y)' <=> Pinned(y))
  <2>1. Installing /\ Installing'
    BY <1>12, Zenon DEF Goes, Installing
  <2> QED
    BY <1>1, <1>2, <1>7, <2>1, InstallPins, Zenon DEF IInv, Control, Lists
<1>14. \A a \in Bufs \ {b} : buf[a].blockno # x
  BY <1>5, <1>8, OtherBuffers, Zenon
<1>15. Clean'
  <2> SUFFICES ASSUME NEW a \in Bufs, buf'[a].valid, buf'[a].blockno \in Blocks,
                      ~Pinned(buf[a].blockno)'
               PROVE  buf'[a].data = disk'[buf'[a].blockno]
    BY Zenon DEF Clean
  <2>1. CASE a = b
    BY <1>10, <1>11, <2>1, Zenon
  <2>2. CASE a # b
    <3>1. buf'[a] = buf[a] /\ buf[a].blockno # x
      BY <1>10, <1>14, <2>2, Zenon
    <3>2. ~Pinned(buf[a].blockno)
      BY <1>13, <3>1, Zenon
    <3>3. buf[a].data = disk[buf[a].blockno]
      BY <3>1, <3>2, Zenon DEF CInv, Clean
    <3> QED
      BY <1>10, <3>1, <3>3, Zenon
  <2> QED
    BY <2>1, <2>2, Zenon
<1>16. DurableIs /\ DurableIs' /\ LatestIs /\ LatestIs'
  <2>1. DurableIs /\ DurableIs'
    BY DurableAt, PTL
  <2>2. (IInv /\ Clean => LatestIs)'
    BY LatestAt, PTL
  <2> QED
    BY <1>15, <2>1, <2>2, LatestAt, Zenon DEF CInv
<1>17. Phase("install copy")
  BY <1>4, <1>6, Zenon DEF CInv, Phases
<1>18. /\ disk[Header] = lh /\ Installed(lh, 1 .. tail - 1)
       /\ booting = NIL => Saved(DOMAIN lh)
  BY <1>4, <1>17, Zenon DEF Phase
<1>19. disk'[Header] = lh /\ \A i \in DOMAIN lh : disk'[LogBlock(i)] = disk[LogBlock(i)]
  BY <1>8, <1>10, <1>18, LogBlocks, HeaderBlock, Zenon
<1>20. d = disk[LogBlock(tail)]
  <2>1. ~Pinned(LogBlock(tail))
    BY <1>8, LogBlocks, Zenon DEF Pinned
  <2> QED
    BY <1>1, <1>5, <1>8, <2>1, Zenon DEF CInv, Clean
<1>21. Durable' = Durable
  <2>1. ASSUME NEW h \in Home PROVE Durable'[h] = Durable[h]
    <3>1. ASSUME NEW i \in DOMAIN lh, lh[i] = h PROVE Durable'[h] = Durable[h]
      <4>1. Durable[h] = disk[LogBlock(i)]
        BY <1>16, <1>18, <3>1, Zenon DEF DurableIs
      <4>2. Durable'[h] = disk'[LogBlock(i)]
        BY <1>16, <1>19, <3>1, Zenon DEF DurableIs
      <4> QED
        BY <1>19, <4>1, <4>2, Zenon
    <3>2. CASE \A i \in DOMAIN lh : lh[i] # h
      <4>1. Durable[h] = disk[h]
        BY <1>16, <1>18, <3>2, Zenon DEF DurableIs
      <4>2. Durable'[h] = disk'[h]
        BY <1>16, <1>19, <3>2, Zenon DEF DurableIs
      <4>3. h # x /\ h \in Blocks
        BY <1>1, <1>7, <3>2, LogAssumption, Zenon
      <4> QED
        BY <1>10, <4>1, <4>2, <4>3, Zenon
    <3> QED
      BY <3>1, <3>2, Zenon
  <2> QED
    BY <1>16, <2>1, Zenon DEF DurableIs
<1>22. booting = NIL => Latest' = Latest
  <2> SUFFICES ASSUME booting = NIL PROVE Latest' = Latest
    BY Zenon
  <2>1. Latest'[x] = Latest[x]
    <3>1. Latest'[x] = d
      BY <1>8, <1>10, <1>13, <1>16, Zenon DEF LatestIs
    <3>2. Latest[x] = disk[LogBlock(tail)]
      BY <1>1, <1>7, <1>18, Zenon DEF Saved
    <3> QED
      BY <1>20, <3>1, <3>2, Zenon
  <2>2. ASSUME NEW h \in Home, h # x PROVE Latest'[h] = Latest[h]
    <3>1. h \in Blocks
      BY LogAssumption, Zenon
    <3>2. CASE Pinned(h)
      <4>1. PICK a \in Bufs : buf[a].blockno = h /\ buf[a].valid
        BY <3>1, <3>2, Zenon DEF IInv, Cache, Pins
      <4>2. buf'[a] = buf[a]
        BY <1>8, <1>10, <2>2, <4>1, Zenon
      <4>3. Latest[h] = buf[a].data
        BY <1>16, <4>1, Zenon DEF LatestIs
      <4>4. Latest'[h] = buf'[a].data
        BY <1>16, <4>1, <4>2, Zenon DEF LatestIs
      <4> QED
        BY <4>2, <4>3, <4>4, Zenon
    <3>3. CASE ~Pinned(h)
      <4>1. Latest[h] = disk[h]
        BY <1>16, <3>3, Zenon DEF LatestIs
      <4>2. Latest'[h] = disk'[h]
        BY <1>13, <1>16, <2>2, <3>3, Zenon DEF LatestIs
      <4> QED
        BY <1>10, <2>2, <3>1, <4>1, <4>2, Zenon
    <3> QED
      BY <3>2, <3>3, Zenon
  <2> QED
    BY <1>16, <2>1, <2>2, Zenon DEF LatestIs
<1>23. Installed(lh, 1 .. tail - 1)'
  <2>1. ASSUME NEW i \in 1 .. tail' - 1 PROVE disk'[lh[i]] = disk'[LogBlock(i)]
    <3>1. i \in DOMAIN lh /\ (i = tail \/ (i \in 1 .. tail - 1 /\ i # tail))
      BY <1>2, <1>7, NextInstalled, Zenon DEF IInv, Control
    <3>2. CASE i = tail
      BY <1>1, <1>7, <1>10, <1>19, <1>20, <3>2, Zenon
    <3>3. CASE i \in 1 .. tail - 1 /\ i # tail
      <4>1. lh[i] \in Blocks /\ lh[i] # x
        BY <1>1, <1>7, <3>1, <3>3, LogBlocks, LogAssumption, Zenon
           DEF IInv, Control, Lists, Distinct
      <4> QED
        BY <1>10, <1>18, <1>19, <3>1, <3>3, <4>1, Zenon DEF Installed
    <3> QED
      BY <3>1, <3>2, <3>3, Zenon
  <2> QED
    BY <1>2, <2>1, Zenon DEF Installed, LogBlock
<1>24. (booting = NIL => Saved(DOMAIN lh))'
  BY <1>2, <1>18, <1>19, <1>22, Zenon DEF Saved, LogBlock
<1>25. Phase("install release log")'
  BY <1>2, <1>19, <1>23, <1>24, Zenon DEF Phase, InLog
<1>26. Phases'
  BY <1>4, <1>12, <1>25, PhasesKept, Zenon DEF IInv, Control, CInv
<1>27. InOp' = InOp
  BY <1>4, <1>12, InOpKept, Zenon
<1>28. Current' = Current
  BY <1>2, <1>21, <1>22, Zenon DEF Current
<1> QED
  BY <1>15, <1>21, <1>26, <1>27, <1>28, Zenon DEF Kept, Unseen, CInv

(* What users of the disk see are versions. *)
LEMMA LatestVersions ==
  ASSUME IInv, Clean
  PROVE  Latest \in [Home -> Versions]
<1>1. AnyVersion \subseteq Versions
  BY DEF AnyVersion, Version, Versions
<1>2. LatestIs
  BY LatestAt, Zenon
<1>3. ASSUME NEW h \in Home PROVE Latest[h] \in Versions
  <2>1. h \in Blocks /\ Kind(h) = AnyVersion
    BY LogAssumption, HeaderBlock, Zenon DEF Kind
  <2>2. CASE Pinned(h)
    <3>1. PICK a \in Bufs : buf[a].blockno = h /\ buf[a].valid
      BY <2>1, <2>2, Zenon DEF IInv, Cache, Pins
    <3>2. buf[a].data \in AnyVersion
      BY <2>1, <3>1, Zenon DEF IInv, Cache, Kinds
    <3> QED
      BY <1>1, <1>2, <3>1, <3>2, Zenon DEF LatestIs
  <2>3. CASE ~Pinned(h)
    <3>1. disk[h] \in AnyVersion
      BY <2>1, Zenon DEF IInv, Cache, Kinds
    <3> QED
      BY <1>1, <1>2, <2>3, <3>1, Zenon DEF LatestIs
  <2> QED
    BY <2>2, <2>3, Zenon
<1> QED
  BY <1>2, <1>3, Zenon DEF LatestIs

(* log_write: the only step that changes what bread shows. *)
LEMMA LogWriteSees ==
  ASSUME IInv, IInv', CInv, NEW p \in Procs, LogWrite(p)
  PROVE  Kept
<1>1. PICK b, x, d : b = Got(p) /\ x = buf[b].blockno /\ d = NextVersion(buf[b].data)
  BY Zenon
<1>2. /\ th[p].pc = "modify"
      /\ UNCHANGED <<outstanding, committing, tail, booting>>
  BY Zenon DEF LogWrite, At
<1>3. ASSUME NEW msg, Panic(msg), UNCHANGED <<lh, wrote>>
      PROVE  Kept
  <2>1. UNCHANGED <<buf, disk, th, logVars>>
    BY <1>2, <1>3, Zenon DEF Panic, logVars
  <2> QED
    BY <2>1, HaltSees, Zenon
<1>4. ASSUME buf' = [buf EXCEPT ![b].data = NextVersion(@),
                                ![b].refcnt = IF Logged(x) THEN @ ELSE @ + 1],
             lh' = IF Logged(x) THEN lh ELSE Append(lh, x),
             th' = [th EXCEPT ![p].pc = "release"], disk' = disk
      PROVE  Kept
  <2>1. /\ {"modify", "release"} \subseteq (Locs \cap Single \cap InOpLocs) \ Working
        /\ {"modify", "release"} \cap InInstall = {} /\ "modify" \notin Calls
    BY Zenon DEF Locs, Single, Working, InLog, InHead, InInstall, InRecover,
       Calls, InOpLocs
  <2>2. b \in Bufs /\ buf[b].valid /\ x \in Blocks
    BY <1>1, <1>2, <2>1, HoldsOne, Zenon DEF IInv
  <2>3. Loc(p) = "modify"
    BY <1>2, Zenon DEF Loc
  <2>4. x \in Home
    <3>1. b = th[p].held[1]
      BY <1>1, <1>2, <2>1, HoldsOne, Zenon DEF IInv
    <3> QED
      BY <1>1, <2>3, <3>1, Zenon DEF IInv, Control, Targets, Target, InHand
  <2>5. booting = NIL /\ ~Installing /\ \A q \in Procs : Loc(q) \notin Working
    BY <2>1, <2>3, NoWorker, Zenon
  <2>6. /\ buf \in [Bufs -> Buffers]
    BY Zenon DEF IInv, Cache, Types
  <2>7. /\ \A a \in Bufs \ {b} : buf'[a] = buf[a]
        /\ buf'[b].blockno = x /\ buf'[b].valid
    BY <1>1, <1>4, <2>2, <2>6, Zenon DEF Buffers
  <2>8. Goes(p, "modify", "release")
    <3>1. \A a \in Bufs : buf'[a].blockno = buf[a].blockno
      BY <1>1, <2>7, Zenon
    <3> QED
      BY <1>2, <1>4, <2>1, <3>1, MovesGoes, Zenon DEF IInv, Cache
  <2>9. Pinned(x)' /\ \A y : y # x => (Pinned(y)' <=> Pinned(y))
    <3>1. ~Installing'
      BY <2>5, <2>8, Zenon DEF Installing, Goes
    <3>2. /\ \E i \in DOMAIN lh' : lh'[i] = x
          /\ \A y : y # x => ((\E i \in DOMAIN lh' : lh'[i] = y) <=>
                              (\E i \in DOMAIN lh : lh[i] = y))
      BY <1>4, <2>4, LogTakes, Zenon DEF IInv, Control, LogTypes, Lists
    <3> QED
      BY <1>2, <2>5, <3>1, <3>2, Zenon DEF Pinned
  <2>10. \A a \in Bufs \ {b} : buf[a].blockno # x
    BY <1>1, <2>2, OtherBuffers, Zenon
  <2>11. Clean'
    <3> SUFFICES ASSUME NEW a \in Bufs, buf'[a].valid, buf'[a].blockno \in Blocks,
                        ~Pinned(buf[a].blockno)'
                 PROVE  buf'[a].data = disk'[buf'[a].blockno]
      BY Zenon DEF Clean
    <3>1. a # b
      BY <2>7, <2>9, Zenon
    <3>2. buf'[a] = buf[a] /\ buf[a].blockno # x
      BY <2>7, <2>10, <3>1, Zenon
    <3>3. ~Pinned(buf[a].blockno)
      BY <2>9, <3>2, Zenon
    <3>4. buf[a].data = disk[buf[a].blockno]
      BY <3>2, <3>3, Zenon DEF CInv, Clean
    <3> QED
      BY <1>4, <3>2, <3>4, Zenon
  <2>12. /\ LatestIs /\ LatestIs' /\ Latest' \in [Home -> Versions]
    <3>1. (IInv /\ Clean => LatestIs)' /\ (IInv /\ Clean => Latest \in [Home -> Versions])'
      BY LatestAt, LatestVersions, PTL
    <3> QED
      BY <2>11, <3>1, LatestAt, Zenon DEF CInv
  <2>13. ASSUME NEW h \in Home \ {x} PROVE Latest'[h] = Latest[h]
    <3>1. h \in Blocks /\ h # x
      BY LogAssumption, Zenon
    <3>2. CASE Pinned(h)
      <4>1. PICK a \in Bufs : buf[a].blockno = h /\ buf[a].valid
        BY <3>1, <3>2, Zenon DEF IInv, Cache, Pins
      <4>2. buf'[a] = buf[a]
        BY <1>1, <2>7, <3>1, <4>1, Zenon
      <4>3. Latest[h] = buf[a].data
        BY <2>12, <4>1, Zenon DEF LatestIs
      <4>4. Latest'[h] = buf'[a].data
        BY <2>12, <4>1, <4>2, Zenon DEF LatestIs
      <4> QED
        BY <4>2, <4>3, <4>4, Zenon
    <3>3. CASE ~Pinned(h)
      <4>1. Latest[h] = disk[h]
        BY <2>12, <3>3, Zenon DEF LatestIs
      <4>2. Latest'[h] = disk'[h]
        BY <2>9, <2>12, <3>1, <3>3, Zenon DEF LatestIs
      <4> QED
        BY <1>4, <4>1, <4>2, Zenon
    <3> QED
      BY <3>2, <3>3, Zenon
  <2>14. Durable' = Durable /\ Current = Latest /\ Current' = Latest'
    BY <1>2, <1>4, <2>5, DurableKept, Zenon DEF Current
  <2>15. InOp' = InOp /\ p \in InOp
    <3>1. InOp' = InOp
      BY <2>1, <2>8, InOpKept, Zenon
    <3> QED
      BY <2>3, <3>1, Zenon DEF InOp
  <2>16. AD!Write(p)
    BY <2>4, <2>12, <2>13, <2>14, <2>15, Zenon DEF AD!Write
  <2>17. Phases'
    <3>1. disk'[Header] = disk[Header]
      BY <1>4, Zenon
    <3> QED
      BY <2>1, <2>5, <2>8, <3>1, PhasesKept, Zenon DEF IInv, Control, CInv
  <2> QED
    BY <2>11, <2>16, <2>17, Zenon DEF Kept, CInv, AD!Next
<1>5. CASE Len(lh) >= LOGSIZE \/ Len(lh) >= NLog - 1
  <2>1. Panic("too big a transaction") /\ UNCHANGED <<lh, wrote>>
    BY <1>5, Zenon DEF LogWrite
  <2> QED
    BY <1>3, <2>1, Zenon
<1>6. CASE ~(Len(lh) >= LOGSIZE \/ Len(lh) >= NLog - 1) /\ outstanding < 1
  <2>1. Panic("log_write outside of trans") /\ UNCHANGED <<lh, wrote>>
    BY <1>6, Zenon DEF LogWrite
  <2> QED
    BY <1>3, <2>1, Zenon
<1>7. CASE ~(Len(lh) >= LOGSIZE \/ Len(lh) >= NLog - 1) /\ ~(outstanding < 1)
  <2>1. /\ buf' = [buf EXCEPT ![b].data = NextVersion(@),
                              ![b].refcnt = IF Logged(x) THEN @ ELSE @ + 1]
        /\ lh' = IF Logged(x) THEN lh ELSE Append(lh, x)
        /\ th' = [th EXCEPT ![p].pc = "release"] /\ disk' = disk
    BY <1>1, <1>7, Zenon DEF LogWrite, Goto
  <2> QED
    BY <1>4, <2>1, Zenon
<1> QED
  BY <1>5, <1>6, <1>7, Zenon

(* Nothing is pinned and the header block is empty: the disk, what it      *)
(* recovers to and what bread shows are the same.                          *)
LEMMA AllHome ==
  ASSUME IInv, Clean, disk[Header] = <<>>, lh = <<>>
  PROVE  Durable = Latest
<1>1. DurableIs /\ LatestIs
  BY DurableAt, LatestAt, Zenon
<1>2. DOMAIN disk[Header] = {} /\ DOMAIN lh = {}
  BY NoIndex, Zenon
<1>3. \A h \in Home : Durable[h] = disk[h] /\ Latest[h] = disk[h]
  <2>1. \A h \in Home : ~Pinned(h)
    BY <1>2, Zenon DEF Pinned
  <2>2. \A h \in Home : Durable[h] = disk[h]
    BY <1>1, <1>2, Zenon DEF DurableIs
  <2> QED
    BY <1>1, <2>1, <2>2, Zenon DEF LatestIs
<1> QED
  BY <1>1, <1>3, Zenon DEF DurableIs, LatestIs

LEMMA DoneSees ==
  ASSUME IInv, IInv', CInv, NEW p \in Procs, Done(p)
  PROVE  Kept
<1>1. /\ th[p].pc = "done" /\ booting' = NIL
      /\ UNCHANGED <<buf, lru, disk, lh, tail>>
  BY Zenon DEF Done, At
<1>2. /\ {"done", "idle"} \subseteq Locs \cap Free /\ "done" \in Working
      /\ "idle" \notin Working /\ {"done", "idle"} \cap InInstall = {}
      /\ {"done", "idle"} \cap InOpLocs = {}
  BY Zenon DEF Locs, Free, Working, InLog, InHead, InInstall, InRecover, InOpLocs
<1>3. Place("done") /\ Loc(p) = "done"
  BY <1>1, <1>2, PlaceNow, Zenon
<1>4. lh = <<>> /\ DOMAIN lh = {}
  BY <1>3, NoIndex, Zenon DEF Place, InLog, InInstall
<1>5. SamePins
  BY <1>1, <1>4, Zenon DEF SamePins, Pinned
<1>6. disk[Header] = <<>>
  BY <1>2, <1>3, Zenon DEF CInv, Phases, Phase
<1>7. Clean' /\ Latest' = Latest /\ Durable' = Durable
  <2>1. DataKept
    BY <1>1, SameData, Zenon
  <2> QED
    BY <1>1, <1>5, <2>1, QuietContents, Zenon DEF CInv, Quiet
<1>8. Durable = Latest
  BY <1>4, <1>6, AllHome, Zenon DEF CInv
<1>9. Current' = Current
  BY <1>7, <1>8, Zenon DEF Current
<1>10. Phases' /\ InOp' = InOp
  <2>1. CASE booting # NIL
    <3>1. th' = [q \in Procs |-> Thread("idle")]
      BY <2>1, Zenon DEF Done
    <3>2. \A q \in Procs : Loc(q)' = "idle"
      BY <3>1, Zenon DEF Loc, Thread
    <3>3. \A q \in Procs : Loc(q) \in {"done", "off"}
      <4>1. \A q \in Procs : th[q].pc \in {"done", "off"}
        BY <1>1, <2>1, Zenon DEF IInv, Control, Turns, LogTypes
      <4> QED
        BY <4>1, Zenon DEF Loc
    <3>4. InOp = {} /\ InOp' = {}
      BY <3>2, <3>3, Zenon DEF InOp
    <3> QED
      BY <1>1, <1>2, <1>6, <3>2, <3>4, Zenon DEF Phases
  <2>2. CASE booting = NIL
    <3>1. th' = Wakeup([th EXCEPT ![p].pc = "idle"]) /\ "idle" # "sleep"
      BY <2>2, Zenon DEF Done
    <3>2. Goes(p, "done", "idle")
      BY <1>1, <1>2, <1>5, <3>1, JumpGoes, Zenon DEF IInv
    <3>3. InOp' = InOp
      BY <1>2, <3>2, InOpKept, Zenon
    <3>4. disk'[Header] = <<>>
      BY <1>1, <1>6, Zenon
    <3>5. Phases'
      BY <1>2, <3>2, <3>4, PhasesKept, Zenon DEF IInv, Control, CInv
    <3> QED
      BY <3>3, <3>5, Zenon
  <2> QED
    BY <2>1, <2>2, Zenon
<1> QED
  BY <1>7, <1>9, <1>10, Zenon DEF Kept, Unseen, CInv

(* A boot, the first or one after a crash, has nothing in memory. *)
LEMMA FreshContents ==
  Fresh => CInv /\ booting # NIL /\ Current = Durable /\ InOp = {}
<1> SUFFICES ASSUME Fresh
             PROVE  CInv /\ booting # NIL /\ Current = Durable /\ InOp = {}
  BY Zenon
<1>1. PICK p \in Procs : booting = p /\ th = Boot(p)
  BY Zenon DEF Fresh
<1>2. \A q \in Procs : Loc(q) = IF q = p THEN "recover" ELSE "off"
  BY <1>1, Zenon DEF Boot, Thread, Loc
<1>3. Clean
  BY Zenon DEF Clean, Fresh, BInit, FreshBuf
<1>4. Phases
  <2>1. "recover" \in Working /\ "off" \notin Working
    BY Zenon DEF Working, InLog, InHead, InInstall, InRecover
  <2>2. Phase("recover")
    BY Zenon DEF Phase, InLog, InInstall
  <2> QED
    BY <1>2, <2>1, <2>2, Zenon DEF Phases
<1>5. booting # NIL
  BY <1>1, BioAssumption, Zenon
<1>6. InOp = {}
  BY <1>2, Zenon DEF InOp
<1> QED
  BY <1>3, <1>4, <1>5, <1>6, Zenon DEF CInv, Current

LEMMA CrashSees ==
  ASSUME IInv, IInv', CInv, Crash
  PROVE  Kept
<1>1. disk' = disk
  BY Zenon DEF Crash
<1>2. Fresh'
  BY <1>1, Zenon DEF Crash, Fresh, BInit, IInv, Cache, Types, Kinds
<1>3. (Fresh => CInv /\ booting # NIL /\ Current = Durable /\ InOp = {})'
  BY FreshContents, PTL
<1>4. Durable' = Durable
  BY <1>1, DurableKept, Zenon
<1>5. AD!Crash
  BY <1>2, <1>3, <1>4, Zenon DEF AD!Crash
<1> QED
  BY <1>2, <1>3, <1>5, Zenon DEF Kept, AD!Next

LEMMA StutterSees ==
  ASSUME IInv, IInv', CInv, UNCHANGED vars
  PROVE  Kept
<1>1. UNCHANGED <<buf, disk, th, logVars>>
  BY Zenon DEF vars, bioVars
<1>2. ASSUME NEW p \in Procs PROVE Kept
  BY <1>1, HaltSees, Zenon
<1>3. ASSUME Procs = {} PROVE Kept
  <2>1. UNCHANGED <<lh, tail, booting>> /\ DataKept
    BY <1>1, SameData, Zenon DEF logVars
  <2>2. SamePins /\ InOp = {} /\ InOp' = {}
    BY <1>3, <2>1, Zenon DEF SamePins, Pinned, Installing, InOp
  <2>3. Clean' /\ Latest' = Latest /\ Durable' = Durable
    BY <1>1, <2>1, <2>2, QuietContents, Zenon DEF CInv, Quiet
  <2>4. Phases'
    BY <1>1, <1>3, Zenon DEF CInv, Phases
  <2> QED
    BY <2>1, <2>2, <2>3, <2>4, Zenon DEF Kept, Unseen, Current, CInv
<1> QED
  BY <1>2, <1>3, Zenon

LEMMA InitContents ==
  ASSUME Init, IInv
  PROVE  CInv /\ AD!Init
<1>1. disk = [b \in Blocks |-> IF b = Header THEN <<>> ELSE Version(0)]
  BY Zenon DEF Init
<1>2. Fresh
  BY Zenon DEF Init, Fresh, IInv, Cache, Types, Kinds
<1>3. CInv /\ Current = Durable /\ InOp = {}
  BY <1>2, FreshContents, Zenon
<1>4. Durable \in [Home -> Versions]
  <2>1. Durable = Latest
    <3>1. disk[Header] = <<>> /\ lh = <<>>
      BY <1>1, HeaderBlock, Zenon DEF Init
    <3> QED
      BY <1>3, <3>1, AllHome, Zenon DEF CInv
  <2> QED
    BY <1>3, <2>1, LatestVersions, Zenon DEF CInv
<1> QED
  BY <1>3, <1>4, Zenon DEF AD!Init

LEMMA NextContents ==
  ASSUME IInv, IInv', CInv, [Next]_vars
  PROVE  Kept
<1>1. ASSUME NEW p \in Procs, Step(p) PROVE Kept
  BY <1>1, BreadSees, BeginOpSees, LogWriteSees, OpBrelseSees, EndOpSees,
     OpBreadSees,
     CommitSees, WriteLogToSees, WriteLogFromSees, WriteLogCopySees, WriteLogReleaseSees,
     WriteHeadSees, InstallLogSees, InstallDstSees, InstallCopySees, InstallReleaseSees,
     DoneSees, ReadHeadSees, EndReadSees, Zenon DEF Step
<1>2. ASSUME NEW p \in Readers, StartRead(p) PROVE Kept
  BY <1>2, StartReadSees, LogAssumption, Zenon
<1> QED
  BY <1>1, <1>2, StartOpSees, CrashSees, StutterSees, Zenon DEF Next
=============================================================================
