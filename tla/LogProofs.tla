----------------------------- MODULE LogProofs -----------------------------
(***************************************************************************)
(* The log's threads on the buffer cache: proof that the cache keeps its   *)
(* promises to them, whatever they do.                                     *)
(***************************************************************************)
EXTENDS CacheProofs

(* A thread that works on the log comes to another place of its work. *)
LEMMA TurnsKept ==
  ASSUME Elementary, LogTypes, Turns, NEW p \in Procs, NEW from \in Locs, NEW to \in Locs,
         Goes(p, from, to), Keeps(p), UNCHANGED <<outstanding, committing, booting>>,
         lh' = lh \/ from \in Working \cup InOpLocs,
         from \in Working <=> to \in Working, from \in InOpLocs <=> to \in InOpLocs,
         from # "off", to # "off", to \in InRecover => from \in InRecover,
         from \notin {"commit"} \cup InLog => to \notin {"commit"} \cup InLog
  PROVE  Turns'
<1>1. Loc(p) = from /\ Loc(p)' = to
  BY Zenon DEF Goes
<1>2. \A q \in Procs \ {p} : \/ Loc(q)' = Loc(q)
                             \/ Loc(q) = "sleep" /\ Loc(q)' = "begin"
  BY Zenon DEF Goes
<1>3. \A q \in Procs : Loc(q)' \in Working <=> Loc(q) \in Working
  BY <1>1, <1>2 DEF Working, InLog, InHead, InInstall, InRecover
<1>4. InOp' = InOp
  <2>1. \A q \in Procs : Loc(q)' \in InOpLocs <=> Loc(q) \in InOpLocs
    BY <1>1, <1>2, Zenon DEF InOpLocs
  <2> QED
    BY <2>1, Zenon DEF InOp, InOpLocs
<1>5. ASSUME booting # NIL
      PROVE  /\ Loc(booting)' \in {"done"} \cup InHead \cup InInstall \cup InRecover
             /\ \A q \in Procs \ {booting} : th'[q].pc = "off"
             /\ ~committing'
  <2>1. booting \in Procs => booting = p
    <3>1. th[p].pc = "off" => Loc(p) = "off"
      BY Zenon DEF Loc
    <3> QED
      BY <1>1, <1>5, <3>1, Zenon DEF Turns
  <2>2. booting \in Procs
    BY <1>5, Zenon DEF LogTypes
  <2>3. from \in {"done"} \cup InHead \cup InInstall \cup InRecover
    BY <1>1, <1>5, <2>1, <2>2, Zenon DEF Turns
  <2>4. to \in {"done"} \cup InHead \cup InInstall \cup InRecover
    BY <2>3, Zenon DEF Working, InLog, InHead, InInstall, InRecover
  <2>5. Loc(booting)' = to
    BY <1>1, <2>1, <2>2, Zenon
  <2> QED
    BY <1>5, <2>1, <2>2, <2>4, <2>5, Zenon DEF Turns, Keeps
<1>6. ASSUME booting = NIL
      PROVE  /\ \A q \in Procs : Loc(q)' \notin {"off"} \cup InRecover
             /\ committing' <=> \E q \in Procs : Loc(q)' \in Working
  <2>1. \A q \in Procs : Loc(q) \notin {"off"} \cup InRecover
    BY <1>6, Zenon DEF Turns
  <2> QED
    BY <1>1, <1>2, <1>3, <1>6, <2>1, Zenon DEF Turns, InRecover
<1>7. booting' = NIL /\ outstanding' = 0 /\ ~committing' => lh' = <<>>
  <2>1. from \in InOpLocs => outstanding # 0
    <3> SUFFICES ASSUME from \in InOpLocs PROVE Cardinality(InOp) # 0
      BY Zenon DEF Turns
    <3>1. InOp \in SUBSET Procs /\ p \in InOp
      BY <1>1, Zenon DEF InOp, InOpLocs
    <3> QED
      BY <3>1, Zenon DEF Elementary
  <2>2. from \in Working /\ booting = NIL => committing
    BY <1>1, Zenon DEF Turns
  <2> QED
    BY <2>1, <2>2, Zenon DEF Turns
<1>8. \A q, r \in Procs : Loc(q)' \in Working /\ Loc(r)' \in Working => q = r
  BY <1>3, Zenon DEF Turns
<1>9. outstanding' = Cardinality(InOp)' /\ (committing' => outstanding' = 0)
  BY <1>4, Zenon DEF Turns
<1> QED
  BY <1>5, <1>6, <1>7, <1>8, <1>9, Zenon DEF Turns

LEMMA PositionsKept ==
  ASSUME Turns, Positions, NEW p \in Procs, NEW from \in Locs, NEW to \in Locs,
         Goes(p, from, to),
         \/ /\ from \in Working
            /\ to \in Working => Place(to)'
            /\ to \notin Working => tail' = 1
         \/ /\ from \notin Working /\ to \notin Working /\ tail' = tail
            /\ \/ lh' = lh /\ booting' = booting
               \/ \A q \in Procs : Loc(q) \notin Working
  PROVE  Positions'
<1>1. Loc(p) = from /\ Loc(p)' = to
  BY Zenon DEF Goes
<1>2. \A q \in Procs \ {p} : \/ Loc(q)' = Loc(q)
                             \/ Loc(q) \notin Working /\ Loc(q)' \notin Working
  BY Zenon DEF Goes, Working, InLog, InHead, InInstall, InRecover
<1>3. CASE from \in Working
  <2>1. \A q \in Procs \ {p} : Loc(q)' \notin Working
    BY <1>1, <1>2, <1>3, Zenon DEF Turns
  <2> QED
    BY <1>1, <1>3, <2>1, Zenon DEF Positions
<1>4. CASE from \notin Working
  <2>1. \A q \in Procs : Loc(q)' \in Working => Loc(q) \in Working /\ Loc(q)' = Loc(q)
    BY <1>1, <1>2, <1>4, Zenon
  <2>2. \A q \in Procs : Loc(q) \in Working => Loc(q)' \in Working
    BY <1>1, <1>2, <1>4, Zenon
  <2>3. ASSUME NEW q \in Procs, Loc(q)' \in Working PROVE Place(Loc(q))'
    <3>1. Loc(q) \in Working /\ Loc(q)' = Loc(q)
      BY <2>1, <2>3, Zenon
    <3>2. lh' = lh /\ booting' = booting /\ tail' = tail
      BY <1>4, <3>1, Zenon
    <3>3. Place(Loc(q))
      BY <3>1, Zenon DEF Positions
    <3> QED
      BY <3>1, <3>2, <3>3, Zenon DEF Place
  <2> QED
    BY <1>4, <2>2, <2>3, Zenon DEF Positions
<1> QED
  BY <1>3, <1>4, Zenon

LEMMA TargetsKept ==
  ASSUME Types, Hands, Turns, Targets, NEW p \in Procs, NEW from \in Locs, NEW to \in Locs,
         Goes(p, from, to), Keeps(p), Target(p)',
         \/ tail' = tail /\ lh' = lh
         \/ from \in Working
         \/ \A q \in Procs : Loc(q) \notin Working
  PROVE  Targets'
<1> SUFFICES ASSUME NEW q \in Procs, q # p PROVE Target(q)'
  BY Zenon DEF Targets
<1>1. Target(q)
  BY Zenon DEF Targets
<1>2. CASE Loc(q) = "sleep" /\ Loc(q)' = "begin"
  BY <1>2, Zenon DEF Target
<1>3. CASE Loc(q)' = Loc(q)
  <2>1. /\ th[q].held \in Seq(Bufs) /\ Len(th[q].held) = Count(Loc(q))
        /\ \A i \in DOMAIN th[q].held : InHand(q, i)' = InHand(q, i)
    BY Zenon DEF Types, Threads, Hands, Hand, Keeps
  <2>2. /\ Loc(q) \in Single \cup Double => InHand(q, 1)' = InHand(q, 1)
        /\ Loc(q) \in Double => InHand(q, 2)' = InHand(q, 2)
    BY <2>1 DEF Count
  <2>3. Loc(q) \notin Working \/ (tail' = tail /\ lh' = lh)
    BY Zenon DEF Turns, Goes
  <2>4. /\ Loc(q) \in {"modify", "release", "read"} => InHand(q, 1)' \in Home
        /\ Loc(q) \in {"head copy", "head release", "recover read"} =>
             InHand(q, 1)' = Header
    BY <1>1, <2>2, Zenon DEF Target, Single
  <2>5. Loc(q) \in {"log from", "log copy", "install dst", "install copy"} =>
          InHand(q, 1)' = LogBlock(tail')
    BY <1>1, <2>2, <2>3, Zenon DEF Target, Single, Double, Working, InLog, InInstall
  <2>6. Loc(q) \in {"log copy", "install copy"} => InHand(q, 2)' = lh'[tail']
    BY <1>1, <2>2, <2>3, Zenon DEF Target, Double, Working, InLog, InInstall
  <2> QED
    BY <1>3, <2>4, <2>5, <2>6, Zenon DEF Target, LogBlock
<1> QED
  BY <1>2, <1>3, Zenon DEF Goes

(* No thread goes anywhere. *)
LEMMA ControlStays ==
  ASSUME Types, Hands, Control,
         \A q \in Procs : /\ Loc(q)' = Loc(q)
                          /\ th'[q].pc = "off" <=> th[q].pc = "off"
                          /\ \A i \in 1 .. Count(Loc(q)) : InHand(q, i)' = InHand(q, i),
         disk' = disk, HeaderBuf', UNCHANGED <<logVars, ops>>
  PROVE  Control'
<1> USE DEF Control
<1>1. UNCHANGED <<lh, outstanding, committing, tail, wrote, booting, ops>>
  BY Zenon DEF logVars
<1>2. InOp' = InOp
  BY Zenon DEF InOp
<1>3. LogTypes' /\ Lists'
  BY <1>1, Zenon DEF LogTypes, Lists
<1>4. Turns'
  BY <1>1, <1>2, Zenon DEF Turns, LogTypes
<1>5. Positions'
  BY <1>1, Zenon DEF Positions, Place
<1>6. ASSUME NEW q \in Procs PROVE Target(q)'
  <2>1. Target(q) /\ Loc(q)' = Loc(q)
    BY Zenon DEF Targets
  <2>2. /\ Loc(q) \in Single \cup Double => InHand(q, 1)' = InHand(q, 1)
        /\ Loc(q) \in Double => InHand(q, 2)' = InHand(q, 2)
    BY DEF Count
  <2> QED
    BY <1>1, <2>1, <2>2, Zenon DEF Target, Single, Double, LogBlock
<1> QED
  BY <1>3, <1>4, <1>5, <1>6, Zenon DEF Targets

(* The two lemmas a move rests on: a worker's, and that of any other. *)
LEMMA WorkerMoves ==
  ASSUME Elementary, Types, Hands, Control, NEW p \in Procs,
         NEW from \in Working, NEW to \in Working, Goes(p, from, to), Keeps(p),
         UNCHANGED <<outstanding, committing, booting>>, LogTypes', Lists',
         to \in InRecover => from \in InRecover,
         from \notin {"commit"} \cup InLog => to \notin {"commit"} \cup InLog,
         Place(to)', Target(p)'
  PROVE  Control'
<1> USE DEF Control
<1>1. /\ from \in Locs /\ to \in Locs /\ from # "off" /\ to # "off"
      /\ from \notin InOpLocs /\ to \notin InOpLocs
  BY DEF Working, InLog, InHead, InInstall, InRecover, Locs, Free, Single, Double,
         InOpLocs
<1>2. Turns'
  BY <1>1, TurnsKept, Zenon
<1>3. Positions'
  BY <1>1, PositionsKept, Zenon
<1>4. Targets'
  BY <1>1, TargetsKept, Zenon
<1> QED
  BY <1>2, <1>3, <1>4, Zenon

LEMMA OpMoves ==
  ASSUME Elementary, Types, Hands, Control, NEW p \in Procs,
         NEW from \in Locs \ Working, NEW to \in Locs \ Working, Goes(p, from, to),
         Keeps(p), UNCHANGED <<outstanding, committing, booting, tail>>,
         LogTypes', Lists', from # "off", to # "off",
         from \in InOpLocs <=> to \in InOpLocs,
         lh' = lh \/ from \in InOpLocs, Target(p)'
  PROVE  Control'
<1> USE DEF Control
<1>1. to \notin InRecover /\ to \notin {"commit"} \cup InLog
  BY Zenon DEF Working
<1>2. Turns'
  BY <1>1, TurnsKept, Zenon
<1>3. ASSUME from \in InOpLocs PROVE \A q \in Procs : Loc(q) \notin Working
  <2>1. InOp \in SUBSET Procs /\ p \in InOp
    BY <1>3, Zenon DEF InOp, InOpLocs, Goes
  <2>2. outstanding # 0
    BY <2>1, Zenon DEF Turns, Elementary
  <2>3. booting = NIL
    <3>1. Loc(p) # "off" /\ Loc(p) \notin Working /\ (th[p].pc = "off" => Loc(p) = "off")
      BY Zenon DEF Goes, Loc
    <3> QED
      BY <3>1, Zenon DEF Turns, LogTypes, Working
  <2> QED
    BY <2>2, <2>3, Zenon DEF Turns
<1>4. Positions'
  BY <1>3, PositionsKept, Zenon
<1>5. Targets'
  BY <1>3, TargetsKept, Zenon
<1> QED
  BY <1>2, <1>4, <1>5, Zenon

-----------------------------------------------------------------------------
(* The steps *)

(* The block each asks for. *)
Wants(k, blk) ==
  /\ k \in {"modify", "read"} => blk \in Home
  /\ k \in {"head copy", "recover read"} => blk = Header
  /\ k \in {"log from", "install dst"} => blk = LogBlock(tail)
  /\ k \in {"log copy", "install copy"} => blk = lh[tail]

LEMMA ReadsCount ==
  ASSUME NEW from \in Locs, NEW k \in Locs, Reads(from, k)
  PROVE  /\ Count(from) \in {0, 1} /\ Count(k) = Count(from) + 1
         /\ Count(from) = 1 => from \in {"log from", "install dst"}
         /\ Count(from) = 1 => k \in {"log copy", "install copy"}
         /\ Count(from) = 0 => from \notin {"log from", "install dst"}
         /\ Count(from) = 0 => k \notin {"log copy", "install copy"}
<1>1. CASE from \in {"log from", "install dst"}
  <2>1. from \in Single /\ k \in {"log copy", "install copy"} /\ k \in Double
    BY <1>1, Zenon DEF Reads, Single, Double
  <2>2. Count(from) = 1 /\ Count(k) = 2
    BY <2>1, CountOf, Zenon
  <2>3. Count(from) \in {0, 1} /\ Count(k) = Count(from) + 1 /\ Count(from) # 0
    BY <2>2
  <2> QED
    BY <1>1, <2>1, <2>3, Zenon
<1>2. CASE from \notin {"log from", "install dst"}
  <2>1. from \in Free /\ k \notin {"log copy", "install copy"} /\ k \in Single
    BY <1>2, Zenon DEF Reads, Single, Free
  <2>2. Count(from) = 0 /\ Count(k) = 1
    BY <2>1, CountOf, Zenon
  <2>3. Count(from) \in {0, 1} /\ Count(k) = Count(from) + 1 /\ Count(from) # 1
    BY <2>2
  <2> QED
    BY <1>2, <2>1, <2>3, Zenon
<1> QED
  BY <1>1, <1>2, Zenon

LEMMA StillKept ==
  ASSUME IInv, UNCHANGED <<buf, lru, disk, th, logVars, ops>>
  PROVE  IInv'
<1> USE DEF IInv
<1>1. UNCHANGED <<buf, lru, disk, th, lh, booting, tail>>
  BY Zenon DEF logVars
<1>2. \A q \in Procs : Loc(q)' = Loc(q)
  BY <1>1, Zenon DEF Loc
<1>3. SamePins
  BY <1>1, <1>2, Zenon DEF SamePins, Pinned, Installing
<1>4. Cache'
  BY <1>1, <1>3, JumpsCache, Zenon DEF Cache, Types
<1>5. HeaderBuf'
  BY <1>1, Zenon DEF Control, Lists, HeaderBuf
<1>6. Control'
  BY <1>1, <1>2, <1>5, ControlStays, Zenon DEF InHand, Cache
<1> QED
  BY <1>4, <1>6, Zenon

LEMMA HaltsKept ==
  ASSUME IInv, Halts, UNCHANGED <<logVars, ops>>
  PROVE  IInv'
BY StillKept, Zenon DEF Halts

LEMMA BreadKept ==
  ASSUME IInv, NEW p \in Procs, NEW from \in Locs, NEW k \in Locs,
         Reads(from, k), th[p].pc = from, NEW blk \in Blocks, Wants(k, blk),
         k \in Working => Place(k), Bget(p, blk, k), UNCHANGED <<logVars, ops>>
  PROVE  IInv'
<1> USE DEF IInv, Cache, Control
<1>0. UNCHANGED <<lh, outstanding, committing, tail, wrote, booting, ops>>
  BY Zenon DEF logVars
<1>1. /\ from \in Locs /\ k \in Locs /\ k \in Single \cup Double /\ from \notin Calls
      /\ Count(k) = Count(from) + 1 /\ from # "off" /\ k # "off"
      /\ from \in Working <=> k \in Working
      /\ from \in InOpLocs <=> k \in InOpLocs
      /\ from \in InInstall <=> k \in InInstall
      /\ from \in InRecover <=> k \in InRecover
      /\ from \in InLog <=> k \in InLog
      /\ from # "commit" /\ k # "commit"
  <2>1. from \in Locs /\ k \in Locs /\ k \in Single \cup Double /\ from \notin Calls
    BY Zenon DEF Reads, Locs, Free, Single, Double, Calls
  <2>2. Count(k) = Count(from) + 1
    BY ReadsCount, Zenon
  <2>3. /\ from \in InOpLocs <=> k \in InOpLocs
        /\ from # "off" /\ k # "off" /\ from # "commit" /\ k # "commit"
    BY Zenon DEF Reads, InOpLocs
  <2>4. /\ from \in InInstall <=> k \in InInstall
        /\ from \in InRecover <=> k \in InRecover
        /\ from \in InLog <=> k \in InLog
        /\ from \in InHead <=> k \in InHead
        /\ from # "done" /\ k # "done"
    BY Zenon DEF Reads, InInstall, InRecover, InLog, InHead
  <2> QED
    BY <2>1, <2>2, <2>3, <2>4, Zenon DEF Working
<1>2. CASE Halts
  BY <1>2, HaltsKept, Zenon
<1>3. ASSUME NEW b \in Bufs, Takes(p, b, blk, k) PROVE IInv'
  <2>1. /\ Goes(p, from, k) /\ Keeps(p)
        /\ \A n : n = Len(th[p].held) + 1 => InHand(p, n)' = blk
        /\ \A i \in DOMAIN th[p].held : InHand(p, i)' = InHand(p, i)
    BY <1>1, <1>3, TakesGoes, Zenon
  <2>2. SamePins
    BY <1>0, <1>1, <2>1, PinsKept, Zenon
  <2>3. /\ Len(th[p].held) = Count(from) /\ Loc(p) = from
        /\ DOMAIN th[p].held = 1 .. Count(from)
    BY <1>1, HeldNow, Zenon
  <2>4. \A i \in DOMAIN th[p].held : InHand(p, i) # blk
    <3>1. CASE from \notin {"log from", "install dst"}
      <4>1. Count(from) = 0
        BY <3>1, ReadsCount, Zenon
      <4> QED
        BY <2>3, <4>1
    <3>2. CASE from \in {"log from", "install dst"}
      <4>1. k \in {"log copy", "install copy"} /\ Count(from) = 1
        BY <3>2, ReadsCount, Zenon
      <4>2. k \in Working
        BY <4>1, Zenon DEF Working, InLog, InInstall
      <4>5. tail \in 1 .. Len(lh) /\ blk = lh[tail] /\ lh \in Seq(Home)
        <5>1. Place(k) /\ lh \in Seq(Home)
          BY <4>2, Zenon DEF LogTypes
        <5>2. blk = lh[tail]
          BY <4>1, Zenon DEF Wants
        <5>3. tail \in 1 .. Len(lh) + 1 /\ tail <= Len(lh)
          BY <4>1, <5>1, Zenon DEF Place
        <5> QED
          BY <5>1, <5>2, <5>3
      <4>3. blk \in Home /\ tail \in 0 .. NLog - 1
        BY <4>5, LogAssumption DEF Lists
      <4>4. InHand(p, 1) = tail
        BY <2>3, <3>2, Zenon DEF Targets, Target, LogBlock
      <4>6. InHand(p, 1) # blk
        BY <4>3, <4>4, LogAssumption, Zenon
      <4>7. DOMAIN th[p].held = 1 .. 1
        BY <2>3, <4>1, Zenon
      <4> QED
        BY <4>6, <4>7
    <3> QED
      BY <3>1, <3>2, Zenon
  <2>5. Cache'
    BY <1>1, <1>3, <2>2, <2>4, TakesCache, Zenon
  <2>6. LogTypes' /\ Lists'
    <3>1. disk' = disk /\ \A c \in Bufs \ {b} : buf'[c] = buf[c]
      BY <1>3, Zenon DEF Takes, Types
    <3>2. buf'[b].valid => /\ buf[b].valid /\ buf'[b].data = buf[b].data
                           /\ buf'[b].blockno = buf[b].blockno
      BY <1>3 DEF Takes, Types, Buffers
    <3>3. HeaderBuf'
      BY <3>1, <3>2, Zenon DEF Lists, HeaderBuf
    <3> QED
      BY <1>0, <3>1, <3>3, Zenon DEF LogTypes, Lists
  <2>7. Target(p)'
    <3>1. Loc(p)' = k
      BY <2>1, Zenon DEF Goes
    <3>2. CASE Count(from) = 0
      <4>1. InHand(p, 1)' = blk
        BY <2>1, <2>3, <3>2
      <4>2. k \notin {"log copy", "install copy"}
        BY <3>2, ReadsCount, Zenon
      <4> QED
        BY <1>0, <3>1, <4>1, <4>2, Zenon DEF Target, Wants, Reads, LogBlock
    <3>3. CASE Count(from) = 1
      <4>1. InHand(p, 2)' = blk /\ InHand(p, 1)' = InHand(p, 1)
        BY <2>1, <2>3, <3>3
      <4>2. from \in {"log from", "install dst"} /\ k \in {"log copy", "install copy"}
        BY <3>3, ReadsCount, Zenon
      <4>3. InHand(p, 1) = LogBlock(tail)
        BY <2>3, <4>2, Zenon DEF Targets, Target
      <4> QED
        BY <1>0, <3>1, <4>1, <4>2, <4>3, Zenon DEF Target, Wants, LogBlock
    <3> QED
      BY <3>2, <3>3, ReadsCount, Zenon
  <2>8. CASE k \in Working
    <3>1. Place(k)'
      BY <1>0, <2>8, Zenon DEF Place
    <3> QED
      BY <1>0, <1>1, <2>1, <2>5, <2>6, <2>7, <2>8, <3>1, WorkerMoves, Zenon
  <2>9. CASE k \notin Working
    BY <1>0, <1>1, <2>1, <2>5, <2>6, <2>7, <2>9, OpMoves, Zenon
  <2> QED
    BY <2>8, <2>9, Zenon
<1> QED
  BY <1>1, <1>2, <1>3, BgetTakes, Zenon

LEMMA BrelseKept ==
  ASSUME IInv, NEW p \in Procs, NEW from \in Locs, NEW i, NEW k \in Locs,
         Releases(from, i, k), th[p].pc = from, Brelse(p, i, k), SamePins, LogTypes', Lists',
         UNCHANGED <<outstanding, committing, booting>>,
         k \in Working => Place(k)', k \notin Working => UNCHANGED <<lh, tail>>
  PROVE  IInv'
<1> USE DEF IInv, Cache, Control
<1>1. /\ from \in Locs /\ k \in Locs /\ from \notin Calls /\ i \in 1 .. Count(from)
      /\ Count(from) = Count(k) + 1 /\ from # "off" /\ k # "off"
      /\ from \in Working <=> k \in Working
      /\ from \in InOpLocs <=> k \in InOpLocs
      /\ k \notin InRecover
      /\ from \in InLog <=> k \in InLog
      /\ from # "commit" /\ k # "commit"
      /\ k \in {"op", "idle", "log release to", "log", "done", "install",
                "install release dst"}
  <2>1. from \in Locs /\ k \in Locs /\ from \notin Calls
    BY Zenon DEF Releases, Locs, Free, Single, Double, Calls
  <2>2. Count(from) = Count(k) + 1 /\ i \in 1 .. Count(from)
    BY ReleasesCount
  <2>3. /\ from \in InOpLocs <=> k \in InOpLocs
        /\ from # "off" /\ k # "off" /\ from # "commit" /\ k # "commit"
    BY Zenon DEF Releases, InOpLocs
  <2>4. /\ k \notin InRecover
        /\ from \in InLog <=> k \in InLog
        /\ from \in Working <=> k \in Working
    BY Zenon DEF Releases, InInstall, InRecover, InLog, InHead, Working
  <2>5. k \in {"op", "idle", "log release to", "log", "done", "install",
               "install release dst"}
    BY Zenon DEF Releases
  <2> QED
    BY <2>1, <2>2, <2>3, <2>4, <2>5, Zenon
<1>2. i \in DOMAIN th[p].held
  BY <1>1, HeldNow, Zenon
<1>3. Gives(p, i, k)
  BY <1>1, <1>2, BrelseGives, Zenon DEF BufferCache
<1>4. Goes(p, from, k) /\ Keeps(p)
  BY <1>1, <1>2, <1>3, GivesGoes, Zenon
<1>5. Cache'
  BY <1>1, <1>2, <1>3, GivesCache, Zenon
<1>6. Target(p)'
  BY <1>1, <1>4, Zenon DEF Target, Goes
<1>7. CASE k \in Working
  BY <1>1, <1>4, <1>5, <1>6, <1>7, WorkerMoves, Zenon
<1>8. CASE k \notin Working
  BY <1>1, <1>4, <1>5, <1>6, <1>8, OpMoves, Zenon
<1> QED
  BY <1>7, <1>8, Zenon

(* Steps inside bread and brelse. *)
LEMMA BreadStep ==
  ASSUME IInv, NEW p \in Procs, Bread(p)
  PROVE  IInv'
<1> USE DEF IInv
<1>1. /\ th[p].k \in Locs /\ th[p].k \notin Calls /\ th \in [Procs -> Threads]
      /\ th[p].held \in Seq(Bufs) /\ Hand(p)
  BY Zenon DEF Cache, Types, Threads, Locs, Free, Single, Double, Calls, Hands
<1>2. UNCHANGED <<lh, outstanding, committing, tail, wrote, booting, ops, logVars>>
  BY Zenon DEF Bread, logVars
<1>3. BioStep(p)
  BY Zenon DEF Bread
<1>4. disk' = disk /\ th[p].pc \in Calls
  BY <1>3, Zenon DEF BioStep, AcquireSleep, Fill, DropRef, At, Calls
<1>5. /\ \A q \in Procs \ {p} : th'[q] = th[q]
      /\ th'[p].held = th[p].held /\ th'[p].k = th[p].k
      /\ th'[p].pc \in {th[p].k, "fill"}
  BY <1>1, <1>3 DEF BioStep, AcquireSleep, Fill, DropRef, Goto, Threads
<1>6. \A q \in Procs : Loc(q)' = Loc(q)
  BY <1>1, <1>4, <1>5, Zenon DEF Loc, Calls
<1>7. SamePins
  BY <1>2, <1>6, Zenon DEF SamePins, Pinned, Installing
<1>8. Cache'
  BY <1>3, <1>7, AcquireCache, FillCache, DropCache, Zenon DEF BioStep
<1>9. \A c \in Bufs : buf'[c].blockno = buf[c].blockno
  <2>1. buf \in [Bufs -> Buffers]
    BY Zenon DEF Cache, Types
  <2>2. CASE AcquireSleep(p)
    BY <2>1, <2>2, Zenon DEF AcquireSleep, Buffers
  <2>3. CASE Fill(p)
    BY <2>1, <2>3, Zenon DEF Fill, Buffers
  <2>4. CASE DropRef(p)
    BY <2>1, <2>4, Zenon DEF DropRef, Buffers
  <2> QED
    BY <1>3, <2>2, <2>3, <2>4, Zenon DEF BioStep
<1>10. ASSUME NEW q \in Procs, NEW i \in 1 .. Count(Loc(q))
       PROVE  InHand(q, i)' = InHand(q, i)
  <2>1. th'[q].held = th[q].held /\ th[q].held \in Seq(Bufs)
    BY <1>1, <1>5, Zenon DEF Threads
  <2>2. Len(th[q].held) = Count(Loc(q))
    BY Zenon DEF Cache, Hands, Hand
  <2>3. th[q].held[i] \in Bufs
    BY <2>1, <2>2
  <2> QED
    BY <1>9, <2>1, <2>3, Zenon DEF InHand
<1>11. \A q \in Procs : th'[q].pc = "off" <=> th[q].pc = "off"
  <2>1. th[p].k # "off"
    <3>1. th[p].pc \in {"lock", "fill"} => th[p].k \notin Free
      BY <1>1, Zenon DEF Hand
    <3>2. th[p].pc = "drop" => Loc(p) = th[p].k
      BY Zenon DEF Loc
    <3>3. Loc(p) # "off" \/ th[p].pc = "off"
      BY Zenon DEF Control, Turns, LogTypes, Loc, Calls, InHead, InInstall,
         InRecover
    <3> QED
      BY <1>4, <3>1, <3>2, <3>3, Zenon DEF Free, Calls
  <2> QED
    BY <1>4, <1>5, <2>1, Zenon DEF Calls
<1>12. HeaderBuf'
  <2>1. buf \in [Bufs -> Buffers] /\ HeaderBuf
    BY Zenon DEF Cache, Types, Control, Lists
  <2>2. CASE AcquireSleep(p)
    BY <1>4, <2>1, <2>2 DEF AcquireSleep, Buffers, HeaderBuf
  <2>3. CASE Fill(p)
    BY <1>4, <2>1, <2>3, Zenon DEF Fill, Buffers, HeaderBuf
  <2>4. CASE DropRef(p)
    BY <1>4, <2>1, <2>4, Zenon DEF DropRef, Buffers, HeaderBuf
  <2> QED
    BY <1>3, <2>2, <2>3, <2>4, Zenon DEF BioStep
<1>13. Control'
  BY <1>2, <1>4, <1>6, <1>10, <1>11, <1>12, ControlStays, Zenon DEF Cache
<1> QED
  BY <1>8, <1>13, Zenon

LEMMA StartOpStep ==
  ASSUME IInv, NEW p \in Procs, StartOp(p)
  PROVE  IInv'
<1>1. /\ th[p].pc = "idle" /\ th' = [th EXCEPT ![p].pc = "begin"]
      /\ UNCHANGED <<buf, lru, disk>> /\ ops' = ops + 1
      /\ UNCHANGED <<lh, outstanding, committing, tail, wrote, booting>>
  BY Zenon DEF StartOp, At, Goto, logVars
<1>2. Goes(p, "idle", "begin") /\ Keeps(p) /\ Target(p)' /\ (SamePins => Cache')
  BY <1>1, JumpGoes, Zenon DEF IInv, Free
<1>3. SamePins
  BY <1>1, <1>2, PinsKept, Zenon DEF InInstall
<1>4. LogTypes' /\ Lists'
  BY <1>1 DEF IInv, Control, LogTypes, Lists, HeaderBuf
<1>5. {"idle", "begin"} \subseteq Locs \ Working /\ {"idle", "begin"} \cap InOpLocs = {}
  BY Zenon DEF Locs, Free, Working, InLog, InHead, InInstall, InRecover, InOpLocs
<1>6. Control'
  BY <1>1, <1>2, <1>4, <1>5, OpMoves, Zenon DEF IInv, Cache
<1> QED
  BY <1>2, <1>3, <1>6, Zenon DEF IInv

LEMMA CommitStep ==
  ASSUME IInv, NEW p \in Procs, Commit(p)
  PROVE  IInv'
<1>1. /\ th[p].pc = "commit" /\ UNCHANGED <<buf, lru, disk, ops>>
      /\ UNCHANGED <<lh, outstanding, committing, tail, wrote, booting>>
  BY Zenon DEF Commit, At, logVars
<1>2. PICK to \in {"done", "log"} :
        /\ th' = [th EXCEPT ![p].pc = to]
        /\ to = "done" => lh = <<>>
  BY Zenon DEF Commit, Goto
<1>3. Goes(p, "commit", to) /\ Keeps(p) /\ Target(p)' /\ (SamePins => Cache')
  BY <1>1, <1>2, JumpGoes, Zenon DEF IInv, Free
<1>4. SamePins
  BY <1>1, <1>3, PinsKept, Zenon DEF InInstall
<1>5. LogTypes' /\ Lists'
  BY <1>1, Zenon DEF IInv, Control, LogTypes, Lists, HeaderBuf
<1>6. to \in Working /\ "commit" \in Working /\ to \notin InRecover /\ to \notin InHead
  BY Zenon DEF Working, InLog, InRecover, InHead
<1>7. Loc(p) = "commit"
  BY <1>3, Zenon DEF Goes
<1>8. Place("commit")
  BY <1>6, <1>7, Zenon DEF IInv, Control, Positions
<1>9. tail = 1
  BY <1>8, Zenon DEF Place, InLog, InInstall
<1>10. Place(to)'
  <2>1. Len(lh) \in Nat
    BY DEF IInv, Control, LogTypes
  <2>2. lh' = lh /\ tail' = 1
    BY <1>1, <1>9, Zenon
  <2>3. to \notin {"log from", "log copy", "log release from", "log release to",
                   "install dst", "install copy"}
    BY Zenon
  <2>4. to \in InRecover \cup {"done"} => lh' = <<>>
    BY <1>2, <1>6, <2>2, Zenon
  <2>5. tail' \in 1 .. Len(lh') + 1
    BY <2>1, <2>2
  <2> QED
    BY <1>6, <2>2, <2>3, <2>4, <2>5, Zenon DEF Place
<1>11. Control'
  BY <1>1, <1>3, <1>5, <1>6, <1>10, WorkerMoves, Zenon DEF IInv, Cache
<1> QED
  BY <1>3, <1>4, <1>11, Zenon DEF IInv

Indexed == {"log from", "log copy", "log release from", "log release to",
            "install dst", "install copy"}

(* The same place in the transaction, elsewhere in the code. *)
LEMMA PlaceNext ==
  ASSUME NEW from, NEW k, Place(from),
         from \in InLog \cup InInstall => k \in InLog \cup InInstall,
         k \in Indexed => tail <= Len(lh),
         k \in InRecover \cup {"done"} => lh = <<>>,
         k \in InHead => from \in InHead
  PROVE  Place(k)
BY Zenon DEF Place, Indexed

LEMMA AtStart ==
  ASSUME LogTypes', NEW k, tail' = 1, k \notin Indexed,
         k \in InRecover \cup {"done"} => lh' = <<>>,
         k \in InHead => booting' = NIL \/ lh' = <<>>
  PROVE  Place(k)'
<1>1. tail' \in 1 .. Len(lh') + 1
  BY DEF LogTypes
<1> QED
  BY <1>1, Zenon DEF Place, Indexed

LEMMA OpBreadStep ==
  ASSUME IInv, NEW p \in Procs, NEW blk \in Home, OpBread(p, blk)
  PROVE  IInv'
<1>1. /\ th[p].pc = "op" /\ Bget(p, blk, "modify") /\ UNCHANGED <<logVars, ops>>
      /\ blk \in Blocks
  BY LogAssumption, Zenon DEF OpBread, At
<1>2. /\ "op" \in Locs /\ "modify" \in Locs /\ Reads("op", "modify")
      /\ Wants("modify", blk) /\ "modify" \notin Working
  BY Zenon DEF Reads, Wants, Locs, Free, Single, Working, InLog, InHead,
     InInstall, InRecover
<1> QED
  BY <1>1, <1>2, BreadKept, Zenon

LEMMA StartReadStep ==
  ASSUME IInv, NEW p \in Procs, StartRead(p)
  PROVE  IInv'
<1>1. PICK blk \in Home : Bget(p, blk, "read")
  BY Zenon DEF StartRead
<1>2. th[p].pc = "idle" /\ UNCHANGED <<logVars, ops>> /\ blk \in Blocks
  BY LogAssumption, Zenon DEF StartRead, At
<1>3. /\ "idle" \in Locs /\ "read" \in Locs /\ Reads("idle", "read")
      /\ Wants("read", blk) /\ "read" \notin Working
  BY Zenon DEF Reads, Wants, Locs, Free, Single, Working, InLog, InHead,
     InInstall, InRecover
<1> QED
  BY <1>1, <1>2, <1>3, BreadKept, Zenon

(* The worker's calls of bread. *)
LEMMA WorkBread ==
  ASSUME IInv, NEW p \in Procs, NEW from \in Working, NEW k \in Working,
         Reads(from, k), th[p].pc = from, NEW blk, Wants(k, blk),
         k \in Indexed => tail <= Len(lh), Bget(p, blk, k), UNCHANGED <<logVars, ops>>
  PROVE  IInv'
<1>1. from \in Locs /\ k \in Locs
  BY Zenon DEF Reads, Locs, Free, Single, Double
<1>2. /\ from \in InLog \cup InInstall => k \in InLog \cup InInstall
      /\ k \in InHead => from \in InHead
      /\ k \in InRecover => from \in InRecover
      /\ k # "done"
  BY Zenon DEF Reads, InLog, InInstall, InHead, InRecover, Working
<1>3. Place(from)
  BY PlaceNow, Zenon
<1>4. k \in InRecover => lh = <<>>
  BY <1>2, <1>3, Zenon DEF Place
<1>5. Place(k)
  BY <1>2, <1>3, <1>4, PlaceNext, Zenon
<1>6. Header \in Blocks
  BY LogAssumption DEF Header
<1>7. blk \in Blocks
  <2>1. CASE k \in Indexed
    <3>1. k \in {"log from", "log copy", "install dst", "install copy"}
      BY <2>1, Zenon DEF Reads, Indexed
    <3>2. LogBlock(tail) \in Blocks /\ lh[tail] \in Blocks
      BY <2>1, WorkBlocks, Zenon
    <3> QED
      BY <3>1, <3>2, Zenon DEF Wants
  <2>2. CASE k \notin Indexed
    <3>1. k \in {"head copy", "recover read"}
      BY <2>2, Zenon DEF Reads, Indexed, Working, InLog, InInstall, InHead,
         InRecover
    <3> QED
      BY <1>6, <3>1, Zenon DEF Wants
  <2> QED
    BY <2>1, <2>2, Zenon
<1> QED
  BY <1>1, <1>5, <1>7, BreadKept, Zenon

LEMMA WriteLogFromStep ==
  ASSUME IInv, NEW p \in Procs, WriteLogFrom(p)
  PROVE  IInv'
<1>1. /\ th[p].pc = "log from" /\ Bget(p, lh[tail], "log copy")
      /\ UNCHANGED <<logVars, ops>>
  BY Zenon DEF WriteLogFrom, At
<1>2. /\ "log from" \in Working /\ "log copy" \in Working
      /\ Reads("log from", "log copy") /\ Wants("log copy", lh[tail])
  BY Zenon DEF Reads, Wants, Working, InLog
<1>3. tail <= Len(lh)
  BY <1>1, <1>2, PlaceNow, Zenon DEF Place
<1> QED
  BY <1>1, <1>2, <1>3, WorkBread, Zenon

LEMMA InstallDstStep ==
  ASSUME IInv, NEW p \in Procs, InstallDst(p)
  PROVE  IInv'
<1>1. /\ th[p].pc = "install dst" /\ Bget(p, lh[tail], "install copy")
      /\ UNCHANGED <<logVars, ops>>
  BY Zenon DEF InstallDst, At
<1>2. /\ "install dst" \in Working /\ "install copy" \in Working
      /\ Reads("install dst", "install copy") /\ Wants("install copy", lh[tail])
  BY Zenon DEF Reads, Wants, Working, InInstall
<1>3. tail <= Len(lh)
  BY <1>1, <1>2, PlaceNow, Zenon DEF Place
<1> QED
  BY <1>1, <1>2, <1>3, WorkBread, Zenon

(* The worker goes on without buffers, elsewhere in its code. *)
LEMMA WorkJump ==
  ASSUME IInv, NEW p \in Procs, NEW from \in Working \cap Free, th[p].pc = from,
         NEW to \in Working \cap Free, th' = [th EXCEPT ![p].pc = to],
         UNCHANGED <<buf, lru, disk, outstanding, committing, wrote, booting, ops>>,
         lh' = lh \/ lh' = <<>>, tail' = 1, SamePins,
         to \in {"head", "done"},
         to = "done" => lh' = <<>>,
         to = "head" => booting = NIL \/ lh' = <<>>
  PROVE  IInv'
<1>1. Goes(p, from, to) /\ Keeps(p) /\ Target(p)' /\ Cache'
  BY JumpGoes, Zenon DEF IInv
<1>2. LogTypes' /\ Lists'
  <2>1. lh' \in Seq(Home) /\ Distinct(lh') /\ Len(lh') < NLog
    <3>1. lh \in Seq(Home) /\ Distinct(lh) /\ Len(lh) < NLog
      BY Zenon DEF IInv, Control, LogTypes, Lists
    <3>2. <<>> \in Seq(Home) /\ Distinct(<<>>) /\ Len(<<>>) < NLog
      BY LogAssumption DEF Distinct
    <3> QED
      BY <3>1, <3>2, Zenon
  <2> QED
    BY <2>1 DEF IInv, Control, LogTypes, Lists, HeaderBuf
<1>3. /\ to \notin InRecover /\ to \notin {"commit"} \cup InLog /\ to \notin Indexed
      /\ to \in InHead => to = "head"
  BY Zenon DEF InRecover, InLog, Indexed, InHead
<1>4. Place(to)'
  BY <1>2, <1>3, AtStart, Zenon
<1>5. Control'
  BY <1>1, <1>2, <1>3, <1>4, WorkerMoves, Zenon DEF IInv, Cache
<1> QED
  BY <1>1, <1>5, Zenon DEF IInv

LEMMA WriteLogToStep ==
  ASSUME IInv, NEW p \in Procs, WriteLogTo(p)
  PROVE  IInv'
<1>1. /\ th[p].pc = "log"
      /\ UNCHANGED <<lh, outstanding, committing, wrote, booting, ops>>
  BY Zenon DEF WriteLogTo, At
<1>2. CASE tail <= Len(lh)
  <2>1. Bget(p, LogBlock(tail), "log from") /\ UNCHANGED <<logVars, ops>>
    BY <1>1, <1>2, Zenon DEF WriteLogTo, logVars
  <2>2. /\ "log" \in Working /\ "log from" \in Working
        /\ Reads("log", "log from") /\ Wants("log from", LogBlock(tail))
    BY Zenon DEF Reads, Wants, Working, InLog
  <2> QED
    BY <1>1, <1>2, <2>1, <2>2, WorkBread, Zenon
<1>3. CASE ~(tail <= Len(lh))
  <2>1. th' = [th EXCEPT ![p].pc = "head"] /\ tail' = 1 /\ UNCHANGED <<buf, lru, disk>>
    BY <1>3, Zenon DEF WriteLogTo, Goto
  <2>2. {"log", "head"} \subseteq Working \cap Free
    BY Zenon DEF Working, InLog, InHead, Free
  <2>3. Loc(p) = "log"
    BY <1>1, Zenon DEF Loc
  <2>4. booting = NIL
    BY <2>3, Running, Zenon DEF IInv, Control, InHead, InInstall, InRecover
  <2>5. Goes(p, "log", "head")
    BY <1>1, <2>1, <2>2, JumpGoes, Zenon DEF IInv
  <2>6. ~Installing
    BY <2>2, <2>3, Zenon DEF IInv, Control, Turns, Installing, Working, InInstall
  <2>7. SamePins
    BY <1>1, <2>5, <2>6, PinsKept, Zenon DEF InInstall
  <2> QED
    BY <1>1, <2>1, <2>2, <2>4, <2>7, WorkJump, Zenon
<1> QED
  BY <1>2, <1>3, Zenon

(* The last block is installed: none is pinned, before and after. *)
LEMMA InstallLogStep ==
  ASSUME IInv, NEW p \in Procs, InstallLog(p)
  PROVE  IInv'
<1>1. /\ th[p].pc = "install"
      /\ UNCHANGED <<outstanding, committing, wrote, booting, ops>>
  BY Zenon DEF InstallLog, At
<1>2. CASE tail <= Len(lh)
  <2>1. Bget(p, LogBlock(tail), "install dst") /\ UNCHANGED <<logVars, ops>>
    BY <1>1, <1>2, Zenon DEF InstallLog, InstallMore, logVars
  <2>2. /\ "install" \in Working /\ "install dst" \in Working
        /\ Reads("install", "install dst") /\ Wants("install dst", LogBlock(tail))
    BY Zenon DEF Reads, Wants, Working, InInstall
  <2> QED
    BY <1>1, <1>2, <2>1, <2>2, WorkBread, Zenon
<1>3. CASE ~(tail <= Len(lh))
  <2>1. /\ th' = [th EXCEPT ![p].pc = "head"] /\ tail' = 1 /\ lh' = <<>>
        /\ UNCHANGED <<buf, lru, disk>>
    BY <1>3, Zenon DEF InstallLog, InstallMore, Goto
  <2>2. {"install", "head"} \subseteq Working \cap Free
    BY Zenon DEF Working, InInstall, InHead, Free
  <2>3. Place("install") /\ Loc(p) = "install" /\ lh \in Seq(Home)
    BY <1>1, <2>2, PlaceNow, Zenon DEF IInv, Control, LogTypes
  <2>4. Installing
    BY <2>3, Zenon DEF Installing
  <2>5. \A i \in DOMAIN lh : ~(i >= tail)
    BY <1>3, <2>3 DEF Place
  <2>6. \A x : ~Pinned(x)
    BY <2>4, <2>5, Zenon DEF Pinned
  <2>7. \A x : ~Pinned(x)'
    BY <2>1 DEF Pinned
  <2>8. SamePins
    BY <2>6, <2>7, Zenon DEF SamePins
  <2> QED
    BY <1>1, <2>1, <2>2, <2>8, WorkJump, Zenon
<1> QED
  BY <1>2, <1>3, Zenon

LEMMA ReleaseStep ==
  ASSUME IInv, NEW p \in Procs, NEW from \in Locs, NEW i, NEW k \in Locs,
         Releases(from, i, k), th[p].pc = from, Brelse(p, i, k),
         UNCHANGED <<logVars, ops>>,
         k \in Working => Place(k),
         tail = 1 \/ (from \in InInstall <=> k \in InInstall)
  PROVE  IInv'
<1>1. UNCHANGED <<lh, outstanding, committing, tail, wrote, booting, ops>>
  BY Zenon DEF logVars
<1>2. Goes(p, from, k) /\ HeaderBuf' /\ disk' = disk
  BY ReleaseGoes, Zenon
<1>3. LogTypes' /\ Lists'
  BY <1>1, <1>2, Zenon DEF IInv, Control, LogTypes, Lists
<1>4. SamePins
  <2>1. CASE tail = 1
    BY <1>1, <2>1, PinsAtStart, Zenon DEF IInv, Control
  <2>2. CASE from \in InInstall <=> k \in InInstall
    BY <1>1, <1>2, <2>2, PinsKept, Zenon
  <2> QED
    BY <2>1, <2>2, Zenon
<1>5. k \in Working => Place(k)'
  BY <1>1, Zenon DEF Place
<1> QED
  BY <1>1, <1>3, <1>4, <1>5, BrelseKept, Zenon

LEMMA OpBrelseStep ==
  ASSUME IInv, NEW p \in Procs, OpBrelse(p)
  PROVE  IInv'
<1>1. /\ {"release", "op"} \subseteq Locs /\ Releases("release", 1, "op")
      /\ "op" \notin Working /\ {"release", "op"} \cap InInstall = {}
  BY Zenon DEF Releases, Locs, Free, Single, Working, InLog, InHead, InInstall,
     InRecover
<1>2. th[p].pc = "release" /\ Brelse(p, 1, "op") /\ UNCHANGED <<logVars, ops>>
  BY Zenon DEF OpBrelse, At
<1> QED
  BY <1>1, <1>2, ReleaseStep, Zenon

LEMMA EndReadStep ==
  ASSUME IInv, NEW p \in Procs, EndRead(p)
  PROVE  IInv'
<1>1. /\ {"read", "idle"} \subseteq Locs /\ Releases("read", 1, "idle")
      /\ "idle" \notin Working /\ {"read", "idle"} \cap InInstall = {}
  BY Zenon DEF Releases, Locs, Free, Single, Working, InLog, InHead, InInstall,
     InRecover
<1>2. th[p].pc = "read" /\ Brelse(p, 1, "idle") /\ UNCHANGED <<logVars, ops>>
  BY Zenon DEF EndRead, At
<1> QED
  BY <1>1, <1>2, ReleaseStep, Zenon

LEMMA InstallReleaseStep ==
  ASSUME IInv, NEW p \in Procs, InstallRelease(p)
  PROVE  IInv'
<1>1. PICK from \in {"install release log", "install release dst"},
           k \in {"install release dst", "install"} :
        /\ th[p].pc = from /\ Brelse(p, 1, k)
        /\ from = "install release log" <=> k = "install release dst"
  BY Zenon DEF InstallRelease, At
<1>2. /\ from \in Locs /\ k \in Locs /\ Releases(from, 1, k)
      /\ from \in InInstall /\ k \in InInstall /\ from \in Working
      /\ k \notin Indexed /\ k \notin InRecover \cup {"done"} /\ k \notin InHead
  BY <1>1, Zenon DEF Releases, Locs, Free, Single, Double, Working, InInstall,
     Indexed,
     InRecover, InHead
<1>3. UNCHANGED <<logVars, ops>>
  BY Zenon DEF InstallRelease
<1>4. Place(k)
  BY <1>1, <1>2, PlaceNow, PlaceNext, Zenon
<1> QED
  BY <1>1, <1>2, <1>3, <1>4, ReleaseStep, Zenon

LEMMA WriteLogReleaseStep ==
  ASSUME IInv, NEW p \in Procs, WriteLogRelease(p)
  PROVE  IInv'
<1>1. UNCHANGED <<lh, outstanding, committing, wrote, booting, ops>>
  BY Zenon DEF WriteLogRelease
<1>2. CASE /\ th[p].pc = "log release from" /\ Brelse(p, 2, "log release to")
           /\ tail' = tail
  <2>1. /\ {"log release from", "log release to"} \subseteq Locs \cap Working \cap InLog
        /\ Releases("log release from", 2, "log release to")
        /\ {"log release from", "log release to"} \cap InInstall = {}
        /\ "log release to" \notin InRecover \cup {"done"} \cup InHead
    BY Zenon DEF Releases, Locs, Single, Double, Working, InLog, InInstall,
       InRecover, InHead
  <2>2. Place("log release from") /\ tail <= Len(lh)
    BY <1>2, <2>1, PlaceNow, Zenon DEF Place
  <2>3. Place("log release to")
    BY <2>1, <2>2, PlaceNext, Zenon
  <2>4. UNCHANGED <<logVars, ops>>
    BY <1>1, <1>2, Zenon DEF logVars
  <2> QED
    BY <1>2, <2>1, <2>3, <2>4, ReleaseStep, Zenon
<1>3. CASE /\ th[p].pc = "log release to" /\ Brelse(p, 1, "log")
           /\ tail' = tail + 1
  <2>1. /\ {"log release to", "log"} \subseteq Locs \cap Working \cap InLog
        /\ Releases("log release to", 1, "log")
        /\ {"log release to", "log"} \cap InInstall = {}
        /\ "log" \notin InRecover \cup {"done"} \cup InHead \cup Indexed
    BY Zenon DEF Releases, Locs, Free, Single, Working, InLog, InInstall,
       InRecover, InHead,
       Indexed
  <2>2. Loc(p) = "log release to" /\ tail <= Len(lh) /\ tail \in 1 .. Len(lh) + 1
    BY <1>3, <2>1, PlaceNow, Zenon DEF Place
  <2>3. tail' \in 1 .. Len(lh) + 1 /\ tail' \in Int
    <3>1. Len(lh) \in Nat
      BY DEF IInv, Control, LogTypes
    <3>2. tail' = tail + 1 /\ tail <= Len(lh) /\ tail \in 1 .. Len(lh) + 1
      BY <1>3, <2>2, Zenon
    <3> QED
      BY <3>1, <3>2
  <2>4. Place("log")'
    BY <1>1, <2>1, <2>3, Zenon DEF Place, Indexed
  <2>5. Goes(p, "log release to", "log") /\ HeaderBuf' /\ disk' = disk
    BY <1>3, <2>1, ReleaseGoes, Zenon
  <2>6. ~Installing
    BY <2>1, <2>2, Zenon DEF IInv, Control, Turns, Installing, Working, InInstall
  <2>7. SamePins
    BY <1>1, <2>1, <2>5, <2>6, PinsKept, Zenon
  <2>8. LogTypes' /\ Lists'
    BY <1>1, <2>3, <2>5, Zenon DEF IInv, Control, LogTypes, Lists
  <2> QED
    BY <1>1, <1>3, <2>1, <2>4, <2>7, <2>8, BrelseKept, Zenon
<1> QED
  BY <1>2, <1>3, Zenon DEF WriteLogRelease, At

(* The header is what the transaction made it; or erased. *)
LEMMA WriteHeadRelease ==
  ASSUME IInv, NEW p \in Procs, th[p].pc = "head release",
         Brelse(p, 1, IF lh = <<>> THEN "done" ELSE "install"), UNCHANGED <<logVars, ops>>
  PROVE  IInv'
<1>1. PICK k \in {"done", "install"} : Brelse(p, 1, k) /\ (k = "done" => lh = <<>>)
  BY Zenon
<1>2. /\ "head release" \in Locs \cap Working \cap InHead /\ k \in Locs
      /\ Releases("head release", 1, k) /\ k \notin InHead /\ k \notin InRecover
      /\ "head release" \notin InLog \cup InInstall /\ k \notin Indexed
  BY Zenon DEF Releases, Locs, Free, Single, Working, InLog, InInstall,
     InRecover, InHead,
     Indexed
<1>3. Place("head release")
  BY <1>2, PlaceNow, Zenon
<1>4. tail = 1
  BY <1>2, <1>3, Zenon DEF Place
<1>5. Place(k)
  BY <1>1, <1>2, <1>3, PlaceNext, Zenon
<1> QED
  BY <1>1, <1>2, <1>4, <1>5, ReleaseStep, Zenon

(* read_head: what it reads is what the disk holds. *)
LEMMA ReadHeadStep ==
  ASSUME IInv, NEW p \in Procs, ReadHead(p)
  PROVE  IInv'
<1>1. UNCHANGED <<outstanding, committing, tail, wrote, booting, ops>>
  BY Zenon DEF ReadHead
<1>2. CASE th[p].pc = "recover" /\ Bget(p, Header, "recover read") /\ lh' = lh
  <2>1. /\ {"recover", "recover read"} \subseteq Working /\ Reads("recover", "recover read")
        /\ Wants("recover read", Header) /\ "recover read" \notin Indexed
    BY Zenon DEF Reads, Wants, Working, InRecover, Indexed
  <2>2. UNCHANGED <<logVars, ops>>
    BY <1>1, <1>2, Zenon DEF logVars
  <2> QED
    BY <1>2, <2>1, <2>2, WorkBread, Zenon
<1>3. CASE /\ th[p].pc = "recover read" /\ lh' = buf[Got(p)].data
           /\ Brelse(p, 1, "install")
  <2>1. /\ {"recover read", "install"} \subseteq Locs \cap Working
        /\ Releases("recover read", 1, "install") /\ "recover read" \notin Calls
        /\ "recover read" \notin InLog \cup InInstall /\ "recover read" \in InRecover
        /\ "install" \notin InRecover \cup {"done"} \cup InHead \cup Indexed
        /\ "recover read" \in Single
    BY Zenon DEF Releases, Locs, Free, Single, Working, InLog, InInstall,
       InRecover, InHead,
       Indexed, Calls
  <2>2. Place("recover read") /\ Loc(p) = "recover read"
    BY <1>3, <2>1, PlaceNow, Zenon
  <2>3. booting # NIL /\ booting' # NIL
    BY <1>1, <2>1, <2>2, Zenon DEF IInv, Control, Turns
  <2>4. tail' = 1
    BY <1>1, <2>1, <2>2, Zenon DEF Place
  <2>5. SamePins
    BY <2>3, PinsBooting, Zenon
  <2>6. Goes(p, "recover read", "install") /\ HeaderBuf' /\ disk' = disk
    BY <1>3, <2>1, ReleaseGoes, Zenon
  <2>7. lh' = disk[Header]
    <3>1. Got(p) = th[p].held[1] /\ Got(p) \in Bufs /\ buf[Got(p)].valid
      BY <1>3, <2>1, HoldsOne, Zenon DEF IInv
    <3>5. buf[Got(p)].blockno = Header
      BY <2>2, <3>1, Zenon DEF IInv, Control, Targets, Target, InHand
    <3> QED
      BY <1>3, <3>1, <3>5, Zenon DEF IInv, Control, Lists, HeaderBuf
  <2>8. lh' \in Seq(Home) /\ Distinct(lh') /\ Len(lh') < NLog
    BY <2>7, HeaderBlock, Zenon DEF IInv, Cache, Kinds, Kind, Control, Lists
  <2>9. LogTypes' /\ Lists'
    BY <1>1, <2>6, <2>8, Zenon DEF IInv, Control, LogTypes, Lists
  <2>10. Place("install")'
    BY <2>1, <2>4, <2>9, AtStart, Zenon
  <2> QED
    BY <1>1, <1>3, <2>1, <2>5, <2>9, <2>10, BrelseKept, Zenon
<1> QED
  BY <1>2, <1>3, Zenon DEF ReadHead, At

LEMMA Zero == 0 \in Int /\ 1 \in Int /\ \A n \in Int : n = n + 0
OBVIOUS

(* bwrite of a buffer in the worker's hands: the header block gets lh. *)
LEMMA WriteStep ==
  ASSUME IInv, NEW p \in Procs, NEW from \in Working, NEW to \in Working,
         th[p].pc = from, to \in {"log release from", "head release"},
         from \notin InInstall, Count(to) = Count(from),
         to = "log release from" => from \in InLog,
         NEW i \in DOMAIN th[p].held, NEW b \in Bufs, b = th[p].held[i],
         buf[b].blockno \in Blocks, NEW d \in Kind(buf[b].blockno),
         buf[b].blockno = Header => d = lh,
         DiskWrite(b, d), Goto(p, to), lru' = lru, UNCHANGED <<logVars, ops>>,
         Place(to), to = "head release" => InHand(p, 1) = Header /\ 1 \in DOMAIN th[p].held
  PROVE  IInv'
<1> DEFINE x == buf[b].blockno
<1>1. UNCHANGED <<lh, outstanding, committing, tail, wrote, booting, ops>>
  BY Zenon DEF logVars
<1>2. /\ buf \in [Bufs -> Buffers] /\ disk \in [Blocks -> Contents] /\ d \in Contents
      /\ th' = [th EXCEPT ![p].pc = to] /\ \A y \in Blocks : disk[y] \in Kind(y)
  BY Zenon DEF IInv, Cache, Types, Kinds, Kind, Contents, Goto
<1>3. /\ buf' = [buf EXCEPT ![b].data = d] /\ disk' = [disk EXCEPT ![x] = d]
  BY Zenon DEF DiskWrite
<1>4. /\ buf' \in [Bufs -> Buffers] /\ disk' \in [Blocks -> Contents]
      /\ \A c \in Bufs \ {b} : buf'[c] = buf[c]
      /\ \A y \in Blocks : disk'[y] = IF y = x THEN d ELSE disk[y]
  <2>1. disk' \in [Blocks -> Contents]
    BY <1>2, <1>3, Zenon
  <2>2. \A y \in Blocks : disk'[y] = IF y = x THEN d ELSE disk[y]
    BY <1>2, <1>3, Zenon
  <2>3. buf[b] \in Buffers
    BY <1>2, Zenon
  <2>4. [buf[b] EXCEPT !.data = d] \in Buffers
    BY <1>2, <2>3, Zenon DEF Buffers
  <2>5. buf' = [buf EXCEPT ![b] = [buf[b] EXCEPT !.data = d]]
    BY <1>3, Zenon
  <2>6. buf' \in [Bufs -> Buffers] /\ \A c \in Bufs \ {b} : buf'[c] = buf[c]
    BY <1>2, <2>4, <2>5, Zenon
  <2> QED
    BY <2>1, <2>2, <2>6, Zenon
<1>5. /\ buf'[b].blockno = x /\ buf'[b].valid = buf[b].valid
      /\ buf'[b].owner = buf[b].owner /\ buf'[b].data = d
      /\ buf'[b].refcnt = buf[b].refcnt
  BY <1>2, <1>3, Zenon DEF Buffers
<1>6. /\ from \notin Calls /\ to \in Locs \ Calls /\ to \notin InInstall
      /\ to \notin InRecover
      /\ to = "log release from" => to \in InLog
  BY Zenon DEF Working, InLog, InHead, InInstall, InRecover, Calls, Locs,
     Single, Double
<1>7. \A c \in Bufs : buf'[c].blockno = buf[c].blockno
  BY <1>4, <1>5, Zenon
<1>8. /\ Goes(p, from, to) /\ Keeps(p)
      /\ \A j \in DOMAIN th[p].held : InHand(p, j)' = InHand(p, j)
  BY <1>2, <1>6, <1>7, MovesGoes, Zenon DEF IInv, Cache
<1>9. SamePins
  BY <1>1, <1>6, <1>8, PinsKept, Zenon
<1>10. \A c \in Bufs : Pin(c)' = Pin(c)
  <2>1. \A c \in Bufs : buf[c].blockno \in Blocks \cup {NIL}
    BY <1>2, Zenon DEF Buffers
  <2> QED
    BY <1>7, <1>9, <2>1, Zenon DEF SamePins, Pin
<1>11. buf[b].refcnt = buf[b].refcnt + 0 /\ Pin(b) = Pin(b) + 0
  BY <1>2, Zero, Zenon DEF Buffers, Pin
<1>12. \A y \in Blocks : disk'[y] \in Kind(y)
  BY <1>2, <1>4, Zenon
<1>13. Puts(p, b, to, 0)
  <2>1. buf'[b].refcnt = buf[b].refcnt + 0 /\ Pin(b)' = Pin(b) + 0
    BY <1>5, <1>10, <1>11, Zenon
  <2>2. \A y \in Blocks : Pinned(y)' => Pinned(y)
    BY <1>9, Zenon DEF SamePins
  <2> QED
    BY <1>2, <1>4, <1>5, <1>6, <1>10, <1>12, <2>1, <2>2, Zenon DEF Puts
<1>14. Cache'
  BY <1>6, <1>13, Zero, PutsCache, Zenon DEF IInv
<1>15. Header \in Blocks
  BY HeaderBlock, Zenon
<1>16. Lists'
  <2>1. CASE x = Header
    <3>1. disk'[Header] = lh
      BY <1>4, <1>15, <2>1, Zenon
    <3>2. \A c \in Bufs \ {b} : buf'[c].blockno # Header
      BY <1>7, <2>1, HeaderBlock, Zenon DEF IInv, Cache, BufferCache,
         OneBufferPerBlock
    <3>3. HeaderBuf'
      BY <1>5, <2>1, <3>1, <3>2, Zenon DEF HeaderBuf
    <3> QED
      BY <1>1, <3>1, <3>3, Zenon DEF IInv, Control, Lists
  <2>2. CASE x # Header
    <3>1. disk'[Header] = disk[Header]
      BY <1>4, <1>15, <2>2, Zenon
    <3>2. \A c \in Bufs : buf[c].valid /\ buf[c].blockno = Header =>
                             buf[c].data = disk[Header]
      BY Zenon DEF IInv, Control, Lists, HeaderBuf
    <3>3. \A c \in Bufs : buf'[c].valid /\ buf'[c].blockno = Header =>
                             buf'[c] = buf[c]
      BY <1>4, <1>5, <2>2, Zenon
    <3>4. HeaderBuf'
      BY <3>1, <3>2, <3>3, Zenon DEF HeaderBuf
    <3> QED
      BY <1>1, <3>1, <3>4, Zenon DEF IInv, Control, Lists
  <2> QED
    BY <2>1, <2>2, Zenon
<1>17. LogTypes' /\ Place(to)'
  BY <1>1, Zenon DEF IInv, Control, LogTypes, Place
<1>18. Target(p)'
  <2>1. Loc(p)' = to
    BY <1>8, Zenon DEF Goes
  <2>2. to = "head release" => InHand(p, 1)' = Header
    BY <1>8, Zenon
  <2> QED
    BY <2>1, <2>2, Zenon DEF Target
<1>19. from \notin {"commit"} \cup InLog => to \notin {"commit"} \cup InLog
  BY Zenon DEF InLog
<1>20. Control'
  BY <1>1, <1>6, <1>8, <1>16, <1>17, <1>18, <1>19, WorkerMoves, Zenon DEF IInv,
     Cache
<1> QED
  BY <1>14, <1>20, Zenon DEF IInv

LEMMA WriteLogCopyStep ==
  ASSUME IInv, NEW p \in Procs, WriteLogCopy(p)
  PROVE  IInv'
<1>1. PICK b, c : b = th[p].held[1] /\ c = th[p].held[2]
  BY Zenon
<1>2. /\ th[p].pc = "log copy" /\ DiskWrite(b, buf[c].data) /\ lru' = lru
      /\ Goto(p, "log release from") /\ UNCHANGED <<logVars, ops>>
  BY <1>1, WriteLogCopies, Zenon DEF IInv
<1>3. /\ {"log copy", "log release from"} \subseteq Working \cap InLog \cap Double
      /\ "log copy" \notin InInstall /\ "log release from" # "head release"
      /\ "log release from" \notin InRecover \cup {"done"} \cup InHead
  BY Zenon DEF Working, InLog, InInstall, Double, InRecover, InHead
<1>4. /\ 1 \in DOMAIN th[p].held /\ b \in Bufs /\ c \in Bufs
      /\ buf[b].blockno \in Blocks /\ buf[c].valid
  BY <1>1, <1>2, <1>3, HoldsTwo, Zenon DEF IInv
<1>5. Place("log copy") /\ Loc(p) = "log copy"
  BY <1>2, <1>3, PlaceNow, Zenon
<1>6. tail <= Len(lh)
  BY <1>5, Zenon DEF Place
<1>7. Place("log release from")
  BY <1>3, <1>5, <1>6, PlaceNext, Zenon
<1>8. buf[b].blockno # Header /\ buf[c].blockno # Header
  <2>1. buf[b].blockno = LogBlock(tail) /\ buf[c].blockno = lh[tail]
    BY <1>1, <1>5, Zenon DEF IInv, Control, Targets, Target, InHand
  <2> QED
    BY <1>2, <1>3, <1>6, <2>1, NotHeader, Zenon
<1>9. buf[c].data \in Kind(buf[b].blockno)
  BY <1>4, <1>8, Zenon DEF IInv, Cache, Kinds, Kind
<1>10. Count("log copy") = Count("log release from")
  BY <1>3, CountOf, Zenon
<1> QED
  BY <1>1, <1>2, <1>3, <1>4, <1>7, <1>8, <1>9, <1>10, WriteStep, Zenon

LEMMA WriteHeadCopy ==
  ASSUME IInv, NEW p \in Procs, th[p].pc = "head copy", DiskWrite(Got(p), lh),
         Goto(p, "head release"), lru' = lru, UNCHANGED <<logVars, ops>>
  PROVE  IInv'
<1>1. /\ {"head copy", "head release"} \subseteq Working \cap InHead \cap Single
      /\ "head copy" \notin InInstall /\ "head copy" \notin InLog
      /\ "head release" \notin InRecover \cup {"done"} \cup Indexed
  BY Zenon DEF Working, InLog, InInstall, Single, InRecover, InHead, Indexed
<1>2. PICK b : b = Got(p)
  BY Zenon
<1>3. 1 \in DOMAIN th[p].held /\ b = th[p].held[1] /\ b \in Bufs
  BY <1>1, <1>2, HoldsOne, Zenon DEF IInv
<1>4. Place("head copy") /\ Loc(p) = "head copy"
  BY <1>1, PlaceNow, Zenon
<1>5. Place("head release")
  BY <1>1, <1>4, PlaceNext, Zenon
<1>6. InHand(p, 1) = Header /\ buf[b].blockno = Header
  BY <1>3, <1>4, Zenon DEF IInv, Control, Targets, Target, InHand
<1>7. lh \in Kind(buf[b].blockno)
  BY <1>6, Zenon DEF IInv, Control, LogTypes, Kind
<1>8. Count("head copy") = Count("head release")
  BY <1>1, CountOf, Zenon
<1>9. DiskWrite(b, lh)
  BY <1>2, Zenon
<1> QED
  BY <1>1, <1>3, <1>5, <1>6, <1>7, <1>8, <1>9, HeaderBlock, WriteStep, Zenon

LEMMA WriteHeadStep ==
  ASSUME IInv, NEW p \in Procs, WriteHead(p)
  PROVE  IInv'
<1>1. UNCHANGED <<logVars, ops>>
  BY Zenon DEF WriteHead
<1>2. CASE th[p].pc = "head" /\ Bget(p, Header, "head copy")
  <2>1. /\ {"head", "head copy"} \subseteq Working /\ Reads("head", "head copy")
        /\ Wants("head copy", Header) /\ "head copy" \notin Indexed
    BY Zenon DEF Reads, Wants, Working, InHead, Indexed
  <2> QED
    BY <1>1, <1>2, <2>1, WorkBread, Zenon
<1>3. CASE th[p].pc = "head copy" /\ Bwrite(p, Got(p), lh, "head release")
  BY <1>1, <1>3, WriteHeadCopies, WriteHeadCopy, Zenon DEF IInv
<1>4. CASE /\ th[p].pc = "head release"
           /\ Brelse(p, 1, IF lh = <<>> THEN "done" ELSE "install")
  BY <1>1, <1>4, WriteHeadRelease, Zenon
<1> QED
  BY <1>2, <1>3, <1>4, Zenon DEF WriteHead, At

LEMMA InstallCounts ==
  ASSUME NEW n \in Int
  PROVE  n - 1 = n + (-1) /\ n = n + 0 /\ 0 = 1 + (-1) /\ 0 = 0 + 0
OBVIOUS

LEMMA NextIndex ==
  ASSUME NEW n \in Nat, NEW i \in 1 .. n + 1, i <= n
  PROVE  i + 1 \in Int /\ i + 1 \in 1 .. n + 1
OBVIOUS

LEMMA InstallCopyStep ==
  ASSUME IInv, NEW p \in Procs, InstallCopy(p)
  PROVE  IInv'
<1>1. PICK c, b, d, x : /\ c = th[p].held[1] /\ b = th[p].held[2]
                        /\ d = buf[c].data /\ x = lh[tail]
  BY Zenon
<1>2. /\ th[p].pc = "install copy" /\ lru' = lru /\ tail' = tail + 1
      /\ th' = [th EXCEPT ![p].pc = "install release log"]
      /\ UNCHANGED <<lh, outstanding, committing, wrote, booting, ops>>
  BY InstallOwns, Zenon DEF InstallCopy, At, IInv, Goto
<1>3. /\ buf' = [buf EXCEPT ![b].data = d,
                            ![b].refcnt = IF booting = NIL THEN @ - 1 ELSE @]
      /\ disk' = [disk EXCEPT ![buf[b].blockno] = d]
  BY <1>1, InstallOwns, Zenon DEF InstallCopy, IInv
<1>4. /\ {"install copy", "install release log"} \subseteq
            Working \cap InInstall \cap Double
      /\ {"install copy", "install release log"} \cap Calls = {}
      /\ "install release log" \in Locs
      /\ "install release log" \notin InRecover \cup {"done"} \cup InHead
      /\ "install release log" \notin {"commit"} \cup InLog
      /\ "install release log" \notin Indexed
  BY Zenon DEF Working, InInstall, Double, Locs, InRecover, InHead, InLog,
     Indexed, Calls
<1>5. /\ 2 \in DOMAIN th[p].held /\ b \in Bufs /\ c \in Bufs
      /\ buf[b].blockno \in Blocks /\ buf[c].valid
  BY <1>1, <1>2, <1>4, HoldsTwo, Zenon DEF IInv
<1>6. Place("install copy") /\ Loc(p) = "install copy"
  BY <1>2, <1>4, PlaceNow, Zenon
<1>7. /\ LogBlock(tail) # Header /\ x # Header /\ x \in Home
      /\ tail \in DOMAIN lh /\ tail <= Len(lh) /\ tail \in 1 .. Len(lh) + 1
  BY <1>1, <1>2, <1>4, <1>6, NotHeader, Zenon DEF Place
<1>8. buf[c].blockno = LogBlock(tail) /\ buf[b].blockno = x
  BY <1>1, <1>6, Zenon DEF IInv, Control, Targets, Target, InHand
<1>9. d \in AnyVersion /\ d \in Contents /\ Kind(x) = AnyVersion
  BY <1>1, <1>5, <1>7, <1>8, Zenon DEF IInv, Cache, Kinds, Kind, Contents
<1>10. /\ buf \in [Bufs -> Buffers] /\ disk \in [Blocks -> Contents]
       /\ \A y \in Blocks : disk[y] \in Kind(y)
  BY Zenon DEF IInv, Cache, Types, Kinds
<1>11. /\ buf' \in [Bufs -> Buffers] /\ disk' \in [Blocks -> Contents]
       /\ \A a \in Bufs \ {b} : buf'[a] = buf[a]
       /\ \A y \in Blocks : disk'[y] = IF y = x THEN d ELSE disk[y]
  BY <1>3, <1>5, <1>8, <1>9, <1>10, InstallCopied, Zenon
<1>12. /\ buf'[b].blockno = x /\ buf'[b].valid = buf[b].valid
       /\ buf'[b].owner = buf[b].owner /\ buf'[b].data = d
       /\ buf'[b].refcnt = IF booting = NIL THEN buf[b].refcnt - 1 ELSE buf[b].refcnt
  BY <1>3, <1>5, <1>8, <1>10, Zenon DEF Buffers
<1>13. \A a \in Bufs : buf'[a].blockno = buf[a].blockno
  BY <1>8, <1>11, <1>12, Zenon
<1>14. /\ Goes(p, "install copy", "install release log") /\ Keeps(p)
  BY <1>2, <1>4, <1>13, MovesGoes, Zenon DEF IInv, Cache
<1>15. Installing /\ Installing'
  BY <1>14, Zenon DEF Goes, Installing
<1>16. /\ booting = NIL => Pinned(x) /\ ~Pinned(x)'
       /\ booting # NIL => ~Pinned(x) /\ ~Pinned(x)'
       /\ \A y : y # x => (Pinned(y)' <=> Pinned(y))
  BY <1>1, <1>2, <1>7, <1>15, InstallPins, Zenon DEF IInv, Control, Lists
<1>17. PICK e \in {-1, 0} : e = IF booting = NIL THEN -1 ELSE 0
  BY Zenon
<1>18. buf'[b].refcnt = buf[b].refcnt + e /\ Pin(b)' = Pin(b) + e /\ e \in Int
  <2>1. buf[b].refcnt \in Int
    BY <1>5, <1>10, Zenon DEF Buffers
  <2>2. /\ booting = NIL => Pin(b) = 1 /\ Pin(b)' = 0
        /\ booting # NIL => Pin(b) = 0 /\ Pin(b)' = 0
    BY <1>8, <1>12, <1>16, Zenon DEF Pin
  <2>3. CASE booting = NIL
    BY <1>12, <1>17, <2>1, <2>2, <2>3, InstallCounts
  <2>4. CASE booting # NIL
    BY <1>12, <1>17, <2>1, <2>2, <2>4, InstallCounts
  <2> QED
    BY <2>3, <2>4, Zenon
<1>19. \A a \in Bufs \ {b} : Pin(a)' = Pin(a)
  <2>1. \A a \in Bufs \ {b} : buf[a].blockno # x
    <3>1. x # NIL
      BY <1>5, <1>8, BioAssumption, Zenon
    <3> QED
      BY <1>5, <1>8, <3>1, Zenon DEF IInv, Cache, BufferCache, OneBufferPerBlock
  <2> QED
    BY <1>13, <1>16, <2>1, Zenon DEF Pin
<1>20. Count("install release log") = Count(th[p].pc)
  BY <1>2, <1>4, CountOf, Zenon
<1>21. Puts(p, b, "install release log", e)
  <2>1. \A y \in Blocks : disk'[y] \in Kind(y)
    BY <1>9, <1>10, <1>11, Zenon
  <2>2. \A y \in Blocks : Pinned(y)' => Pinned(y) \/ y = buf[b].blockno
    BY <1>8, <1>16, Zenon
  <2> QED
    BY <1>2, <1>4, <1>8, <1>9, <1>11, <1>12, <1>18, <1>19, <1>20, <2>1, <2>2,
       Zenon DEF Puts
<1>22. Cache'
  BY <1>1, <1>2, <1>4, <1>5, <1>18, <1>21, PutsCache, Zenon DEF IInv
<1>23. disk'[Header] = disk[Header]
  BY <1>7, <1>11, HeaderBlock, Zenon
<1>24. HeaderBuf'
  <2>1. \A a \in Bufs : buf[a].valid /\ buf[a].blockno = Header =>
                           buf[a].data = disk[Header]
    BY Zenon DEF IInv, Control, Lists, HeaderBuf
  <2>2. \A a \in Bufs : buf'[a].blockno = Header => buf'[a] = buf[a]
    BY <1>7, <1>11, <1>12, Zenon
  <2> QED
    BY <1>23, <2>1, <2>2, Zenon DEF HeaderBuf
<1>25. tail' \in Int /\ tail' \in 1 .. Len(lh) + 1
  <2>1. Len(lh) \in Nat
    BY DEF IInv, Control, LogTypes
  <2> QED
    BY <1>2, <1>7, <2>1, NextIndex, Zenon
<1>26. LogTypes' /\ Lists'
  BY <1>2, <1>23, <1>24, <1>25, Zenon DEF IInv, Control, LogTypes, Lists
<1>27. Place("install release log")'
  BY <1>2, <1>4, <1>25, Zenon DEF Place, Indexed
<1>28. Target(p)'
  BY <1>14, Zenon DEF Goes, Target
<1>29. Control'
  BY <1>2, <1>4, <1>14, <1>26, <1>27, <1>28, WorkerMoves, Zenon DEF IInv, Cache
<1> QED
  BY <1>22, <1>29, Zenon DEF IInv

LEMMA NextIsVersion ==
  ASSUME NEW d \in AnyVersion
  PROVE  NextVersion(d) \in AnyVersion
<1>1. PICK v \in Nat : d = <<v>>
  BY Zenon DEF AnyVersion, Version
<1>2. d[1] + 1 \in Nat
  BY <1>1
<1> QED
  BY <1>2, Zenon DEF AnyVersion, NextVersion

(* The buffer that log_write changes and pins. *)
Written(b, d, n) == buf' = [buf EXCEPT ![b] = [buf[b] EXCEPT !.data = d, !.refcnt = n]]

LEMMA LogWritten ==
  ASSUME buf \in [Bufs -> Buffers], NEW b \in Bufs, NEW d \in Contents,
         NEW n \in Int, Written(b, d, n)
  PROVE  /\ buf' \in [Bufs -> Buffers]
         /\ \A a \in Bufs \ {b} : buf'[a] = buf[a]
         /\ buf'[b].blockno = buf[b].blockno /\ buf'[b].valid = buf[b].valid
         /\ buf'[b].owner = buf[b].owner /\ buf'[b].data = d
         /\ buf'[b].refcnt = n
<1>1. buf[b] \in Buffers
  BY Zenon
<1>3. [buf[b] EXCEPT !.data = d, !.refcnt = n] \in Buffers
  BY <1>1, Zenon DEF Buffers
<1>4. buf' \in [Bufs -> Buffers] /\ \A a \in Bufs \ {b} : buf'[a] = buf[a]
  BY <1>3, Zenon DEF Written
<1>5. buf'[b] = [buf[b] EXCEPT !.data = d, !.refcnt = n]
  BY Zenon DEF Written
<1> QED
  BY <1>1, <1>4, <1>5, Zenon DEF Buffers

LEMMA LogWriteStep ==
  ASSUME IInv, NEW p \in Procs, LogWrite(p)
  PROVE  IInv'
<1>1. PICK b, x, d : b = Got(p) /\ x = buf[b].blockno /\ d = NextVersion(buf[b].data)
  BY Zenon
<1>2. /\ th[p].pc = "modify"
      /\ UNCHANGED <<outstanding, committing, tail, booting, ops>>
  BY Zenon DEF LogWrite, At
<1>3. ASSUME NEW msg, msg # "", Panic(msg), UNCHANGED <<lh, wrote>>
      PROVE  IInv'
  <2>1. Halts /\ UNCHANGED <<logVars, ops>>
    BY <1>2, <1>3, Zenon DEF Halts, Panic, logVars
  <2> QED
    BY <2>1, HaltsKept, Zenon
<1>4. ASSUME Len(lh) < NLog - 1,
             buf' = [buf EXCEPT ![b].data = NextVersion(@),
                                ![b].refcnt = IF Logged(x) THEN @ ELSE @ + 1],
             lh' = IF Logged(x) THEN lh ELSE Append(lh, x),
             wrote' = [wrote EXCEPT ![p] = [calls |-> wrote[p].calls + 1,
                                            blocks |-> wrote[p].blocks \cup {x}]],
             th' = [th EXCEPT ![p].pc = "release"], UNCHANGED <<lru, disk>>
      PROVE  IInv'
  <2>1. /\ {"modify", "release"} \subseteq (Locs \cap Single) \ Working
        /\ {"modify", "release"} \cap Calls = {}
        /\ {"modify", "release"} \subseteq InOpLocs
        /\ {"modify", "release"} \cap InInstall = {}
    BY Zenon DEF Locs, Single, Working, InLog, InHead, InInstall, InRecover,
       Calls, InOpLocs
  <2>2. /\ 1 \in DOMAIN th[p].held /\ b = th[p].held[1] /\ b \in Bufs
        /\ buf[b].valid /\ x \in Blocks
    BY <1>1, <1>2, <2>1, HoldsOne, Zenon DEF IInv
  <2>3. Loc(p) = "modify"
    BY <1>2, Zenon DEF Loc
  <2>4. x \in Home /\ x # Header
    <3>1. x \in Home
      BY <1>1, <2>2, <2>3, Zenon DEF IInv, Control, Targets, Target, InHand
    <3> QED
      BY <3>1, HeaderBlock, Zenon
  <2>5. /\ booting = NIL /\ ~Installing
    BY <2>1, <2>3, NoWorker, Zenon
  <2>6. d \in AnyVersion /\ d \in Contents /\ Kind(x) = AnyVersion
    <3>1. buf[b].data \in AnyVersion
      BY <1>1, <2>2, <2>4, Zenon DEF IInv, Cache, Kinds, Kind
    <3> QED
      BY <1>1, <2>4, <3>1, NextIsVersion, Zenon DEF Kind, Contents
  <2>7. PICK e \in {0, 1} : e = IF Logged(x) THEN 0 ELSE 1
    BY Zenon
  <2>8. PICK n : n = buf[b].refcnt + e
    BY Zenon
  <2>9. buf \in [Bufs -> Buffers] /\ buf[b].refcnt \in Int
    BY <2>2, Zenon DEF IInv, Cache, Types, Buffers
  <2>10. Written(b, d, n)
    <3>1. n = IF Logged(x) THEN buf[b].refcnt ELSE buf[b].refcnt + 1
      BY <2>7, <2>8, <2>9
    <3> QED
      BY <1>1, <1>4, <3>1, <2>9, Zenon DEF Buffers, Written
  <2>11. /\ buf' \in [Bufs -> Buffers]
         /\ \A a \in Bufs \ {b} : buf'[a] = buf[a]
         /\ buf'[b].blockno = x /\ buf'[b].valid = buf[b].valid
         /\ buf'[b].owner = buf[b].owner /\ buf'[b].data = d
         /\ buf'[b].refcnt = buf[b].refcnt + e
    <3>1. n \in Int
      BY <2>7, <2>8, <2>9
    <3>2. b \in Bufs /\ d \in Contents
      BY <2>2, <2>6, Zenon
    <3>3. /\ buf' \in [Bufs -> Buffers]
          /\ \A a \in Bufs \ {b} : buf'[a] = buf[a]
          /\ buf'[b].blockno = buf[b].blockno /\ buf'[b].valid = buf[b].valid
          /\ buf'[b].owner = buf[b].owner /\ buf'[b].data = d
          /\ buf'[b].refcnt = n
      BY <2>9, <2>10, <3>1, <3>2, LogWritten, Zenon
    <3> QED
      BY <1>1, <2>8, <3>3, Zenon
  <2>12. \A a \in Bufs : buf'[a].blockno = buf[a].blockno
    BY <1>1, <2>11, Zenon
  <2>13. /\ Goes(p, "modify", "release") /\ Keeps(p)
         /\ InHand(p, 1)' = InHand(p, 1)
    BY <1>2, <1>4, <2>1, <2>2, <2>12, MovesGoes, Zenon DEF IInv, Cache
  <2>14. ~Installing'
    BY <2>5, <2>13, Zenon DEF Installing, Goes
  <2>15. /\ lh' \in Seq(Home) /\ Distinct(lh') /\ Len(lh') <= Len(lh) + 1
         /\ \E i \in DOMAIN lh' : lh'[i] = x
         /\ \A y : y # x => ((\E i \in DOMAIN lh' : lh'[i] = y) <=>
                             (\E i \in DOMAIN lh : lh[i] = y))
    BY <1>4, <2>4, LogTakes, Zenon DEF IInv, Control, LogTypes, Lists
  <2>16. /\ Pinned(x)' /\ (Pinned(x) <=> Logged(x))
         /\ \A y : y # x => (Pinned(y)' <=> Pinned(y))
    BY <1>2, <2>5, <2>14, <2>15, Zenon DEF Pinned, Logged
  <2>17. Pin(b)' = Pin(b) + e
    <3>1. Pin(b)' = 1 /\ Pin(b) = IF Logged(x) THEN 1 ELSE 0
      BY <1>1, <2>11, <2>16, Zenon DEF Pin
    <3> QED
      BY <2>7, <3>1
  <2>18. \A a \in Bufs \ {b} : Pin(a)' = Pin(a)
    <3>1. \A a \in Bufs \ {b} : buf[a].blockno # x
      <4>1. x # NIL
        BY <2>2, BioAssumption, Zenon
      <4> QED
        BY <1>1, <2>2, <4>1, Zenon DEF IInv, Cache, BufferCache, OneBufferPerBlock
    <3> QED
      BY <2>12, <2>16, <3>1, Zenon DEF Pin
  <2>19. Count("release") = Count(th[p].pc)
    BY <1>2, <2>1, CountOf, Zenon
  <2>20. disk' \in [Blocks -> Contents] /\ \A y \in Blocks : disk'[y] \in Kind(y)
    BY <1>4, Zenon DEF IInv, Cache, Types, Kinds
  <2>21. Puts(p, b, "release", e)
    BY <1>1, <1>4, <2>1, <2>6, <2>11, <2>16, <2>17, <2>18, <2>19, <2>20,
       Zenon DEF Puts
  <2>22. e \in Int
    OBVIOUS
  <2>23. Cache'
    BY <1>2, <2>1, <2>2, <2>21, <2>22, PutsCache, Zenon DEF IInv
  <2>24. LogTypes'
    <3>1. wrote' \in [Procs -> [calls : Nat, blocks : SUBSET Home]]
      <4>1. wrote \in [Procs -> [calls : Nat, blocks : SUBSET Home]]
        BY Zenon DEF IInv, Control, LogTypes
      <4> QED
        BY <1>4, <2>4, <4>1
    <3> QED
      BY <1>2, <2>15, <3>1, Zenon DEF IInv, Control, LogTypes
  <2>25. Lists'
    <3>1. Len(lh') < NLog
      <4>1. Len(lh) \in Nat /\ Len(lh') \in Nat
        BY <2>15 DEF IInv, Control, LogTypes
      <4> QED
        BY <1>4, <2>15, <4>1, LogAssumption
    <3>2. \A a \in Bufs : buf[a].valid /\ buf[a].blockno = Header =>
                             buf[a].data = disk[Header]
      BY Zenon DEF IInv, Control, Lists, HeaderBuf
    <3>3. \A a \in Bufs : buf'[a].blockno = Header => buf'[a] = buf[a]
      BY <2>4, <2>11, Zenon
    <3>4. HeaderBuf'
      BY <1>4, <3>2, <3>3, Zenon DEF HeaderBuf
    <3> QED
      BY <1>4, <2>15, <3>1, <3>4, Zenon DEF IInv, Control, Lists
  <2>26. Target(p)'
    <3>1. InHand(p, 1)' \in Home
      BY <1>1, <2>2, <2>4, <2>13, Zenon DEF InHand
    <3> QED
      BY <2>13, <3>1, Zenon DEF Goes, Target
  <2>27. Control'
    BY <1>2, <2>1, <2>13, <2>24, <2>25, <2>26, OpMoves, Zenon DEF IInv, Cache
  <2> QED
    BY <2>23, <2>27, Zenon DEF IInv
<1>5. CASE Len(lh) >= LOGSIZE \/ Len(lh) >= NLog - 1
  <2>1. Panic("too big a transaction") /\ UNCHANGED <<lh, wrote>>
    BY <1>5, Zenon DEF LogWrite
  <2> QED
    BY <1>3, <2>1, Zenon
<1>6. CASE ~(Len(lh) >= LOGSIZE \/ Len(lh) >= NLog - 1) /\ outstanding < 1
  <2>1. Panic("log_write outside of trans") /\ UNCHANGED <<lh, wrote>>
    BY <1>6, Zenon DEF LogWrite
  <2> QED
    BY <1>3, <2>1, Zenon
<1>7. CASE ~(Len(lh) >= LOGSIZE \/ Len(lh) >= NLog - 1) /\ ~(outstanding < 1)
  <2>1. Len(lh) < NLog - 1
    <3>1. Len(lh) \in Nat
      BY DEF IInv, Control, LogTypes
    <3>2. ~(Len(lh) >= NLog - 1)
      BY <1>7, Zenon
    <3> QED
      BY <3>1, <3>2, LogAssumption
  <2>2. /\ buf' = [buf EXCEPT ![b].data = NextVersion(@),
                              ![b].refcnt = IF Logged(x) THEN @ ELSE @ + 1]
        /\ lh' = IF Logged(x) THEN lh ELSE Append(lh, x)
        /\ th' = [th EXCEPT ![p].pc = "release"] /\ UNCHANGED <<lru, disk>>
        /\ wrote' = [wrote EXCEPT ![p] = [calls |-> wrote[p].calls + 1,
                                          blocks |-> wrote[p].blocks \cup {x}]]
    BY <1>1, <1>7, Zenon DEF LogWrite, Goto
  <2> QED
    BY <1>4, <2>1, <2>2, Zenon
<1> QED
  BY <1>5, <1>6, <1>7, Zenon

LEMMA BeginOpStep ==
  ASSUME IInv, NEW p \in Procs, BeginOp(p)
  PROVE  IInv'
<1>1. /\ th[p].pc = "begin" /\ UNCHANGED <<buf, lru, disk>>
      /\ UNCHANGED <<lh, committing, tail, booting, ops>>
  BY Zenon DEF BeginOp, At
<1>2. /\ {"begin", "sleep", "op"} \subseteq (Locs \cap Free) \ Working
      /\ {"begin", "sleep"} \cap InOpLocs = {} /\ "op" \in InOpLocs
      /\ {"begin", "sleep", "op"} \cap InInstall = {}
      /\ {"begin", "sleep", "op"} \cap InRecover = {}
  BY Zenon DEF Locs, Free, Working, InLog, InHead, InInstall, InRecover, InOpLocs
<1>3. CASE th' = [th EXCEPT ![p].pc = "sleep"] /\ UNCHANGED <<outstanding, wrote>>
  <2>1. Goes(p, "begin", "sleep") /\ Keeps(p) /\ Target(p)' /\ (SamePins => Cache')
    BY <1>1, <1>2, <1>3, JumpGoes, Zenon DEF IInv
  <2>2. SamePins
    BY <1>1, <1>2, <2>1, PinsKept, Zenon
  <2>3. LogTypes' /\ Lists'
    BY <1>1, <1>3, Zenon DEF IInv, Control, LogTypes, Lists, HeaderBuf
  <2>4. Control'
    BY <1>1, <1>2, <1>3, <2>1, <2>3, OpMoves, Zenon DEF IInv, Cache
  <2> QED
    BY <2>1, <2>2, <2>4, Zenon DEF IInv
<1>4. CASE /\ ~committing /\ th' = [th EXCEPT ![p].pc = "op"]
           /\ outstanding' = outstanding + 1
           /\ wrote' = [wrote EXCEPT ![p] = NoWrites]
  <2>1. Goes(p, "begin", "op") /\ Keeps(p) /\ Target(p)' /\ (SamePins => Cache')
    BY <1>1, <1>2, <1>4, JumpGoes, Zenon DEF IInv
  <2>2. SamePins
    BY <1>1, <1>2, <2>1, PinsKept, Zenon
  <2>3. LogTypes'
    <3>1. outstanding' \in Int
      BY <1>4 DEF IInv, Control, LogTypes
    <3>2. NoWrites \in [calls : Nat, blocks : SUBSET Home]
      BY Zenon DEF NoWrites
    <3>3. wrote' \in [Procs -> [calls : Nat, blocks : SUBSET Home]]
      BY <1>4, <3>2, Zenon DEF IInv, Control, LogTypes
    <3> QED
      BY <1>1, <3>1, <3>3, Zenon DEF IInv, Control, LogTypes
  <2>4. Lists'
    BY <1>1, Zenon DEF IInv, Control, Lists, HeaderBuf
  <2>5. Loc(p) = "begin" /\ Loc(p)' = "op" /\ booting = NIL
    <3>1. Loc(p) = "begin" /\ Loc(p)' = "op"
      BY <2>1, Zenon DEF Goes
    <3> QED
      BY <3>1, Running, Zenon DEF IInv, Control, InHead, InInstall, InRecover
  <2>6. \A q \in Procs : Loc(q)' \in Working <=> Loc(q) \in Working
    <3>1. "sleep" \notin Working /\ "begin" \notin Working /\ "op" \notin Working
      BY <1>2, Zenon
    <3> QED
      BY <2>1, <2>5, <3>1, Zenon DEF Goes
  <2>7. InOp' = InOp \cup {p} /\ p \notin InOp
    <3>1. \A q \in Procs \ {p} : Loc(q)' \in InOpLocs <=> Loc(q) \in InOpLocs
      BY <2>1, Zenon DEF Goes, InOpLocs
    <3>2. InOp = {q \in Procs : Loc(q) \in InOpLocs}
      BY Zenon DEF InOp, InOpLocs
    <3>3. InOp' = {q \in Procs : Loc(q)' \in InOpLocs}
      BY Zenon DEF InOp, InOpLocs
    <3> QED
      BY <1>2, <2>5, <3>1, <3>2, <3>3, Zenon
  <2>8. outstanding' = Cardinality(InOp)' /\ outstanding' # 0
    <3>1. InOp \in SUBSET Procs
      BY Zenon DEF InOp
    <3>2. Cardinality(InOp \cup {p}) = Cardinality(InOp) + 1 /\ Cardinality(InOp) \in Nat
      BY <2>7, <3>1, Zenon DEF IInv, Cache, Elementary
    <3>3. outstanding = Cardinality(InOp)
      BY Zenon DEF IInv, Control, Turns
    <3>4. Cardinality(InOp) + 1 # 0
      BY <3>2
    <3> QED
      BY <1>4, <2>7, <3>2, <3>3, <3>4, Zenon
  <2>9. Turns'
    <3>1. \A q \in Procs : Loc(q)' \notin {"off"} \cup InRecover
      <4>1. \A q \in Procs : Loc(q) \notin {"off"} \cup InRecover
        BY <2>5, Zenon DEF IInv, Control, Turns
      <4> QED
        BY <2>1, <4>1, Zenon DEF Goes, InRecover
    <3>2. booting' = NIL /\ ~committing'
      BY <1>1, <1>4, <2>5, Zenon
    <3>3. \A q \in Procs : Loc(q)' \notin Working
      BY <1>4, <2>5, <2>6, Zenon DEF IInv, Control, Turns
    <3> QED
      BY <2>8, <3>1, <3>2, <3>3, Zenon DEF Turns
  <2>10. Positions'
    BY <1>1, <1>2, <2>1, PositionsKept, Zenon DEF IInv, Control
  <2>11. Targets'
    BY <1>1, <1>2, <2>1, TargetsKept, Zenon DEF IInv, Control, Cache
  <2> QED
    BY <2>1, <2>2, <2>3, <2>4, <2>9, <2>10, <2>11, Zenon DEF IInv, Control
<1> QED
  BY <1>3, <1>4, Zenon DEF BeginOp, Goto

LEMMA EndOpStep ==
  ASSUME IInv, NEW p \in Procs, EndOp(p)
  PROVE  IInv'
<1>1. /\ th[p].pc = "op" /\ outstanding' = outstanding - 1
      /\ wrote' = [wrote EXCEPT ![p] = NoWrites]
      /\ UNCHANGED <<lh, tail, booting, ops>>
  BY Zenon DEF EndOp, At
<1>2. /\ {"op", "idle", "commit"} \subseteq Locs \cap Free /\ {"op", "idle"} \cap Working = {}
      /\ "op" \in InOpLocs /\ {"idle", "commit"} \cap InOpLocs = {} /\ "commit" \in Working
      /\ {"op", "idle", "commit"} \cap InInstall = {} /\ "idle" # "sleep"
      /\ {"op", "idle", "commit"} \cap InRecover = {} /\ "commit" # "sleep"
  BY Zenon DEF Locs, Free, Working, InLog, InHead, InInstall, InRecover, InOpLocs
<1>3. Loc(p) = "op"
  BY <1>1, Zenon DEF Loc
<1>4. /\ booting = NIL /\ outstanding # 0 /\ ~committing
      /\ \A q \in Procs : Loc(q) \notin Working
  BY <1>2, <1>3, NoWorker, Zenon
<1>5. PICK to \in {"idle", "commit"} :
        /\ \/ th' = [th EXCEPT ![p].pc = to]
           \/ th' = Wakeup([th EXCEPT ![p].pc = to]) /\ to # "sleep"
        /\ UNCHANGED <<buf, lru, disk>>
        /\ to = "commit" <=> committing'
        /\ to = "commit" <=> outstanding = 1
        /\ committing' \in BOOLEAN
  <2>1. CASE outstanding = 1
    BY <1>4, <2>1, Zenon DEF EndOp, Goto
  <2>2. CASE outstanding # 1
    <3>1. /\ th' = Wakeup([th EXCEPT ![p].pc = "idle"]) /\ UNCHANGED <<buf, lru, disk>>
          /\ ~committing' /\ committing' \in BOOLEAN
      BY <1>4, <2>2, Zenon DEF EndOp, IInv, Control, LogTypes
    <3>2. "idle" # "sleep" /\ "idle" # "commit"
      BY Zenon
    <3> QED
      BY <2>2, <3>1, <3>2, Zenon
  <2> QED
    BY <2>1, <2>2, Zenon
<1>6. Goes(p, "op", to) /\ Keeps(p) /\ Target(p)' /\ (SamePins => Cache')
  BY <1>1, <1>2, <1>5, JumpGoes, Zenon DEF IInv
<1>7. SamePins
  BY <1>1, <1>2, <1>6, PinsKept, Zenon
<1>8. LogTypes'
  <2>1. outstanding' \in Int
    BY <1>1 DEF IInv, Control, LogTypes
  <2>2. NoWrites \in [calls : Nat, blocks : SUBSET Home]
    BY Zenon DEF NoWrites
  <2>3. wrote' \in [Procs -> [calls : Nat, blocks : SUBSET Home]]
    BY <1>1, <2>2, Zenon DEF IInv, Control, LogTypes
  <2> QED
    BY <1>1, <1>5, <2>1, <2>3, Zenon DEF IInv, Control, LogTypes
<1>9. Lists'
  BY <1>1, <1>5, Zenon DEF IInv, Control, Lists, HeaderBuf
<1>10. Loc(p)' = to /\ \A q \in Procs \ {p} : Loc(q)' \notin Working
  <2>1. "begin" \notin Working
    BY Zenon DEF Working, InLog, InHead, InInstall, InRecover
  <2> QED
    BY <1>4, <1>6, <2>1, Zenon DEF Goes
<1>11. InOp' = InOp \ {p} /\ p \in InOp
  <2>1. \A q \in Procs \ {p} : Loc(q)' \in InOpLocs <=> Loc(q) \in InOpLocs
    BY <1>6, Zenon DEF Goes, InOpLocs
  <2>2. InOp = {q \in Procs : Loc(q) \in InOpLocs}
    BY Zenon DEF InOp, InOpLocs
  <2>3. InOp' = {q \in Procs : Loc(q)' \in InOpLocs}
    BY Zenon DEF InOp, InOpLocs
  <2> QED
    BY <1>2, <1>3, <1>10, <2>1, <2>2, <2>3, Zenon
<1>12. outstanding' = Cardinality(InOp)' /\ (outstanding' = 0 <=> to = "commit")
  <2>1. InOp \in SUBSET Procs
    BY Zenon DEF InOp
  <2>2. Cardinality(InOp \ {p}) = Cardinality(InOp) - 1 /\ Cardinality(InOp) \in Nat
    BY <1>11, <2>1, Zenon DEF IInv, Cache, Elementary
  <2>3. outstanding = Cardinality(InOp)
    BY Zenon DEF IInv, Control, Turns
  <2>4. outstanding - 1 = 0 <=> outstanding = 1
    BY <2>2, <2>3
  <2> QED
    BY <1>1, <1>5, <1>11, <2>2, <2>3, <2>4, Zenon
<1>13. Turns'
  <2>1. \A q \in Procs : Loc(q)' \notin {"off"} \cup InRecover
    <3>1. \A q \in Procs : Loc(q) \notin {"off"} \cup InRecover
      BY <1>4, Zenon DEF IInv, Control, Turns
    <3> QED
      BY <1>6, <3>1, Zenon DEF Goes, InRecover
  <2>2. booting' = NIL
    BY <1>1, <1>4, Zenon
  <2>3. \A q \in Procs : Loc(q)' \in Working <=> q = p /\ to = "commit"
    BY <1>2, <1>10, Zenon
  <2> QED
    BY <1>5, <1>12, <2>1, <2>2, <2>3, Zenon DEF Turns
<1>14. Positions'
  <2>1. tail' = 1
    BY <1>1, <1>4, Zenon DEF IInv, Control, Positions
  <2>2. Place("commit")'
    BY <1>8, <2>1, AtStart, Zenon DEF Indexed, InRecover, InHead
  <2> QED
    BY <1>2, <1>10, <2>1, <2>2, Zenon DEF Positions
<1>15. Targets'
  BY <1>1, <1>2, <1>4, <1>6, TargetsKept, Zenon DEF IInv, Control, Cache
<1> QED
  BY <1>6, <1>7, <1>8, <1>9, <1>13, <1>14, <1>15, Zenon DEF IInv, Control

(* The operation that commits, or the recovery, is over. *)
LEMMA DoneStep ==
  ASSUME IInv, NEW p \in Procs, Done(p)
  PROVE  IInv'
<1>1. /\ th[p].pc = "done" /\ booting' = NIL /\ committing' = FALSE
      /\ UNCHANGED <<buf, lru, disk, lh, outstanding, tail, wrote, ops>>
  BY Zenon DEF Done, At
<1>2. /\ {"done", "idle", "off"} \subseteq Locs \cap Free /\ "done" \in Working
      /\ {"done", "idle", "begin"} \cap InInstall = {} /\ {"idle", "begin"} \cap Working = {}
      /\ {"done", "idle", "begin"} \cap InRecover = {}
      /\ {"done", "idle", "begin", "off"} \cap InOpLocs = {}
  BY Zenon DEF Locs, Free, Working, InLog, InHead, InInstall, InRecover, InOpLocs
<1>3. Place("done") /\ Loc(p) = "done"
  BY <1>1, <1>2, PlaceNow, Zenon
<1>4. lh = <<>> /\ tail = 1
  BY <1>3, Zenon DEF Place, InLog, InInstall
<1>5. SamePins
  <2>1. DOMAIN lh = {}
    BY <1>4
  <2> QED
    BY <1>1, <2>1, Zenon DEF SamePins, Pinned
<1>6. LogTypes' /\ Lists'
  BY <1>1, Zenon DEF IInv, Control, LogTypes, Lists, HeaderBuf
<1>7. ASSUME \A q \in Procs : Loc(q)' \notin Working \cup {"off"}, InOp' = InOp,
             outstanding = 0, Cache', Targets'
      PROVE  IInv'
  <2>1. Turns'
    <3>1. InRecover \subseteq Working
      BY Zenon DEF Working
    <3> QED
      BY <1>1, <1>4, <1>7, <3>1, Zenon DEF IInv, Control, Turns
  <2>2. Positions'
    BY <1>1, <1>4, <1>7, Zenon DEF Positions
  <2> QED
    BY <1>6, <1>7, <2>1, <2>2, Zenon DEF IInv, Control
<1>8. CASE booting # NIL
  <2>1. th' = [q \in Procs |-> Thread("idle")]
    BY <1>8, Zenon DEF Done
  <2>2. \A q \in Procs : /\ th'[q].pc = "idle" /\ th'[q].held = <<>>
                         /\ th'[q].drop = NIL
    BY <2>1, Zenon DEF Thread
  <2>3. \A q \in Procs : th[q].pc \in {"done", "off"}
    BY <1>1, <1>8, Zenon DEF IInv, Control, Turns, LogTypes
  <2>4. \A q \in Procs : th[q].pc \in Free /\ th[q].held = <<>> /\ th[q].drop = NIL
    <3> TAKE q \in Procs
    <3>1. th[q].pc \in Free /\ th[q].pc \notin Calls
      BY <2>3, Zenon DEF Free, Calls
    <3>2. Len(th[q].held) = 0
      BY <3>1, HeldNow, CountOf, Zenon DEF IInv, Cache
    <3>3. th[q].held \in Seq(Bufs)
      BY Zenon DEF IInv, Cache, Types, Threads
    <3>4. th[q].held = <<>>
      BY <3>2, <3>3
    <3>5. th[q].drop = NIL
      BY <3>1, Zenon DEF IInv, Cache, Hands, Hand, Calls
    <3> QED
      BY <3>1, <3>4, <3>5, Zenon
  <2>5. th' \in [Procs -> Threads]
    BY <2>1 DEF Thread, Threads, Locs, Free
  <2>6. Cache'
    BY <1>1, <1>2, <1>5, <2>2, <2>4, <2>5, JumpsCache, Zenon DEF IInv
  <2>7. \A q \in Procs : Loc(q) \in {"done", "off"} /\ Loc(q)' = "idle"
    BY <2>2, <2>3, Zenon DEF Loc
  <2>8. InOp = {} /\ InOp' = {}
    BY <2>7, Zenon DEF InOp
  <2>9. outstanding = 0
    BY <2>8, Zenon DEF IInv, Control, Turns, Cache, Elementary
  <2>10. Targets'
    BY <2>7, Zenon DEF Targets, Target
  <2> QED
    BY <1>2, <1>7, <2>6, <2>7, <2>8, <2>9, <2>10, Zenon
<1>9. CASE booting = NIL
  <2>1. th' = Wakeup([th EXCEPT ![p].pc = "idle"]) /\ "idle" # "sleep"
    BY <1>9, Zenon DEF Done
  <2>2. Goes(p, "done", "idle") /\ Keeps(p) /\ Target(p)' /\ Cache'
    BY <1>1, <1>2, <1>5, <2>1, JumpGoes, Zenon DEF IInv
  <2>3. committing /\ outstanding = 0
    BY <1>2, <1>3, <1>9, Zenon DEF IInv, Control, Turns
  <2>4. \A q \in Procs : Loc(q)' \notin Working \cup {"off"}
    <3>1. \A q \in Procs \ {p} : Loc(q) \notin Working
      BY <1>2, <1>3, Zenon DEF IInv, Control, Turns
    <3>2. \A q \in Procs : Loc(q) # "off"
      BY <1>9, Zenon DEF IInv, Control, Turns
    <3> QED
      BY <1>2, <2>2, <3>1, <3>2, Zenon DEF Goes
  <2>5. InOp' = InOp
    <3>1. \A q \in Procs : Loc(q)' \in InOpLocs <=> Loc(q) \in InOpLocs
      BY <2>2, Zenon DEF Goes, InOpLocs
    <3> QED
      BY <3>1, Zenon DEF InOp, InOpLocs
  <2>6. Targets'
    BY <1>2, <2>2, TargetsKept, Zenon DEF IInv, Control, Cache
  <2> QED
    BY <1>7, <2>2, <2>3, <2>4, <2>5, <2>6, Zenon
<1> QED
  BY <1>8, <1>9, Zenon

(* The log after a boot. *)
FreshLog ==
  /\ lh = <<>> /\ outstanding = 0 /\ committing = FALSE /\ tail = 1
  /\ wrote = [p \in Procs |-> NoWrites]
  /\ ops \in Nat
  /\ Distinct(disk[Header]) /\ Len(disk[Header]) < NLog

LEMMA FreshInv == Elementary /\ Fresh /\ FreshLog => IInv
<1> SUFFICES ASSUME Elementary, Fresh, FreshLog PROVE IInv
  BY Zenon
<1>1. PICK p \in Procs : booting = p /\ th = Boot(p)
  BY Zenon DEF Fresh
<1>2. \A q \in Procs : th[q].pc = IF q = p THEN "recover" ELSE "off"
  BY <1>1, Zenon DEF Boot, Thread
<1>3. \A q \in Procs : Loc(q) = IF q = p THEN "recover" ELSE "off"
  BY <1>2, Zenon DEF Loc
<1>4. /\ "recover" \in InRecover /\ "recover" \in Working /\ "off" \notin Working
      /\ "recover" \notin InLog \cup InInstall \cup InHead \cup {"done"}
  BY Zenon DEF Working, InLog, InHead, InInstall, InRecover
<1>5. booting # NIL
  BY <1>1, BioAssumption, Zenon
<1>6. LogTypes
  <2>1. /\ <<>> \in Seq(Home) /\ 0 \in Int /\ 1 \in Int
        /\ NoWrites \in [calls : Nat, blocks : SUBSET Home]
    BY DEF NoWrites
  <2> QED
    BY <1>1, <2>1, Zenon DEF FreshLog, LogTypes
<1>7. Lists
  <2>1. Distinct(<<>>) /\ Len(<<>>) < NLog
    BY LogAssumption DEF Distinct
  <2>2. HeaderBuf
    BY Zenon DEF HeaderBuf, Fresh, BInit, FreshBuf
  <2> QED
    BY <2>1, <2>2, Zenon DEF FreshLog, Lists
<1>8. Turns
  <2>1. InOp = {}
    BY <1>3, Zenon DEF InOp
  <2>2. Cardinality(InOp) = 0
    BY <2>1, Zenon DEF Elementary
  <2> QED
    BY <1>1, <1>2, <1>3, <1>4, <1>5, <2>2, Zenon DEF Turns, FreshLog
<1>9. Positions
  <2>1. 1 \in 1 .. Len(<<>>) + 1
    OBVIOUS
  <2>2. Place("recover")
    BY <1>4, <2>1, Zenon DEF Place, FreshLog
  <2> QED
    BY <1>3, <1>4, <2>2, Zenon DEF Positions, FreshLog
<1>10. Targets
  BY <1>3, Zenon DEF Targets, Target
<1> QED
  BY <1>6, <1>7, <1>8, <1>9, <1>10, FreshCache, Zenon DEF IInv, Control

LEMMA InitInv ==
  ASSUME Elementary, Init
  PROVE  IInv
<1>1. disk = [b \in Blocks |-> IF b = Header THEN <<>> ELSE Version(0)]
  BY Zenon DEF Init
<1>2. <<>> \in Seq(Home) /\ Version(0) \in AnyVersion
  BY DEF AnyVersion
<1>3. disk \in [Blocks -> Contents] /\ \A x \in Blocks : disk[x] \in Kind(x)
  BY <1>1, <1>2, Zenon DEF Contents, Kind
<1>4. disk[Header] = <<>>
  BY <1>1, HeaderBlock, Zenon
<1>5. Distinct(<<>>) /\ Len(<<>>) < NLog /\ 0 \in Nat
  BY LogAssumption DEF Distinct
<1> QED
  BY <1>3, <1>4, <1>5, FreshInv, Zenon DEF Init, Fresh, FreshLog

LEMMA CrashStep ==
  ASSUME IInv, Crash
  PROVE  IInv'
<1>1. disk' = disk /\ ops' = ops
  BY Zenon DEF Crash
<1>2. Fresh'
  BY <1>1, Zenon DEF Crash, Fresh, BInit, IInv, Cache, Types, Kinds
<1>3. FreshLog'
  BY <1>1, Zenon DEF Crash, FreshLog, IInv, Control, LogTypes, Lists
<1>4. (Elementary /\ Fresh /\ FreshLog => IInv)'
  BY FreshInv, PTL
<1> QED
  BY <1>2, <1>3, <1>4, Zenon DEF IInv, Cache, Elementary

LEMMA StutterStep ==
  ASSUME IInv, UNCHANGED vars
  PROVE  IInv'
<1>1. UNCHANGED <<buf, lru, disk, th, panic, logVars, ops>>
  BY Zenon DEF vars, bioVars, logVars
<1> QED
  BY <1>1, StillKept, Zenon

LEMMA NextInv ==
  ASSUME IInv, [Next]_vars
  PROVE  IInv'
<1>1. ASSUME NEW p \in Procs, Step(p) PROVE IInv'
  BY <1>1, BreadStep, BeginOpStep, LogWriteStep, OpBrelseStep, EndOpStep,
     OpBreadStep,
     CommitStep, WriteLogToStep, WriteLogFromStep, WriteLogCopyStep, WriteLogReleaseStep,
     WriteHeadStep, InstallLogStep, InstallDstStep, InstallCopyStep, InstallReleaseStep,
     DoneStep, ReadHeadStep, EndReadStep, Zenon DEF Step
<1>2. ASSUME NEW p \in Readers, StartRead(p) PROVE IInv'
  BY <1>2, StartReadStep, LogAssumption, Zenon
<1> QED
  BY <1>1, <1>2, StartOpStep, CrashStep, StutterStep, Zenon DEF Next
=============================================================================
