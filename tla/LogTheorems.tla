---------------------------- MODULE LogTheorems ----------------------------
(***************************************************************************)
(* The theorems about the buffer cache and the log, for any number of      *)
(* processes, buffers and blocks, any sizes of the log, and any number of  *)
(* crashes.                                                                *)
(***************************************************************************)
EXTENDS LogProofs, LogContents, FiniteSetTheorems, WellFoundedInduction

(* The largest member of a set of buffers' places in the list. *)
LEMMA HighestExists ==
  ASSUME NEW S \in SUBSET Bufs, S # {}
  PROVE  \E i \in S : \A j \in S : j <= i
<1> DEFINE T == {NBUF - i : i \in S}
<1>1. T \in SUBSET Nat /\ T # {}
  <2>1. \A i \in S : NBUF - i \in Nat
    BY BioAssumption DEF Bufs
  <2> QED
    BY <2>1
<1>2. PICK m \in T : \A n \in T : m <= n
  <2> DEFINE below == {s \in Nat \X Nat : s[1] < s[2]}
  <2>1. IsWellFoundedOn(below, Nat)
    BY NatLessThanWellFounded DEF OpToRel
  <2> HIDE DEF T
  <2>2. PICK m \in T : \A n \in T : ~(<<n, m>> \in below)
    BY <1>1, <2>1, WFMin, ZenonT(60)
  <2>3. \A n \in T : ~(n < m)
    BY <1>1, <2>2, ZenonT(60)
  <2> QED
    BY <1>1, <2>3
<1>3. PICK i \in S : m = NBUF - i
  BY <1>2
<1>4. ASSUME NEW j \in S PROVE j <= i
  <2>1. NBUF - i <= NBUF - j
    BY <1>2, <1>3
  <2> QED
    BY <2>1, BioAssumption DEF Bufs
<1> QED
  BY <1>4

LEMMA ElementaryFacts == Elementary
<1>1. ASSUME NEW S \in SUBSET Procs
      PROVE  /\ IsFiniteSet(S) /\ Cardinality(S) \in Nat
             /\ Cardinality(S) = 0 <=> S = {}
  <2>1. IsFiniteSet(S)
    BY BioAssumption, FS_Subset
  <2> QED
    BY <2>1, FS_CardinalityType, FS_EmptySet
<1>2. ASSUME NEW S \in SUBSET Procs, NEW p \in Procs
      PROVE  /\ p \in S => Cardinality(S \ {p}) = Cardinality(S) - 1
             /\ p \notin S => Cardinality(S \cup {p}) = Cardinality(S) + 1
  BY <1>1, FS_AddElement, FS_RemoveElement
<1>3. ASSUME NEW s \in Seq(Bufs), Len(s) = 1 PROVE s = <<s[1]>>
  BY <1>3
<1> QED
  BY <1>1, <1>2, <1>3, HighestExists DEF Elementary

LEMMA CacheInvariant == Spec => []IInv
<1>1. Init => IInv
  BY ElementaryFacts, InitInv
<1>2. IInv /\ [Next]_vars => IInv'
  BY NextInv
<1> QED
  BY <1>1, <1>2, PTL DEF Spec

(* BufferCache, of bget, brelse, bpin and bunpin under every client the    *)
(* log has: a block never has two buffers; a buffer in a thread's hands is *)
(* valid and locked by it alone; and its reference count is exactly the    *)
(* threads that use, wait for or drop it and the log that pins it.         *)
THEOREM CacheSafe == Spec => []BufferCache
<1>1. IInv => BufferCache
  BY DEF IInv, Cache
<1> QED
  BY <1>1, CacheInvariant, PTL

LEMMA ContentsInvariant == Spec => []CInv
<1>1. IInv /\ Init => CInv
  BY InitContents, Zenon
<1>2. IInv /\ IInv' /\ CInv /\ [Next]_vars => CInv'
  BY NextContents, Zenon DEF Kept
<1> QED
  BY <1>1, <1>2, CacheInvariant, PTL DEF Spec

(* DurableWhenQuiet, for every number of processes, buffers and blocks:    *)
(* when the last end_op has returned, all that log_write was given is in   *)
(* its home on the disk.  The header block is empty when no one works on   *)
(* the log, lh is empty when no operation is open, and a buffer that the   *)
(* log does not pin is clean.                                              *)
THEOREM QuietIsDurable == Spec => []DurableWhenQuiet
<1>1. IInv /\ CInv => DurableWhenQuiet
  <2> SUFFICES ASSUME IInv, CInv, booting = NIL, outstanding = 0, ~committing
               PROVE  Durable = Latest
    BY Zenon DEF DurableWhenQuiet
  <2>1. lh = <<>> /\ \A p \in Procs : Loc(p) \notin Working
    BY Zenon DEF IInv, Control, Turns
  <2>2. disk[Header] = <<>>
    BY <2>1, Zenon DEF CInv, Phases
  <2> QED
    BY <2>1, <2>2, AllHome, Zenon DEF CInv
<1> QED
  BY <1>1, CacheInvariant, ContentsInvariant, PTL

(* AtomicTransactions, for every number of processes, buffers and blocks   *)
(* and every number of crashes: log.c on bio.c implements AtomicDisk.      *)
(* write_head with blocks in lh is AtomicDisk's Commit, log_write its      *)
(* Write, begin_op and end_op its Begin and End, a crash at any step, also *)
(* of recovery, its Crash; write_log, install_trans, the erasure of the    *)
(* header and whatever the cache recycles are invisible.                   *)
THEOREM LogIsAtomic == Spec => AtomicTransactions
<1>1. IInv /\ Init => AD!Init
  BY InitContents, Zenon
<1>2. IInv /\ IInv' /\ CInv /\ [Next]_vars => [AD!Next]_AD!vars
  BY NextContents, Zenon DEF Kept, Unseen, AD!vars
<1> QED
  BY <1>1, <1>2, CacheInvariant, ContentsInvariant, PTL DEF Spec,
     AtomicTransactions, AD!Spec
-----------------------------------------------------------------------------
(* No panic *)

(* The blocks an operation has written, and the blocks of the log that     *)
(* begin_op has set aside for operations and that they have not used yet.  *)
Spent(p) == Cardinality(wrote[p].blocks)
Reserve == {r \in InOp \X (1 .. MAXOPBLOCKS) : Spent(r[1]) < r[2]}

(* An operation keeps to its reservation. *)
Thrifty(p) ==
  /\ IsFiniteSet(wrote[p].blocks) /\ Spent(p) <= wrote[p].calls
  /\ \A x \in wrote[p].blocks : Logged(x)
  /\ Loc(p) = "modify" =>
       /\ wrote[p].calls < OpWrites
       /\ Cardinality(wrote[p].blocks \cup {InHand(p, 1)}) <= OpBlocks

Funded ==
  /\ \A p \in InOp : Thrifty(p)
  /\ booting = NIL => Len(lh) + Cardinality(Reserve) <= LOGSIZE

(* The pairs of some threads and of numbers up to MAXOPBLOCKS. *)
LEMMA Pairs ==
  ASSUME NEW S \in SUBSET Procs, NEW R \in SUBSET (S \X (1 .. MAXOPBLOCKS))
  PROVE  /\ IsFiniteSet(R) /\ Cardinality(R) \in Nat
         /\ Cardinality(R) <= Cardinality(S) * MAXOPBLOCKS
<1> DEFINE N == 1 .. MAXOPBLOCKS
<1>1. IsFiniteSet(S)
  BY BioAssumption, FS_Subset
<1>2. IsFiniteSet(N) /\ Cardinality(N) = MAXOPBLOCKS
  BY LogAssumption, FS_Interval
<1> HIDE DEF N
<1>3. /\ IsFiniteSet(S \X N)
      /\ Cardinality(S \X N) = Cardinality(S) * MAXOPBLOCKS
  BY <1>1, <1>2, FS_Product
<1>4. R \in SUBSET (S \X N)
  BY Zenon DEF N
<1> QED
  BY <1>3, <1>4, FS_Subset, FS_CardinalityType

LEMMA ReserveSize ==
  /\ IsFiniteSet(Reserve) /\ Cardinality(Reserve) \in Nat
  /\ Cardinality(Reserve) <= Cardinality(InOp) * MAXOPBLOCKS
<1>1. InOp \in SUBSET Procs /\ Reserve \in SUBSET (InOp \X (1 .. MAXOPBLOCKS))
  BY Zenon DEF InOp, Reserve
<1> QED
  BY <1>1, Pairs

(* Nothing is set aside while no operation is open. *)
LEMMA IdleFunded ==
  IInv /\ outstanding = 0 /\ (booting = NIL => Len(lh) <= LOGSIZE) => Funded
<1> SUFFICES ASSUME IInv, outstanding = 0, booting = NIL => Len(lh) <= LOGSIZE
             PROVE  Funded
  BY Zenon
<1>1. InOp = {}
  <2>1. InOp \in SUBSET Procs
    BY Zenon DEF InOp
  <2> QED
    BY <2>1, Zenon DEF IInv, Control, Turns, Cache, Elementary
<1>2. Reserve = {}
  BY <1>1, Zenon DEF Reserve
<1>3. Cardinality(Reserve) = 0
  BY <1>2, FS_EmptySet
<1>4. Len(lh) \in Nat
  BY DEF IInv, Control, LogTypes
<1> QED
  BY <1>1, <1>3, <1>4 DEF Funded

(* No operation starts or writes; one may end, or read a block it may      *)
(* write.                                                                  *)
LEMMA SameFunded ==
  ASSUME IInv, IInv', Funded, UNCHANGED <<lh, booting>>,
         \A q \in Procs : Loc(q)' \in InOpLocs =>
           /\ Loc(q) \in InOpLocs /\ wrote'[q] = wrote[q]
           /\ Loc(q)' = "modify" =>
                /\ wrote[q].calls < OpWrites
                /\ Cardinality(wrote[q].blocks \cup {InHand(q, 1)'}) <= OpBlocks
  PROVE  Funded'
<1>1. /\ \A q : q \in InOp <=> q \in Procs /\ Loc(q) \in InOpLocs
      /\ \A q : q \in InOp' <=> q \in Procs /\ Loc(q)' \in InOpLocs
  BY Zenon DEF InOp, InOpLocs
<1>2. \A q \in InOp' : q \in InOp /\ wrote'[q] = wrote[q] /\ q \in Procs
  BY <1>1, Zenon
<1>3. ASSUME NEW q \in InOp' PROVE Thrifty(q)'
  <2>1. Thrifty(q) /\ q \in Procs /\ Loc(q)' \in InOpLocs /\ wrote'[q] = wrote[q]
    BY <1>1, <1>2, <1>3, Zenon DEF Funded
  <2> QED
    BY <2>1, Zenon DEF Thrifty, Spent, Logged
<1>4. Reserve' \subseteq Reserve
  BY <1>2, Zenon DEF Reserve, Spent
<1>5. Cardinality(Reserve') <= Cardinality(Reserve) /\ Cardinality(Reserve') \in Nat
  BY <1>4, ReserveSize, FS_Subset, FS_CardinalityType
<1>6. ASSUME booting' = NIL PROVE Len(lh') + Cardinality(Reserve') <= LOGSIZE
  <2>1. Len(lh) + Cardinality(Reserve) <= LOGSIZE
    BY <1>6, Zenon DEF Funded
  <2>2. Len(lh) \in Nat /\ LOGSIZE \in Nat /\ Len(lh') = Len(lh)
    BY LogAssumption DEF IInv, Control, LogTypes
  <2> QED
    BY <1>5, <2>1, <2>2, ReserveSize
<1> QED
  BY <1>3, <1>6, Zenon DEF Funded

LEMMA ModifyKept ==
  ASSUME IInv, NEW p \in Procs, Keeps(p), NEW q \in Procs \ {p}, Loc(q) = "modify"
  PROVE  InHand(q, 1)' = InHand(q, 1)
<1>1. Count("modify") = 1
  BY CountOf, Zenon DEF Single
<1>2. th[q].held \in Seq(Bufs) /\ Len(th[q].held) = 1
  <2>1. th[q] \in Threads /\ Hand(q)
    BY Zenon DEF IInv, Cache, Types, Hands
  <2> QED
    BY <1>1, <2>1, Zenon DEF Threads, Hand
<1>3. 1 \in DOMAIN th[q].held
  BY <1>2
<1> QED
  BY <1>3, Zenon DEF Keeps

(* Thread p moves, and does not start an operation. *)
LEMMA MovesFunded ==
  ASSUME IInv, IInv', Funded, NEW p \in Procs, NEW from, NEW to, Goes(p, from, to),
         Keeps(p), UNCHANGED <<lh, booting>>,
         \A q \in Procs \ {p} : wrote'[q] = wrote[q],
         to \in InOpLocs => from \in InOpLocs /\ wrote'[p] = wrote[p],
         to = "modify" =>
           /\ wrote[p].calls < OpWrites
           /\ Cardinality(wrote[p].blocks \cup {InHand(p, 1)'}) <= OpBlocks
  PROVE  Funded'
<1>1. Loc(p) = from /\ Loc(p)' = to
  BY Zenon DEF Goes
<1>2. ASSUME NEW q \in Procs \ {p}, Loc(q)' \in InOpLocs
      PROVE  /\ Loc(q) \in InOpLocs /\ wrote'[q] = wrote[q]
             /\ Loc(q)' = "modify" =>
                  /\ wrote[q].calls < OpWrites
                  /\ Cardinality(wrote[q].blocks \cup {InHand(q, 1)'}) <= OpBlocks
  <2>1. Loc(q)' = Loc(q)
    BY <1>2, Zenon DEF Goes, InOpLocs
  <2>2. ASSUME Loc(q) = "modify" PROVE InHand(q, 1)' = InHand(q, 1)
    BY <2>2, ModifyKept, Zenon
  <2>3. Thrifty(q)
    BY <1>2, <2>1, Zenon DEF Funded, InOp, InOpLocs
  <2> QED
    BY <1>2, <2>1, <2>2, <2>3, Zenon DEF Thrifty
<1> QED
  BY <1>1, <1>2, SameFunded, Zenon

LEMMA IdleNext ==
  ASSUME IInv', outstanding' = 0, booting' = NIL => Len(lh') <= LOGSIZE
  PROVE  Funded'
<1>1. (IInv /\ outstanding = 0 /\ (booting = NIL => Len(lh) <= LOGSIZE) => Funded)'
  BY IdleFunded, PTL
<1> QED
  BY <1>1, Zenon

(* The thread that works on the log takes a step: no operation is open. *)
LEMMA WorkIdle ==
  ASSUME IInv, NEW p \in Procs, Loc(p) \in Working
  PROVE  outstanding = 0
<1> USE DEF IInv, Control
<1>1. CASE booting = NIL
  BY <1>1, Zenon DEF Turns
<1>2. CASE booting # NIL
  <2>1. booting \in Procs
    BY <1>2, Zenon DEF LogTypes
  <2>2. \A q \in Procs : Loc(q) \notin InOpLocs
    <3>1. \A q \in Procs \ {booting} : Loc(q) = "off"
      BY <1>2, Zenon DEF Turns, Loc
    <3>2. Loc(booting) \notin InOpLocs
      BY <1>2, Zenon DEF Turns, InHead, InInstall, InRecover, InOpLocs
    <3> QED
      BY <3>1, <3>2, Zenon DEF InOpLocs
  <2>3. InOp = {}
    BY <2>2, Zenon DEF InOp, InOpLocs
  <2> QED
    BY <2>3, Zenon DEF Turns, Cache, Elementary
<1> QED
  BY <1>1, <1>2, Zenon

LEMMA WorkFunded ==
  ASSUME IInv, IInv', Funded, NEW p \in Procs, Loc(p) \in Working,
         UNCHANGED <<outstanding, booting>>,
         lh' = lh \/ lh' = <<>> \/ booting # NIL
  PROVE  Funded'
<1>1. outstanding' = 0
  BY WorkIdle, Zenon
<1>2. ASSUME booting' = NIL PROVE Len(lh') <= LOGSIZE
  <2>1. Len(lh) + Cardinality(Reserve) <= LOGSIZE /\ Len(lh) \in Nat
    BY <1>2 DEF Funded, IInv, Control, LogTypes
  <2>2. CASE lh' = lh
    BY <2>1, <2>2, ReserveSize, LogAssumption
  <2>3. CASE lh' = <<>>
    BY <2>3, LogAssumption
  <2> QED
    BY <1>2, <2>2, <2>3, Zenon
<1> QED
  BY <1>1, <1>2, IdleNext, Zenon

(* begin_op admits an operation only if the log has room for all of it. *)
LEMMA BeginFunded ==
  ASSUME IInv, IInv', Funded, NEW p \in Procs, BeginOp(p)
  PROVE  Funded'
<1>1. /\ th[p].pc = "begin" /\ UNCHANGED <<buf, lru, disk>> /\ UNCHANGED <<lh, booting>>
  BY Zenon DEF BeginOp, At
<1>2. /\ {"begin", "sleep", "op"} \subseteq Locs \cap Free
      /\ {"begin", "sleep"} \cap InOpLocs = {} /\ "op" \in InOpLocs /\ "op" # "modify"
  BY Zenon DEF Locs, Free, InOpLocs
<1>3. CASE th' = [th EXCEPT ![p].pc = "sleep"] /\ wrote' = wrote
  <2>1. Goes(p, "begin", "sleep") /\ Keeps(p)
    BY <1>1, <1>2, <1>3, JumpGoes, Zenon DEF IInv
  <2> QED
    BY <1>1, <1>2, <1>3, <2>1, MovesFunded, Zenon
<1>4. CASE /\ ~Full /\ th' = [th EXCEPT ![p].pc = "op"]
           /\ outstanding' = outstanding + 1
           /\ wrote' = [wrote EXCEPT ![p] = NoWrites]
  <2>1. Goes(p, "begin", "op") /\ Keeps(p)
    BY <1>1, <1>2, <1>4, JumpGoes, Zenon DEF IInv
  <2>2. /\ wrote'[p] = NoWrites /\ \A q \in Procs \ {p} : wrote'[q] = wrote[q]
    BY <1>4, Zenon DEF IInv, Control, LogTypes
  <2>3. Thrifty(p)'
    <3>1. wrote'[p].blocks = {} /\ wrote'[p].calls = 0 /\ Loc(p)' = "op"
      <4>1. Loc(p)' = "op"
        BY <2>1, Zenon DEF Goes
      <4>2. NoWrites.blocks = {} /\ NoWrites.calls = 0
        BY Zenon DEF NoWrites
      <4> QED
        BY <2>2, <4>1, <4>2, Zenon
    <3>2. IsFiniteSet({}) /\ Cardinality({}) <= 0
      BY FS_EmptySet
    <3> QED
      BY <1>2, <3>1, <3>2, Zenon DEF Thrifty, Spent
  <2>4. ASSUME NEW q \in InOp', q # p PROVE Thrifty(q)'
    <3>1. q \in Procs /\ Loc(q)' = Loc(q) /\ q \in InOp
      BY <2>1, <2>4, Zenon DEF InOp, Goes
    <3>2. Thrifty(q) /\ wrote'[q] = wrote[q]
      BY <2>2, <2>4, <3>1, Zenon DEF Funded
    <3>3. ASSUME Loc(q) = "modify" PROVE InHand(q, 1)' = InHand(q, 1)
      BY <2>1, <2>4, <3>1, <3>3, ModifyKept, Zenon
    <3> QED
      BY <1>1, <3>1, <3>2, <3>3, Zenon DEF Thrifty, Spent, Logged
  <2>5. Len(lh') + Cardinality(Reserve') <= LOGSIZE
    <3>1. (/\ IsFiniteSet(Reserve) /\ Cardinality(Reserve) \in Nat
           /\ Cardinality(Reserve) <= Cardinality(InOp) * MAXOPBLOCKS)'
      BY ReserveSize, PTL
    <3>2. Cardinality(InOp') = outstanding + 1
      BY <1>4, Zenon DEF IInv, Control, Turns
    <3> DEFINE n == (outstanding + 1) * MAXOPBLOCKS
    <3>3. Cardinality(Reserve') <= n /\ Cardinality(Reserve') \in Nat
      BY <3>1, <3>2
    <3>4. n \in Int /\ Len(lh) \in Nat /\ LOGSIZE \in Nat
      BY LogAssumption DEF IInv, Control, LogTypes
    <3>5. ~(Len(lh) + n > LOGSIZE)
      BY <1>4, Zenon DEF Full
    <3> HIDE DEF n
    <3> QED
      BY <1>1, <3>3, <3>4, <3>5
  <2> QED
    BY <2>3, <2>4, <2>5, Zenon DEF Funded
<1> QED
  BY <1>3, <1>4, Zenon DEF BeginOp, Goto

(* An operation that writes a block new to it uses one of its reserve. *)
LEMMA ReserveShrinks ==
  ASSUME IInv, NEW p \in InOp, Thrifty(p), NEW x, x \notin wrote[p].blocks,
         Spent(p) < MAXOPBLOCKS, InOp' = InOp,
         wrote'[p].blocks = wrote[p].blocks \cup {x},
         \A q \in InOp \ {p} : wrote'[q] = wrote[q]
  PROVE  Cardinality(Reserve') = Cardinality(Reserve) - 1
<1> DEFINE r == <<p, Spent(p) + 1>>
<1>1. Spent(p) \in Nat /\ Spent(p)' = Spent(p) + 1
  BY FS_CardinalityType, FS_AddElement DEF Thrifty, Spent
<1>2. r \in Reserve
  <2>1. Spent(p) + 1 \in 1 .. MAXOPBLOCKS /\ Spent(p) < Spent(p) + 1
    BY <1>1, LogAssumption
  <2> QED
    BY <2>1 DEF Reserve
<1>3. Reserve' = Reserve \ {r}
  <2>1. ASSUME NEW q \in InOp, NEW i \in 1 .. MAXOPBLOCKS
        PROVE  Spent(q)' < i <=> Spent(q) < i /\ <<q, i>> # r
    <3>1. CASE q = p
      <4>1. Spent(p)' < i <=> Spent(p) < i /\ i # Spent(p) + 1
        BY <1>1
      <4> QED
        BY <3>1, <4>1
    <3>2. CASE q # p
      BY <3>2, Zenon DEF Spent
    <3> QED
      BY <3>1, <3>2, Zenon
  <2> HIDE DEF r
  <2>2. \A s : s \in Reserve' <=> s \in Reserve /\ s # r
    <3> TAKE s
    <3>1. CASE s \notin InOp \X (1 .. MAXOPBLOCKS)
      BY <3>1, Zenon DEF Reserve
    <3>2. CASE s \in InOp \X (1 .. MAXOPBLOCKS)
      <4>1. PICK q \in InOp, i \in 1 .. MAXOPBLOCKS : s = <<q, i>> /\ s[1] = q /\ s[2] = i
        BY <3>2
      <4>2. s \in Reserve <=> Spent(q) < i
        BY <3>2, <4>1, Zenon DEF Reserve
      <4>3. s \in Reserve' <=> Spent(q)' < i
        BY <3>2, <4>1, Zenon DEF Reserve
      <4> QED
        BY <2>1, <4>1, <4>2, <4>3, Zenon
    <3> QED
      BY <3>1, <3>2, Zenon
  <2> QED
    BY <2>2, Zenon
<1> HIDE DEF r
<1> QED
  BY <1>2, <1>3, ReserveSize, FS_RemoveElement

(* What log_write does when it does not panic: a block is counted once,    *)
(* against the reserve of the operation that writes it first.              *)
LEMMA WriteFunded ==
  ASSUME IInv, IInv', Funded, NEW p \in Procs, NEW x, th[p].pc = "modify",
         x = InHand(p, 1), booting' = booting,
         \A c \in Bufs : buf'[c].blockno = buf[c].blockno,
         lh' = IF Logged(x) THEN lh ELSE Append(lh, x),
         wrote' = [wrote EXCEPT ![p] = [calls |-> wrote[p].calls + 1,
                                        blocks |-> wrote[p].blocks \cup {x}]],
         th' = [th EXCEPT ![p].pc = "release"]
  PROVE  Funded'
<1>1. /\ {"modify", "release"} \subseteq Locs \cap InOpLocs
      /\ {"modify", "release"} \cap Calls = {}
  BY Zenon DEF Locs, Single, Calls, InOpLocs
<1>2. Goes(p, "modify", "release") /\ Keeps(p)
  BY <1>1, MovesGoes, Zenon DEF IInv, Cache
<1>3. InOp' = InOp /\ p \in InOp /\ Loc(p) = "modify" /\ Loc(p)' = "release"
  <2>1. Loc(p) = "modify" /\ Loc(p)' = "release"
    BY <1>2, Zenon DEF Goes
  <2> QED
    BY <1>1, <1>2, <2>1, InOpKept, Zenon DEF InOp
<1>4. /\ Thrifty(p) /\ wrote[p].calls \in Nat /\ Spent(p) \in Nat
      /\ booting = NIL /\ x \in Home
  <2>1. Thrifty(p)
    BY <1>3, Zenon DEF Funded
  <2>2. wrote[p].calls \in Nat
    <3>1. wrote[p] \in [calls : Nat, blocks : SUBSET Home]
      BY Zenon DEF IInv, Control, LogTypes
    <3> QED
      BY <3>1
  <2>3. Spent(p) \in Nat
    BY <2>1, FS_CardinalityType DEF Thrifty, Spent
  <2>4. booting = NIL
    BY <1>1, <1>3, NoWorker, Zenon
  <2>5. x \in Home
    BY <1>3, Zenon DEF IInv, Control, Targets, Target
  <2> QED
    BY <2>1, <2>2, <2>3, <2>4, <2>5, Zenon
<1>5. /\ lh' \in Seq(Home) /\ Logged(x)'
      /\ \A y : Logged(y) => Logged(y)'
  <2>1. lh \in Seq(Home) /\ Distinct(lh)
    BY Zenon DEF IInv, Control, LogTypes, Lists
  <2> QED
    BY <1>4, <2>1, LogTakes, Zenon DEF Logged
<1>6. /\ wrote'[p].calls = wrote[p].calls + 1
      /\ wrote'[p].blocks = wrote[p].blocks \cup {x}
      /\ \A q \in Procs \ {p} : wrote'[q] = wrote[q]
  BY Zenon DEF IInv, Control, LogTypes
<1>7. Thrifty(p)'
  <2>1. /\ IsFiniteSet(wrote[p].blocks) /\ Spent(p) <= wrote[p].calls
        /\ \A y \in wrote[p].blocks : Logged(y)
    BY <1>4, Zenon DEF Thrifty
  <2>2. /\ IsFiniteSet(wrote[p].blocks \cup {x})
        /\ Cardinality(wrote[p].blocks \cup {x}) \in {Spent(p), Spent(p) + 1}
    BY <2>1, FS_AddElement DEF Spent
  <2>3. Cardinality(wrote[p].blocks \cup {x}) <= wrote[p].calls + 1
    BY <1>4, <2>1, <2>2
  <2> QED
    BY <1>3, <1>5, <1>6, <2>1, <2>2, <2>3, Zenon DEF Thrifty, Spent
<1>8. ASSUME NEW q \in InOp', q # p PROVE Thrifty(q)'
  <2>1. q \in Procs /\ q \in InOp /\ Loc(q)' \in InOpLocs
    BY <1>3, <1>8, Zenon DEF InOp, InOpLocs
  <2>2. Loc(q)' = Loc(q)
    BY <1>2, <1>8, <2>1, Zenon DEF Goes, InOpLocs
  <2>3. Thrifty(q) /\ wrote'[q] = wrote[q]
    BY <1>6, <1>8, <2>1, Zenon DEF Funded
  <2>4. ASSUME Loc(q) = "modify" PROVE InHand(q, 1)' = InHand(q, 1)
    BY <1>2, <1>8, <2>1, <2>4, ModifyKept, Zenon
  <2> QED
    BY <1>5, <2>2, <2>3, <2>4, Zenon DEF Thrifty, Spent
<1>9. Len(lh') + Cardinality(Reserve') <= LOGSIZE
  <2>1. /\ Len(lh) + Cardinality(Reserve) <= LOGSIZE /\ Len(lh) \in Nat
        /\ Cardinality(Reserve) \in Nat /\ LOGSIZE \in Nat
    BY <1>4, ReserveSize, LogAssumption DEF Funded, IInv, Control, LogTypes
  <2>2. CASE x \in wrote[p].blocks
    <3>1. lh' = lh
      BY <1>4, <2>2, Zenon DEF Thrifty
    <3>2. \A q \in InOp : Spent(q)' = Spent(q)
      <4>1. wrote'[p].blocks = wrote[p].blocks
        BY <1>6, <2>2, Zenon
      <4> QED
        BY <1>6, <4>1, Zenon DEF Spent, InOp
    <3>3. Reserve' = Reserve
      BY <1>3, <3>2, Zenon DEF Reserve
    <3> QED
      BY <2>1, <3>1, <3>3
  <2>3. CASE x \notin wrote[p].blocks
    <3>1. Spent(p) < MAXOPBLOCKS
      <4>1. Cardinality(wrote[p].blocks \cup {x}) = Spent(p) + 1
        BY <1>4, <2>3, FS_AddElement DEF Thrifty, Spent
      <4>2. Cardinality(wrote[p].blocks \cup {x}) <= OpBlocks
        BY <1>3, <1>4, Zenon DEF Thrifty
      <4> QED
        BY <1>4, <4>1, <4>2, LogAssumption
    <3>2. \A q \in InOp \ {p} : wrote'[q] = wrote[q]
      BY <1>6, Zenon DEF InOp
    <3>3. Cardinality(Reserve') = Cardinality(Reserve) - 1
      BY <1>3, <1>4, <1>6, <2>3, <3>1, <3>2, ReserveShrinks, Zenon
    <3>4. Len(lh') \in Nat /\ Len(lh') <= Len(lh) + 1
      BY <1>4 DEF IInv, Control, LogTypes
    <3> QED
      BY <2>1, <3>3, <3>4
  <2> QED
    BY <2>2, <2>3, Zenon
<1> QED
  BY <1>7, <1>8, <1>9, Zenon DEF Funded

-----------------------------------------------------------------------------
(* Thread p asks bget for block blk, and no buffer has it or can be used. *)
Starved(p, blk, k) ==
  /\ Reads(th[p].pc, k) /\ Wants(k, blk)
  /\ \A b \in Bufs : buf[b].refcnt # 0 /\ buf[b].blockno # blk

(* The only panic there may be. *)
Panics ==
  \/ panic' = panic
  \/ /\ panic' = "bget: no buffers"
     /\ \E p \in Procs : \E blk \in Blocks : \E k \in Locs : Starved(p, blk, k)

LEMMA ReadPanics ==
  ASSUME IInv, NEW p \in Procs, NEW k \in Locs, NEW blk \in Blocks,
         Reads(th[p].pc, k), Wants(k, blk), Bget(p, blk, k)
  PROVE  Panics
<1>1. th[p].pc \notin Calls
  BY Zenon DEF Reads, Calls
<1>2. CASE \E b \in Bufs : Takes(p, b, blk, k)
  BY <1>2, Zenon DEF Takes, Panics
<1>3. CASE /\ panic' = "bget: no buffers"
           /\ \A b \in Bufs : buf[b].refcnt # 0 /\ buf[b].blockno # blk
  <2>1. Starved(p, blk, k)
    BY <1>3, Zenon DEF Starved
  <2> QED
    BY <1>3, <2>1, Zenon DEF Panics
<1> QED
  BY <1>1, <1>2, <1>3, BgetTakes, Zenon DEF IInv, Cache

(* brelse is only called by the holder of the buffer's lock. *)
LEMMA ReleasePanics ==
  ASSUME IInv, NEW p \in Procs, NEW k \in Locs, NEW i,
         Releases(th[p].pc, i, k), Brelse(p, i, k)
  PROVE  Panics
<1>1. th[p].pc \notin Calls /\ th[p].pc \in Locs
  BY Zenon DEF Releases, Calls, Locs, Single, Double
<1>2. i \in 1 .. Count(th[p].pc)
  BY <1>1, ReleasesCount
<1>3. i \in DOMAIN th[p].held
  BY <1>1, <1>2, HeldNow, Zenon DEF IInv, Cache
<1>4. Gives(p, i, k)
  BY <1>1, <1>3, BrelseGives, Zenon DEF IInv, Cache, BufferCache
<1> QED
  BY <1>4, Zenon DEF Gives, Panics

(* A call of bread by the thread that works on the log. *)
LEMMA WorkPanics ==
  ASSUME IInv, NEW p \in Procs, NEW k \in Working, NEW blk, th[p].pc \in Working,
         Reads(th[p].pc, k), Wants(k, blk), Bget(p, blk, k),
         blk = Header \/ tail <= Len(lh)
  PROVE  Panics
<1>1. k \in Locs
  BY Zenon DEF Reads, Locs, Single, Double
<1>2. blk = Header \/ blk \in {LogBlock(tail), lh[tail]}
  <2>1. k \in {"head copy", "recover read", "log from", "install dst", "log copy",
               "install copy"}
    BY Zenon DEF Reads, Working, InLog, InHead, InInstall, InRecover
  <2> QED
    BY <2>1, Zenon DEF Wants
<1>3. blk \in Blocks
  BY <1>2, HeaderBlock, WorkBlocks, Zenon
<1> QED
  BY <1>1, <1>3, ReadPanics, Zenon

(* write_log and write_head *)
LEMMA CommitPanics ==
  ASSUME IInv, NEW p \in Procs,
         \/ Commit(p) \/ WriteLogTo(p) \/ WriteLogFrom(p) \/ WriteLogCopy(p)
         \/ WriteLogRelease(p) \/ WriteHead(p)
  PROVE  Panics
<1>1. CASE panic' = panic
  BY <1>1, Zenon DEF Panics
<1>2. CASE WriteLogTo(p) /\ tail <= Len(lh)
  <2>1. th[p].pc = "log" /\ Bget(p, LogBlock(tail), "log from")
    BY <1>2, Zenon DEF WriteLogTo, At
  <2>2. /\ {"log", "log from"} \subseteq Working /\ Reads("log", "log from")
        /\ Wants("log from", LogBlock(tail))
    BY Zenon DEF Working, InLog, Reads, Wants
  <2> QED
    BY <1>2, <2>1, <2>2, WorkPanics, Zenon
<1>3. CASE WriteLogFrom(p)
  <2>1. th[p].pc = "log from" /\ Bget(p, lh[tail], "log copy")
    BY <1>3, Zenon DEF WriteLogFrom, At
  <2>2. /\ {"log from", "log copy"} \subseteq Working /\ Reads("log from", "log copy")
        /\ Wants("log copy", lh[tail])
    BY Zenon DEF Working, InLog, Reads, Wants
  <2>3. tail <= Len(lh)
    BY <2>1, <2>2, PlaceNow, Zenon DEF Place
  <2> QED
    BY <2>1, <2>2, <2>3, WorkPanics, Zenon
<1>4. CASE WriteLogRelease(p)
  <2>1. /\ Releases("log release from", 2, "log release to")
        /\ Releases("log release to", 1, "log")
        /\ {"log release to", "log"} \subseteq Locs
    BY Zenon DEF Releases, Locs, Free, Single
  <2> QED
    BY <1>4, <2>1, ReleasePanics, Zenon DEF WriteLogRelease, At
<1>5. CASE At(p, "head") /\ Bget(p, Header, "head copy")
  <2>1. /\ {"head", "head copy"} \subseteq Working /\ Reads("head", "head copy")
        /\ Wants("head copy", Header)
    BY Zenon DEF Working, InHead, Reads, Wants
  <2> QED
    BY <1>5, <2>1, WorkPanics, Zenon DEF At
<1>6. CASE /\ At(p, "head release")
           /\ Brelse(p, 1, IF lh = <<>> THEN "done" ELSE "install")
  <2>1. /\ Releases("head release", 1, "done") /\ Releases("head release", 1, "install")
        /\ {"done", "install"} \subseteq Locs
    BY Zenon DEF Releases, Locs, Free
  <2>2. PICK k \in {"done", "install"} : Brelse(p, 1, k)
    BY <1>6, Zenon
  <2> QED
    BY <1>6, <2>1, <2>2, ReleasePanics, Zenon DEF At
<1>7. ASSUME Commit(p) \/ WriteLogCopy(p) \/ (WriteLogTo(p) /\ ~(tail <= Len(lh)))
      PROVE  panic' = panic
  BY <1>7, WriteLogCopies, Zenon DEF Commit, WriteLogTo, IInv
<1>8. ASSUME WriteHead(p), At(p, "head copy") PROVE panic' = panic
  BY <1>8, WriteHeadCopies, Zenon DEF WriteHead, At, IInv
<1> QED
  BY <1>1, <1>2, <1>3, <1>4, <1>5, <1>6, <1>7, <1>8, Zenon DEF WriteHead

(* install_trans and recovery *)
LEMMA InstallPanics ==
  ASSUME IInv, NEW p \in Procs,
         InstallLog(p) \/ InstallDst(p) \/ InstallCopy(p) \/ InstallRelease(p) \/ ReadHead(p)
  PROVE  Panics
<1>1. CASE panic' = panic
  BY <1>1, Zenon DEF Panics
<1>2. CASE InstallLog(p) /\ tail <= Len(lh)
  <2>1. th[p].pc = "install" /\ Bget(p, LogBlock(tail), "install dst")
    BY <1>2, Zenon DEF InstallLog, InstallMore, At
  <2>2. /\ {"install", "install dst"} \subseteq Working /\ Reads("install", "install dst")
        /\ Wants("install dst", LogBlock(tail))
    BY Zenon DEF Working, InInstall, Reads, Wants
  <2> QED
    BY <1>2, <2>1, <2>2, WorkPanics, Zenon
<1>3. CASE InstallDst(p)
  <2>1. th[p].pc = "install dst" /\ Bget(p, lh[tail], "install copy")
    BY <1>3, Zenon DEF InstallDst, At
  <2>2. /\ {"install dst", "install copy"} \subseteq Working
        /\ Reads("install dst", "install copy") /\ Wants("install copy", lh[tail])
    BY Zenon DEF Working, InInstall, Reads, Wants
  <2>3. tail <= Len(lh)
    BY <2>1, <2>2, PlaceNow, Zenon DEF Place
  <2> QED
    BY <2>1, <2>2, <2>3, WorkPanics, Zenon
<1>4. CASE InstallRelease(p)
  <2>1. /\ Releases("install release log", 1, "install release dst")
        /\ Releases("install release dst", 1, "install")
        /\ {"install release dst", "install"} \subseteq Locs
    BY Zenon DEF Releases, Locs, Free, Single
  <2> QED
    BY <1>4, <2>1, ReleasePanics, Zenon DEF InstallRelease, At
<1>5. CASE At(p, "recover") /\ Bget(p, Header, "recover read")
  <2>1. /\ {"recover", "recover read"} \subseteq Working
        /\ Reads("recover", "recover read") /\ Wants("recover read", Header)
    BY Zenon DEF Working, InRecover, Reads, Wants
  <2> QED
    BY <1>5, <2>1, WorkPanics, Zenon DEF At
<1>6. CASE At(p, "recover read") /\ Brelse(p, 1, "install")
  <2>1. Releases("recover read", 1, "install") /\ "install" \in Locs
    BY Zenon DEF Releases, Locs, Free
  <2> QED
    BY <1>6, <2>1, ReleasePanics, Zenon DEF At
<1>7. ASSUME InstallCopy(p) \/ (InstallLog(p) /\ ~(tail <= Len(lh)))
      PROVE  panic' = panic
  BY <1>7, InstallOwns, Zenon DEF InstallCopy, InstallLog, InstallMore, IInv
<1> QED
  BY <1>1, <1>2, <1>3, <1>4, <1>5, <1>6, <1>7, Zenon DEF ReadHead

-----------------------------------------------------------------------------
(* What the log relies on.  An operation that calls log_write has written  *)
(* Most blocks before, at most; what begin_op has set aside for it and it  *)
(* has not used is the room that log_write insists on, and makes up for    *)
(* what the log on disk lacks (log_write wants NLog > Len(lh) + 1).        *)
Most == IF OpBlocks < OpWrites THEN OpBlocks ELSE OpWrites - 1

Budget == Most < MAXOPBLOCKS /\ LOGSIZE + Most < NLog - 1 + MAXOPBLOCKS

(* The part of the reserve that is left to one operation. *)
LEMMA OwnReserve ==
  ASSUME NEW p \in InOp, Spent(p) \in Nat, Spent(p) <= MAXOPBLOCKS
  PROVE  MAXOPBLOCKS - Spent(p) <= Cardinality(Reserve)
<1> DEFINE N == Spent(p) + 1 .. MAXOPBLOCKS
<1>1. IsFiniteSet(N) /\ Cardinality(N) = MAXOPBLOCKS - Spent(p)
  <2>1. Spent(p) + 1 \in Int /\ MAXOPBLOCKS \in Int
    BY LogAssumption
  <2>2. /\ IsFiniteSet(N)
        /\ Cardinality(N) = IF Spent(p) + 1 > MAXOPBLOCKS THEN 0
                            ELSE MAXOPBLOCKS - (Spent(p) + 1) + 1
    BY <2>1, FS_Interval, Zenon
  <2> QED
    BY <2>1, <2>2
<1>2. N \subseteq 1 .. MAXOPBLOCKS /\ \A n \in N : Spent(p) < n
  BY LogAssumption
<1> HIDE DEF N
<1>3. IsFiniteSet({p}) /\ Cardinality({p}) = 1
  BY FS_Singleton
<1>4. /\ IsFiniteSet({p} \X N)
      /\ Cardinality({p} \X N) = Cardinality({p}) * Cardinality(N)
  BY <1>1, <1>3, FS_Product
<1>5. {p} \X N \subseteq Reserve
  BY <1>2 DEF Reserve
<1>6. Cardinality({p} \X N) <= Cardinality(Reserve)
  BY <1>5, ReserveSize, FS_Subset
<1> QED
  BY <1>1, <1>3, <1>4, <1>6, LogAssumption

(* log_write finds room: the operation has some of its reserve left. *)
LEMMA LogHasRoom ==
  ASSUME Budget, IInv, Funded, NEW p \in Procs, th[p].pc = "modify"
  PROVE  /\ ~(Len(lh) >= LOGSIZE \/ Len(lh) >= NLog - 1) /\ ~(outstanding < 1)
         /\ ~committing
<1>1. Loc(p) = "modify" /\ p \in InOp
  BY Zenon DEF Loc, InOp
<1>2. booting = NIL /\ outstanding # 0 /\ ~committing
  BY <1>1, NoWorker, Zenon DEF InOpLocs
<1>3. Thrifty(p) /\ Len(lh) + Cardinality(Reserve) <= LOGSIZE
  BY <1>1, <1>2, Zenon DEF Funded
<1>4. Spent(p) \in Nat /\ Spent(p) <= Most
  <2>1. /\ IsFiniteSet(wrote[p].blocks) /\ Spent(p) <= wrote[p].calls
        /\ wrote[p].calls < OpWrites
        /\ Cardinality(wrote[p].blocks \cup {InHand(p, 1)}) <= OpBlocks
    BY <1>1, <1>3, Zenon DEF Thrifty
  <2>2. Spent(p) \in Nat /\ Spent(p) <= OpBlocks
    <3>1. Spent(p) \in Nat
      BY <2>1, FS_CardinalityType DEF Spent
    <3>2. Cardinality(wrote[p].blocks \cup {InHand(p, 1)}) \in {Spent(p), Spent(p) + 1}
      BY <2>1, FS_AddElement DEF Spent
    <3> QED
      BY <2>1, <3>1, <3>2, LogAssumption
  <2>3. wrote[p].calls \in Nat
    <3>1. wrote[p] \in [calls : Nat, blocks : SUBSET Home]
      BY Zenon DEF IInv, Control, LogTypes
    <3> QED
      BY <3>1
  <2> QED
    BY <2>1, <2>2, <2>3, LogAssumption DEF Most
<1>5. MAXOPBLOCKS - Most <= Cardinality(Reserve)
  <2>1. Most \in Int /\ Spent(p) <= MAXOPBLOCKS
    BY <1>4, LogAssumption DEF Most, Budget
  <2>2. MAXOPBLOCKS - Spent(p) <= Cardinality(Reserve)
    BY <1>1, <1>4, <2>1, OwnReserve
  <2> QED
    BY <1>4, <2>1, <2>2, ReserveSize, LogAssumption
<1>6. outstanding \in Nat
  <2>1. InOp \in SUBSET Procs
    BY Zenon DEF InOp
  <2> QED
    BY <2>1, Zenon DEF IInv, Control, Turns, Cache, Elementary
<1>7. ~(outstanding < 1)
  BY <1>2, <1>6
<1>8. ~(Len(lh) >= LOGSIZE \/ Len(lh) >= NLog - 1)
  <2>1. Len(lh) \in Nat /\ Cardinality(Reserve) \in Nat /\ Most \in Int
    BY <1>4, ReserveSize, LogAssumption DEF Most, IInv, Control, LogTypes
  <2> QED
    BY <1>3, <1>5, <2>1, LogAssumption DEF Budget
<1> QED
  BY <1>2, <1>7, <1>8, Zenon

LEMMA LogWriteFunded ==
  ASSUME Budget, IInv, IInv', Funded, NEW p \in Procs, LogWrite(p)
  PROVE  Funded' /\ Panics
<1>1. PICK b, x : b = Got(p) /\ x = buf[b].blockno
  BY Zenon
<1>2. th[p].pc = "modify" /\ booting' = booting
  BY Zenon DEF LogWrite, At
<1>3. /\ ~(Len(lh) >= LOGSIZE \/ Len(lh) >= NLog - 1) /\ ~(outstanding < 1)
  BY <1>2, LogHasRoom, Zenon
<1>4. /\ buf' = [buf EXCEPT ![b].data = NextVersion(@),
                            ![b].refcnt = IF Logged(x) THEN @ ELSE @ + 1]
      /\ lh' = IF Logged(x) THEN lh ELSE Append(lh, x)
      /\ wrote' = [wrote EXCEPT ![p] = [calls |-> wrote[p].calls + 1,
                                        blocks |-> wrote[p].blocks \cup {x}]]
      /\ th' = [th EXCEPT ![p].pc = "release"]
      /\ panic' = panic
  BY <1>1, <1>3, Zenon DEF LogWrite, Goto
<1>5. b = th[p].held[1] /\ b \in Bufs
  <2>1. "modify" \in Single
    BY Zenon DEF Single
  <2> QED
    BY <1>1, <1>2, <2>1, HoldsOne, Zenon DEF IInv
<1>6. \A c \in Bufs : buf'[c].blockno = buf[c].blockno
  <2>1. buf \in [Bufs -> Buffers]
    BY Zenon DEF IInv, Cache, Types
  <2> QED
    BY <1>4, <1>5, <2>1, Zenon DEF Buffers
<1>7. x = InHand(p, 1)
  BY <1>1, <1>5, Zenon DEF InHand
<1>8. Funded'
  BY <1>2, <1>4, <1>6, <1>7, WriteFunded, Zenon
<1> QED
  BY <1>4, <1>8, Zenon DEF Panics

(* A step of bread or brelse past the lock of the cache. *)
LEMMA BreadFunded ==
  ASSUME IInv, IInv', Funded, NEW p \in Procs, Bread(p)
  PROVE  Funded' /\ Panics
<1>1. BioStep(p) /\ UNCHANGED <<lh, booting, wrote>>
  BY Zenon DEF Bread, logVars
<1>2. /\ th \in [Procs -> Threads] /\ buf \in [Bufs -> Buffers]
      /\ th[p].k \in Locs /\ th[p].k \notin Calls
  BY DEF IInv, Cache, Types, Threads, Locs, Free, Single, Double, Calls
<1>3. /\ \A q \in Procs \ {p} : th'[q] = th[q]
      /\ th'[p].held = th[p].held /\ th'[p].k = th[p].k
      /\ th'[p].pc \in {th[p].k, "fill"}
  BY <1>1, <1>2 DEF BioStep, AcquireSleep, Fill, DropRef, Goto, Threads
<1>4. th[p].pc \in Calls /\ panic' = panic
  BY <1>1, Zenon DEF BioStep, AcquireSleep, Fill, DropRef, At, Calls
<1>5. \A q \in Procs : Loc(q)' = Loc(q) /\ th'[q].held = th[q].held
  BY <1>2, <1>3, <1>4, Zenon DEF Loc, Calls
<1>6. \A c \in Bufs : buf'[c].blockno = buf[c].blockno
  <2>1. CASE AcquireSleep(p)
    BY <1>2, <2>1, Zenon DEF AcquireSleep, Buffers
  <2>2. CASE Fill(p)
    BY <1>2, <2>2, Zenon DEF Fill, Buffers
  <2>3. CASE DropRef(p)
    BY <1>2, <2>3, Zenon DEF DropRef, Buffers
  <2> QED
    BY <1>1, <2>1, <2>2, <2>3, Zenon DEF BioStep
<1>7. ASSUME NEW q \in Procs, Loc(q)' \in InOpLocs, Loc(q)' = "modify"
      PROVE  InHand(q, 1)' = InHand(q, 1)
  <2>1. th[q].held[1] \in Bufs
    <3>1. Count("modify") = 1 /\ th[q] \in Threads /\ Hand(q)
      BY <1>2, CountOf, Zenon DEF Single, IInv, Cache, Hands
    <3>2. th[q].held \in Seq(Bufs) /\ Len(th[q].held) = 1
      BY <1>5, <1>7, <3>1, Zenon DEF Threads, Hand
    <3> QED
      BY <3>2
  <2> QED
    BY <1>5, <1>6, <2>1, Zenon DEF InHand
<1>8. ASSUME NEW q \in Procs, Loc(q)' \in InOpLocs
      PROVE  /\ Loc(q) \in InOpLocs /\ wrote'[q] = wrote[q]
             /\ Loc(q)' = "modify" =>
                  /\ wrote[q].calls < OpWrites
                  /\ Cardinality(wrote[q].blocks \cup {InHand(q, 1)'}) <= OpBlocks
  <2>1. Thrifty(q)
    BY <1>5, <1>8, Zenon DEF Funded, InOp, InOpLocs
  <2> QED
    BY <1>1, <1>5, <1>7, <1>8, <2>1, Zenon DEF Thrifty
<1>9. Funded'
  BY <1>1, <1>8, SameFunded, Zenon
<1> QED
  BY <1>4, <1>9, Zenon DEF Panics

LEMMA OpReadFunded ==
  ASSUME IInv, IInv', Funded, NEW p \in Procs,
         (\E blk \in Home : OpBread(p, blk)) \/ StartRead(p)
  PROVE  Funded' /\ Panics
<1>1. /\ Reads("op", "modify") /\ Reads("idle", "read")
      /\ {"op", "idle", "modify", "read"} \subseteq Locs
      /\ {"op", "idle"} \cap Calls = {} /\ {"op", "modify"} \subseteq InOpLocs
      /\ "read" \notin InOpLocs /\ "read" # "modify" /\ {"op", "idle"} \subseteq Free
  BY Zenon DEF Reads, Locs, Free, Single, Calls, InOpLocs
<1>2. PICK blk \in Home, from \in {"op", "idle"}, k \in {"modify", "read"} :
        /\ th[p].pc = from /\ Bget(p, blk, k) /\ Reads(from, k) /\ blk \in Blocks
        /\ UNCHANGED <<lh, booting, wrote>> /\ Wants(k, blk)
        /\ k = "modify" => /\ from = "op" /\ wrote[p].calls < OpWrites
                           /\ Cardinality(wrote[p].blocks \cup {blk}) <= OpBlocks
  <2>1. \A blk \in Home : /\ blk \in Blocks
                          /\ Wants("modify", blk) /\ Wants("read", blk)
    BY LogAssumption, Zenon DEF Wants
  <2>2. ASSUME NEW blk \in Home, OpBread(p, blk)
        PROVE  /\ th[p].pc = "op" /\ Bget(p, blk, "modify")
               /\ UNCHANGED <<lh, booting, wrote>> /\ wrote[p].calls < OpWrites
               /\ Cardinality(wrote[p].blocks \cup {blk}) <= OpBlocks
    BY <2>2, Zenon DEF OpBread, At, logVars
  <2>3. ASSUME StartRead(p)
        PROVE  \E blk \in Home : /\ th[p].pc = "idle" /\ Bget(p, blk, "read")
                                 /\ UNCHANGED <<lh, booting, wrote>>
    BY <2>3, Zenon DEF StartRead, At, logVars
  <2> QED
    BY <1>1, <2>1, <2>2, <2>3, Zenon
<1>3. k \in Locs /\ from \notin Calls /\ from \in Free
  BY <1>1, Zenon
<1>4. Panics
  BY <1>2, <1>3, ReadPanics, Zenon
<1>5. ASSUME NEW b \in Bufs, Takes(p, b, blk, k) PROVE Funded'
  <2>1. /\ Goes(p, from, k) /\ Keeps(p)
        /\ \A n : n = Len(th[p].held) + 1 => InHand(p, n)' = blk
    BY <1>2, <1>3, <1>5, TakesGoes, Zenon DEF IInv
  <2>2. InHand(p, 1)' = blk
    <3>1. Len(th[p].held) = 0
      BY <1>2, <1>3, HeldNow, CountOf, Zenon DEF IInv, Cache
    <3>2. 1 = Len(th[p].held) + 1
      BY <3>1
    <3> QED
      BY <2>1, <3>2, Zenon
  <2> QED
    BY <1>1, <1>2, <2>1, <2>2, MovesFunded, Zenon
<1>6. ASSUME Halts PROVE Funded'
  <2>1. \A q \in Procs : Loc(q)' = Loc(q) /\ InHand(q, 1)' = InHand(q, 1)
    BY <1>6, Zenon DEF Halts, Loc, InHand
  <2>2. \A q \in Procs : Loc(q)' \in InOpLocs => Thrifty(q)
    BY <2>1, Zenon DEF Funded, InOp, InOpLocs
  <2> QED
    BY <1>2, <2>1, <2>2, SameFunded, Zenon DEF Thrifty
<1>7. Funded'
  BY <1>2, <1>3, <1>5, <1>6, BgetTakes, Zenon DEF IInv, Cache
<1> QED
  BY <1>4, <1>7, Zenon

LEMMA OpReleaseFunded ==
  ASSUME IInv, IInv', Funded, NEW p \in Procs, OpBrelse(p) \/ EndRead(p)
  PROVE  Funded' /\ Panics
<1>1. PICK from \in {"release", "read"}, k \in {"op", "idle"} :
        /\ th[p].pc = from /\ Brelse(p, 1, k) /\ UNCHANGED <<lh, booting, wrote>>
        /\ from = "release" <=> k = "op"
  BY Zenon DEF OpBrelse, EndRead, At, logVars
<1>2. /\ Releases(from, 1, k) /\ {from, k} \subseteq Locs /\ from \notin Calls
      /\ from \in InOpLocs <=> k \in InOpLocs
      /\ k # "modify" /\ Count(from) = 1
  <2>1. from \in Single
    BY Zenon DEF Single
  <2> QED
    BY <1>1, <2>1, CountOf, Zenon DEF Releases, Locs, Free, Single, Calls, InOpLocs
<1>3. 1 \in DOMAIN th[p].held
  <2>1. DOMAIN th[p].held = 1 .. 1
    BY <1>1, <1>2, HeldNow, Zenon DEF IInv, Cache
  <2> QED
    BY <2>1
<1>4. Gives(p, 1, k)
  BY <1>1, <1>2, <1>3, BrelseGives, Zenon DEF IInv, Cache, BufferCache
<1>5. Goes(p, from, k) /\ Keeps(p)
  BY <1>1, <1>2, <1>3, <1>4, GivesGoes, Zenon DEF IInv, Cache
<1>6. Funded'
  BY <1>1, <1>2, <1>5, MovesFunded, Zenon
<1> QED
  BY <1>4, <1>6, Zenon DEF Gives, Panics

LEMMA StartFunded ==
  ASSUME IInv, IInv', Funded, NEW p \in Procs, StartOp(p)
  PROVE  Funded' /\ Panics
<1>1. /\ th[p].pc = "idle" /\ th' = [th EXCEPT ![p].pc = "begin"]
      /\ UNCHANGED <<buf, lru, disk, panic>> /\ UNCHANGED <<lh, booting, wrote>>
  BY Zenon DEF StartOp, At, Goto, logVars
<1>2. {"idle", "begin"} \subseteq Free /\ "begin" \notin InOpLocs /\ "begin" # "modify"
  BY Zenon DEF Free, InOpLocs
<1>3. Goes(p, "idle", "begin") /\ Keeps(p)
  BY <1>1, <1>2, JumpGoes, Zenon DEF IInv
<1> QED
  BY <1>1, <1>2, <1>3, MovesFunded, Zenon DEF Panics

(* end_op gives back what is left of the reserve; log.committing is not    *)
(* set while an operation is open.                                         *)
LEMMA EndFunded ==
  ASSUME IInv, IInv', Funded, NEW p \in Procs, EndOp(p)
  PROVE  Funded' /\ Panics
<1>1. /\ th[p].pc = "op" /\ UNCHANGED <<lh, booting>>
      /\ wrote' = [wrote EXCEPT ![p] = NoWrites]
  BY Zenon DEF EndOp, At
<1>2. /\ {"op", "idle", "commit"} \subseteq Free /\ {"idle", "commit"} \cap InOpLocs = {}
      /\ "op" \in InOpLocs /\ "modify" \in InOpLocs
      /\ "idle" # "sleep" /\ "commit" # "sleep"
  BY Zenon DEF Free, InOpLocs
<1>3. ~committing
  <2>1. Loc(p) = "op"
    BY <1>1, Zenon DEF Loc
  <2> QED
    BY <1>2, <2>1, NoWorker, Zenon
<1>4. PICK to \in {"idle", "commit"} :
        /\ \/ th' = [th EXCEPT ![p].pc = to]
           \/ th' = Wakeup([th EXCEPT ![p].pc = to]) /\ to # "sleep"
        /\ UNCHANGED <<buf, lru, disk>> /\ panic' = panic
  BY <1>2, <1>3, Zenon DEF EndOp, Goto
<1>5. Goes(p, "op", to) /\ Keeps(p)
  BY <1>1, <1>2, <1>4, JumpGoes, Zenon DEF IInv
<1>6. \A q \in Procs \ {p} : wrote'[q] = wrote[q]
  BY <1>1, Zenon DEF IInv, Control, LogTypes
<1>7. Funded'
  BY <1>1, <1>2, <1>5, <1>6, MovesFunded, Zenon
<1> QED
  BY <1>4, <1>7, Zenon DEF Panics

(* The commit, or recovery, is over. *)
LEMMA DoneFunded ==
  ASSUME IInv, IInv', Funded, NEW p \in Procs, Done(p)
  PROVE  Funded' /\ Panics
<1>1. th[p].pc = "done" /\ UNCHANGED <<lh, outstanding, panic>>
  BY Zenon DEF Done, At
<1>2. "done" \in Working /\ "done" \notin Calls
  BY Zenon DEF Working, Calls
<1>3. outstanding' = 0 /\ lh' = <<>>
  <2>1. Place("done") /\ Loc(p) = "done"
    BY <1>1, <1>2, PlaceNow, Zenon
  <2> QED
    BY <1>1, <1>2, <2>1, WorkIdle, Zenon DEF Place
<1>4. Len(lh') <= LOGSIZE
  BY <1>3, LogAssumption
<1>5. Funded'
  BY <1>3, <1>4, IdleNext, Zenon
<1> QED
  BY <1>1, <1>5, Zenon DEF Panics

LEMMA WorkingFunded ==
  ASSUME IInv, IInv', Funded, NEW p \in Procs,
         \/ Commit(p) \/ WriteLogTo(p) \/ WriteLogFrom(p) \/ WriteLogCopy(p)
         \/ WriteLogRelease(p) \/ WriteHead(p)
         \/ InstallLog(p) \/ InstallDst(p) \/ InstallCopy(p) \/ InstallRelease(p)
         \/ ReadHead(p)
  PROVE  Funded'
<1>1. CASE Commit(p) \/ WriteLogTo(p) \/ WriteLogFrom(p) \/ WriteLogCopy(p)
  <2>1. /\ UNCHANGED <<lh, outstanding, booting>>
        /\ th[p].pc \in {"commit", "log", "log from", "log copy"}
    BY <1>1, Zenon DEF Commit, WriteLogTo, WriteLogFrom, WriteLogCopy, At, logVars
  <2>2. Loc(p) \in Working
    BY <2>1, Zenon DEF Loc, Working, InLog
  <2> QED
    BY <2>1, <2>2, WorkFunded, Zenon
<1>2. CASE WriteLogRelease(p) \/ WriteHead(p)
  <2>1. /\ UNCHANGED <<lh, outstanding, booting>>
        /\ th[p].pc \in {"log release from", "log release to", "head", "head copy",
                         "head release"}
    BY <1>2, Zenon DEF WriteLogRelease, WriteHead, At, logVars
  <2>2. Loc(p) \in Working
    BY <2>1, Zenon DEF Loc, Working, InLog, InHead
  <2> QED
    BY <2>1, <2>2, WorkFunded, Zenon
<1>3. CASE InstallLog(p) \/ InstallDst(p) \/ InstallCopy(p) \/ InstallRelease(p)
  <2>1. /\ UNCHANGED <<outstanding, booting>> /\ (lh' = lh \/ lh' = <<>>)
        /\ th[p].pc \in {"install", "install dst", "install copy",
                         "install release log", "install release dst"}
    BY <1>3, Zenon DEF InstallLog, InstallDst, InstallCopy, InstallRelease, At, logVars
  <2>2. Loc(p) \in Working
    BY <2>1, Zenon DEF Loc, Working, InInstall
  <2> QED
    BY <2>1, <2>2, WorkFunded, Zenon
<1>4. CASE ReadHead(p)
  <2>1. /\ UNCHANGED <<outstanding, booting>>
        /\ th[p].pc \in {"recover", "recover read"}
    BY <1>4, Zenon DEF ReadHead, At
  <2>2. Loc(p) \in Working /\ Loc(p) \in InRecover
    BY <2>1, Zenon DEF Loc, Working, InRecover
  <2>3. booting # NIL
    BY <2>2, Zenon DEF IInv, Control, Turns
  <2> QED
    BY <2>1, <2>2, <2>3, WorkFunded, Zenon
<1> QED
  BY <1>1, <1>2, <1>3, <1>4, Zenon

LEMMA NextFunded ==
  ASSUME Budget, IInv, IInv', Funded, [Next]_vars
  PROVE  Funded' /\ (Panics \/ panic' = "")
<1>1. ASSUME NEW p \in Procs, Step(p) PROVE Funded' /\ Panics
  <2>1. CASE BeginOp(p)
    BY <2>1, BeginFunded, Zenon DEF BeginOp, Panics
  <2> QED
    BY <1>1, <2>1, BreadFunded, LogWriteFunded, OpReadFunded, OpReleaseFunded, EndFunded,
       DoneFunded, WorkingFunded, CommitPanics, InstallPanics, Zenon DEF Step
<1>2. ASSUME NEW p \in Readers, StartRead(p) PROVE Funded' /\ Panics
  BY <1>2, OpReadFunded, LogAssumption, Zenon
<1>3. ASSUME Crash PROVE Funded' /\ panic' = ""
  <2>1. outstanding' = 0 /\ lh' = <<>> /\ panic' = ""
    BY <1>3, Zenon DEF Crash
  <2>2. lh' = <<>> /\ LOGSIZE \in Nat
    BY <2>1, LogAssumption, Zenon
  <2>3. Len(lh') <= LOGSIZE
    BY ONLY <2>2
  <2> QED
    BY <2>1, <2>3, IdleNext, Zenon
<1>4. ASSUME UNCHANGED vars PROVE Funded' /\ Panics
  <2>1. UNCHANGED <<lh, booting, wrote, th, buf, panic>>
    BY <1>4, Zenon DEF vars, bioVars, logVars
  <2>2. \A q \in Procs : Loc(q)' = Loc(q) /\ InHand(q, 1)' = InHand(q, 1)
    BY <2>1, Zenon DEF Loc, InHand
  <2>3. \A q \in Procs : Loc(q)' \in InOpLocs => Thrifty(q)
    BY <2>2, Zenon DEF Funded, InOp, InOpLocs
  <2>4. Funded'
    BY <2>1, <2>2, <2>3, SameFunded, Zenon DEF Thrifty
  <2> QED
    BY <2>1, <2>4, Zenon DEF Panics
<1> QED
  BY <1>1, <1>2, <1>3, <1>4, StartFunded, Zenon DEF Next

LEMMA InitFunded == IInv /\ Init => Funded
<1> SUFFICES ASSUME IInv, Init PROVE Funded
  BY Zenon
<1>1. outstanding = 0 /\ lh = <<>>
  BY Zenon DEF Init
<1>2. Len(lh) <= LOGSIZE
  BY <1>1, LogAssumption
<1> QED
  BY <1>1, <1>2, IdleFunded, Zenon

(* log.c does not panic, for any number of processes and operations, any   *)
(* sizes and any number of crashes: no transaction outgrows the log        *)
(* although begin_op looks at its room only when an operation starts,      *)
(* log_write is called only inside one, end_op never finds a commit under  *)
(* way, and brelse always finds its caller to own the lock.  Left is       *)
(* bget's panic, which depends on the size of the cache.                   *)
THEOREM LogNeverFull ==
  ASSUME Budget
  PROVE  Spec => []LogFits
<1>1. Init => LogFits
  BY Zenon DEF Init, LogFits
<1>2. IInv /\ IInv' /\ Funded /\ LogFits /\ [Next]_vars => Funded' /\ LogFits'
  BY NextFunded, Zenon DEF Panics, LogFits
<1> QED
  BY <1>1, <1>2, InitFunded, CacheInvariant, PTL DEF Spec
=============================================================================
