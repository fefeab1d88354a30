--------------------------------- MODULE Log ---------------------------------
(***************************************************************************)
(* The write-ahead log of kernel/log.c on the buffer cache: system calls   *)
(* run begin_op, modify blocks through log_write and run end_op; the last  *)
(* one out commits.  Readers use bread without a transaction, as fileread  *)
(* does.  A crash may come between any two steps and loses all but the     *)
(* disk; boot is recovery by the first process (forkret, initlog).         *)
(*                                                                         *)
(* The contents of a home block are a version that each modification       *)
(* raises; those of the header block are the block numbers block[0 .. n-1].*)
(***************************************************************************)
EXTENDS Bio

CONSTANTS
  Home,         \* blocks of the file system proper
  Readers,      \* processes that also read outside transactions
  MAXOPBLOCKS,  \* blocks any one operation writes
  LOGSIZE,      \* blocks in lh.block
  NLog,         \* sb->nlog: blocks of the on-disk log, header included
  OpBlocks,     \* blocks the operations at hand write each
  OpWrites,     \* bound: log_write calls of one operation
  MaxOps,       \* bound: operations begun
  MaxCrash      \* bound: crashes

Header == 0
LogBlock(i) == i                \* log.start + tail + 1, for tail = i - 1

(* Contents of a home block. *)
Version(v) == <<v>>
NextVersion(d) == Version(d[1] + 1)
Versions == [1 .. 1 -> Nat]

ASSUME LogAssumption ==
  /\ MAXOPBLOCKS \in Nat \ {0} /\ LOGSIZE \in Nat /\ NLog \in Nat \ {0}
  /\ OpBlocks \in 1 .. MAXOPBLOCKS /\ OpWrites \in Nat /\ MaxOps \in Nat
  /\ Blocks = Home \cup 0 .. NLog - 1
  /\ Home \cap 0 .. NLog - 1 = {}
  /\ Readers \subseteq Procs

VARIABLES
  lh,           \* log.lh: the blocks logged, in order
  outstanding,  \* log.outstanding
  committing,   \* log.committing
  tail,         \* loop index of the committer or of recovery
  wrote,        \* log_write calls and blocks of each open operation
  booting,      \* the process that recovers, or NIL
  ops, crashes  \* counters for the bounds

logVars == <<lh, outstanding, committing, tail, wrote, booting>>
vars == <<bioVars, logVars, ops, crashes>>

NoWrites == [calls |-> 0, blocks |-> {}]

Boot(p) ==
  [q \in Procs |-> Thread(IF q = p THEN "recover" ELSE "off")]

Init ==
  /\ BInit
  /\ disk = [b \in Blocks |-> IF b = Header THEN <<>> ELSE Version(0)]
  /\ panic = ""
  /\ lh = <<>> /\ outstanding = 0 /\ committing = FALSE /\ tail = 1
  /\ wrote = [p \in Procs |-> NoWrites]
  /\ \E p \in Procs : booting = p /\ th = Boot(p)
  /\ ops = 0 /\ crashes = 0

(* Power is lost: the next boot starts from a fresh memory. *)
Crash ==
  /\ crashes < MaxCrash
  /\ crashes' = crashes + 1
  /\ buf' = [b \in Bufs |-> FreshBuf]
  /\ lru' = [i \in Bufs |-> NBUF + 1 - i]
  /\ lh' = <<>> /\ outstanding' = 0 /\ committing' = FALSE /\ tail' = 1
  /\ wrote' = [p \in Procs |-> NoWrites]
  /\ panic' = ""
  /\ \E p \in Procs : booting' = p /\ th' = Boot(p)
  /\ UNCHANGED <<disk, ops>>

Wakeup(t) == [q \in Procs |-> IF t[q].pc = "sleep"
                              THEN [t[q] EXCEPT !.pc = "begin"] ELSE t[q]]
-----------------------------------------------------------------------------
(* Mutated form: the operation that enters is not counted. *)
FullNoSelf == Len(lh) + outstanding * MAXOPBLOCKS > LOGSIZE

(* "this op might exhaust log space; wait for commit." *)
Full == Len(lh) + (outstanding + 1) * MAXOPBLOCKS > LOGSIZE

(* A system call starts. *)
StartOp(p) ==
  /\ At(p, "idle") /\ ops < MaxOps
  /\ ops' = ops + 1
  /\ Goto(p, "begin")
  /\ UNCHANGED <<buf, lru, disk, panic, logVars, crashes>>

BeginOp(p) ==
  /\ At(p, "begin")
  /\ IF committing \/ Full
     THEN Goto(p, "sleep") /\ UNCHANGED <<outstanding, wrote>>
     ELSE /\ Goto(p, "op")
          /\ outstanding' = outstanding + 1
          /\ wrote' = [wrote EXCEPT ![p] = NoWrites]
  /\ UNCHANGED <<buf, lru, disk, panic, lh, committing, tail, booting, ops, crashes>>

(* The operation reads a block it is going to modify. *)
OpBread(p, blk) ==
  /\ At(p, "op")
  /\ wrote[p].calls < OpWrites
  /\ Cardinality(wrote[p].blocks \cup {blk}) <= OpBlocks
  /\ Bget(p, blk, "modify")
  /\ UNCHANGED <<logVars, ops, crashes>>

Logged(blk) == \E i \in DOMAIN lh : lh[i] = blk

(* The caller changes b->data and calls log_write. *)
LogWrite(p) ==
  LET b == Got(p)
      blk == buf[b].blockno
  IN /\ At(p, "modify")
     /\ IF Len(lh) >= LOGSIZE \/ Len(lh) >= NLog - 1
        THEN Panic("too big a transaction") /\ UNCHANGED <<lh, wrote>>
        ELSE IF outstanding < 1
        THEN Panic("log_write outside of trans") /\ UNCHANGED <<lh, wrote>>
        ELSE /\ buf' = [buf EXCEPT ![b].data = NextVersion(@),
                                   ![b].refcnt = IF Logged(blk) THEN @ ELSE @ + 1]
             /\ lh' = IF Logged(blk) THEN lh ELSE Append(lh, blk)
             /\ wrote' = [wrote EXCEPT ![p] = [calls |-> @.calls + 1,
                                               blocks |-> @.blocks \cup {blk}]]
             /\ Goto(p, "release")
             /\ UNCHANGED <<lru, disk, panic>>
     /\ UNCHANGED <<outstanding, committing, tail, booting, ops, crashes>>

OpBrelse(p) ==
  /\ At(p, "release")
  /\ Brelse(p, 1, "op")
  /\ UNCHANGED <<logVars, ops, crashes>>

(* end_op up to the call of commit. *)
EndOp(p) ==
  /\ At(p, "op")
  /\ wrote' = [wrote EXCEPT ![p] = NoWrites]
  /\ outstanding' = outstanding - 1
  /\ IF committing
     THEN Panic("log.committing") /\ UNCHANGED committing
     ELSE /\ UNCHANGED <<buf, lru, disk, panic>>
          /\ IF outstanding = 1
             THEN committing' = TRUE /\ Goto(p, "commit")
             ELSE /\ th' = Wakeup([th EXCEPT ![p].pc = "idle"])
                  /\ UNCHANGED committing
  /\ UNCHANGED <<lh, tail, booting, ops, crashes>>
-----------------------------------------------------------------------------
(* Mutated form: the header is written before the log blocks. *)
CommitHeaderFirst(p) ==
  /\ At(p, "commit")
  /\ Goto(p, IF lh = <<>> THEN "done" ELSE "head")
  /\ UNCHANGED <<buf, lru, disk, panic, logVars, ops, crashes>>

(* Mutated form: off by one in the test for an empty transaction. *)
CommitMoreThanOne(p) ==
  /\ At(p, "commit")
  /\ Goto(p, IF Len(lh) <= 1 THEN "done" ELSE "log")
  /\ UNCHANGED <<buf, lru, disk, panic, logVars, ops, crashes>>

(* commit() *)
Commit(p) ==
  /\ At(p, "commit")
  /\ Goto(p, IF lh = <<>> THEN "done" ELSE "log")
  /\ UNCHANGED <<buf, lru, disk, panic, logVars, ops, crashes>>

(* write_log: for each logged block, bread the log block and the cached    *)
(* one, copy, bwrite, brelse both.                                         *)
WriteLogTo(p) ==
  /\ At(p, "log")
  /\ IF tail <= Len(lh)
     THEN Bget(p, LogBlock(tail), "log from") /\ UNCHANGED tail
     ELSE /\ Goto(p, "head") /\ tail' = 1
          /\ UNCHANGED <<buf, lru, disk, panic>>
  /\ UNCHANGED <<lh, outstanding, committing, wrote, booting, ops, crashes>>

WriteLogFrom(p) ==
  /\ At(p, "log from")
  /\ Bget(p, lh[tail], "log copy")
  /\ UNCHANGED <<logVars, ops, crashes>>

WriteLogCopy(p) ==
  /\ At(p, "log copy")
  /\ Bwrite(p, th[p].held[1], buf[th[p].held[2]].data, "log release from")
  /\ UNCHANGED <<logVars, ops, crashes>>

WriteLogRelease(p) ==
  /\ \/ /\ At(p, "log release from")
        /\ Brelse(p, 2, "log release to")
        /\ UNCHANGED tail
     \/ /\ At(p, "log release to")
        /\ Brelse(p, 1, "log")
        /\ tail' = tail + 1
  /\ UNCHANGED <<lh, outstanding, committing, wrote, booting, ops, crashes>>

(* write_head: commits the transaction when lh has blocks, erases it when  *)
(* lh is empty.                                                            *)
WriteHead(p) ==
  /\ \/ At(p, "head") /\ Bget(p, Header, "head copy")
     \/ At(p, "head copy") /\ Bwrite(p, Got(p), lh, "head release")
     \/ /\ At(p, "head release")
        /\ Brelse(p, 1, IF lh = <<>> THEN "done" ELSE "install")
  /\ UNCHANGED <<logVars, ops, crashes>>

(* Mutated form: the transaction is erased before it is installed in full. *)
InstallShort == tail < Len(lh)

InstallMore == tail <= Len(lh)

(* install_trans(recovering) and the log.lh.n = 0 that follows it. *)
InstallLog(p) ==
  /\ At(p, "install")
  /\ IF InstallMore
     THEN Bget(p, LogBlock(tail), "install dst") /\ UNCHANGED <<lh, tail>>
     ELSE /\ lh' = <<>> /\ tail' = 1 /\ Goto(p, "head")
          /\ UNCHANGED <<buf, lru, disk, panic>>
  /\ UNCHANGED <<outstanding, committing, wrote, booting, ops, crashes>>

InstallDst(p) ==
  /\ At(p, "install dst")
  /\ Bget(p, lh[tail], "install copy")
  /\ UNCHANGED <<logVars, ops, crashes>>

(* memmove, bwrite, and bunpin unless recovering. *)
InstallCopy(p) ==
  LET b == th[p].held[2]
      d == buf[th[p].held[1]].data
  IN /\ At(p, "install copy")
     /\ IF buf[b].owner # p THEN Panic("bwrite") /\ UNCHANGED tail
        ELSE /\ buf' = [buf EXCEPT ![b].data = d,
                                   ![b].refcnt = IF booting = NIL THEN @ - 1 ELSE @]
             /\ disk' = [disk EXCEPT ![buf[b].blockno] = d]
             /\ tail' = tail + 1
             /\ Goto(p, "install release log")
             /\ UNCHANGED <<lru, panic>>
     /\ UNCHANGED <<lh, outstanding, committing, wrote, booting, ops, crashes>>

InstallRelease(p) ==
  /\ \/ /\ At(p, "install release log")
        /\ Brelse(p, 1, "install release dst")
     \/ /\ At(p, "install release dst")
        /\ Brelse(p, 1, "install")
  /\ UNCHANGED <<logVars, ops, crashes>>

(* The end of end_op; or recovery is over and system calls may come. *)
Done(p) ==
  /\ At(p, "done")
  /\ committing' = FALSE
  /\ booting' = NIL
  /\ th' = IF booting # NIL THEN [q \in Procs |-> Thread("idle")]
           ELSE Wakeup([th EXCEPT ![p].pc = "idle"])
  /\ UNCHANGED <<buf, lru, disk, panic, lh, outstanding, tail, wrote, ops, crashes>>

(* recover_from_log: read_head, then install_trans(1) and write_head. *)
ReadHead(p) ==
  /\ \/ At(p, "recover") /\ Bget(p, Header, "recover read") /\ UNCHANGED lh
     \/ /\ At(p, "recover read")
        /\ lh' = buf[Got(p)].data
        /\ Brelse(p, 1, "install")
  /\ UNCHANGED <<outstanding, committing, tail, wrote, booting, ops, crashes>>

(* fileread outside a transaction. *)
StartRead(p) ==
  /\ At(p, "idle")
  /\ \E blk \in Home : Bget(p, blk, "read")
  /\ UNCHANGED <<logVars, ops, crashes>>

EndRead(p) ==
  /\ At(p, "read")
  /\ Brelse(p, 1, "idle")
  /\ UNCHANGED <<logVars, ops, crashes>>
-----------------------------------------------------------------------------
Bread(p) == BioStep(p) /\ UNCHANGED <<logVars, ops, crashes>>

(* What process p does once it has begun something. *)
Step(p) ==
  \/ Bread(p)
  \/ BeginOp(p) \/ LogWrite(p) \/ OpBrelse(p) \/ EndOp(p)
  \/ \E blk \in Home : OpBread(p, blk)
  \/ Commit(p) \/ WriteLogTo(p) \/ WriteLogFrom(p) \/ WriteLogCopy(p)
  \/ WriteLogRelease(p) \/ WriteHead(p)
  \/ InstallLog(p) \/ InstallDst(p) \/ InstallCopy(p) \/ InstallRelease(p)
  \/ Done(p) \/ ReadHead(p) \/ EndRead(p)

Next ==
  \/ \E p \in Procs : Step(p) \/ StartOp(p)
  \/ \E p \in Readers : StartRead(p)
  \/ Crash

Spec == Init /\ [][Next]_vars

(* The scheduler runs every runnable process and the disk answers. *)
FairSpec == Spec /\ \A p \in Procs : WF_vars(Step(p))
-----------------------------------------------------------------------------
(* Where p is in its own code, seen past calls of bread and brelse. *)
Loc(p) == IF th[p].pc \in {"lock", "fill", "drop"} THEN th[p].k ELSE th[p].pc

Installing == \E p \in Procs :
  Loc(p) \in {"install", "install dst", "install copy",
             "install release log", "install release dst"}

(* A block in the log is pinned from log_write to its installation. *)
Pinned(blk) ==
  /\ booting = NIL
  /\ \E i \in DOMAIN lh : lh[i] = blk /\ (Installing => i >= tail)

(* A buffer is counted once by every process that is using, waiting for or *)
(* dropping it and once by the log while its block waits to be installed:  *)
(* bget can neither recycle a dirty buffer nor lose one for good.          *)
RefCounts ==
  \A b \in Bufs :
    buf[b].refcnt =
      Cardinality({p \in Procs : \E i \in DOMAIN th[p].held : th[p].held[i] = b})
      + Cardinality({p \in Procs : th[p].drop = b})
      + (IF Pinned(buf[b].blockno) THEN 1 ELSE 0)

(* The cache keeps its promises to everybody at once: a block has at most  *)
(* one buffer, whoever looks it up while it is recycled; a buffer in a     *)
(* process's hands is valid and locked by it alone; and its count is that  *)
(* of its users and of the log.                                            *)
BufferCache == OneBufferPerBlock /\ LockedByHolder /\ RefCounts

(* Operations fit the log that keep to MAXOPBLOCKS calls of log_write, or  *)
(* to fewer blocks than that, although begin_op looks for room only when   *)
(* one starts, and log_write panics in a full log even where it would      *)
(* absorb the block: no panic of log.c is reachable, nor those of bwrite   *)
(* and brelse.  bget's is another matter: with NBUF = LOGSIZE, as param.h  *)
(* has it, a full log pins every buffer.                                   *)
LogFits == panic \in {"", "bget: no buffers"}

(* The file system as recovery would leave it. *)
Durable ==
  [b \in Home |->
    LET S == {i \in DOMAIN disk[Header] : disk[Header][i] = b}
    IN IF S = {} THEN disk[b] ELSE disk[LogBlock(CHOOSE i \in S : TRUE)]]

(* The file system as bread shows it. *)
Latest ==
  [b \in Home |->
    LET S == {c \in Cached(b) : buf[c].valid}
    IN IF S = {} THEN disk[b] ELSE buf[CHOOSE c \in S : TRUE].data]

(* Once the last end_op has returned, everything written is on disk. *)
DurableWhenQuiet ==
  booting = NIL /\ outstanding = 0 /\ ~committing => Durable = Latest

(* The file system as system calls see it, or will when it is recovered. *)
Current == IF booting # NIL THEN Durable ELSE Latest

InOp == {p \in Procs : Loc(p) \in {"op", "modify", "release"}}

(* The log makes system calls atomic: on-disk states between two commits   *)
(* all recover to the same contents, a commit happens only with no         *)
(* operation in progress and takes all of their writes, what bread shows   *)
(* changes by log_write alone (whatever the cache recycles), and recovery  *)
(* may itself be cut short any number of times.                            *)
AD == INSTANCE AtomicDisk
        WITH Data <- Versions, durable <- Durable, current <- Current,
             active <- InOp
AtomicTransactions == AD!Spec

(* No process sleeps in begin_op for ever. *)
SleeperWakes == \A p \in Procs : []<>(th[p].pc # "sleep")

(* A commit ends: no process waits for a buffer it holds itself or that    *)
(* no one will release.                                                    *)
CommitEnds == []<>(~ committing)

(* Recovery ends, and system calls can be made. *)
RecoveryEnds == []<>(booting = NIL)
=============================================================================
