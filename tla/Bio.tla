--------------------------------- MODULE Bio ---------------------------------
(***************************************************************************)
(* The buffer cache of kernel/bio.c over a disk of blocks.  A critical     *)
(* section under bcache.lock is one step; acquiring a buffer's sleep lock, *)
(* the disk transfer and each half of brelse are steps of their own.       *)
(*                                                                         *)
(* Every process is a thread record: where it is (pc), where it goes once  *)
(* the call of bread or brelse it is in returns (k), the buffers bget gave *)
(* it in order (held), and the buffer brelse is about to drop (drop).      *)
(* A client module supplies the callers' program counters.                 *)
(***************************************************************************)
EXTENDS Integers, Sequences, FiniteSets

CONSTANTS
  Procs,    \* processes in the kernel
  Blocks,   \* block numbers of the disk
  NBUF,     \* buffers of the cache
  NIL       \* no process, no block, no buffer

Bufs == 1 .. NBUF

ASSUME BioAssumption ==
  /\ NBUF \in Nat
  /\ IsFiniteSet(Procs)
  /\ NIL \notin Procs \cup Blocks \cup Bufs

VARIABLES
  buf,      \* struct buf: blockno, valid, refcnt, data, owner of its sleep lock
  lru,      \* the list at bcache.head, most recently used first
  disk,     \* what the device holds
  th,       \* the thread records
  panic     \* message of the panic that stopped the kernel, or ""

bioVars == <<buf, lru, disk, th, panic>>

(* binit; dev = 0 in a fresh buffer matches no block. *)
FreshBuf == [blockno |-> NIL, valid |-> FALSE, refcnt |-> 0, data |-> <<>>,
             owner |-> NIL]

BInit == /\ buf = [b \in Bufs |-> FreshBuf]
         /\ lru = [i \in Bufs |-> NBUF + 1 - i]

Thread(pc) == [pc |-> pc, k |-> pc, held |-> <<>>, drop |-> NIL]

At(p, pc) == panic = "" /\ th[p].pc = pc

Goto(p, pc) == th' = [th EXCEPT ![p].pc = pc]

Panic(msg) == panic' = msg /\ UNCHANGED <<buf, lru, disk, th>>

Cached(blk) == {b \in Bufs : buf[b].blockno = blk}

(* The least recently used buffer that no one refers to. *)
Unused == {i \in Bufs : buf[lru[i]].refcnt = 0}
Victim == lru[CHOOSE i \in Unused : \A j \in Unused : j <= i]

(* Mutated form: the lookup misses a block whose buffer is not yet valid. *)
BgetValidOnly(p, blk, k) ==
  LET hit == {b \in Cached(blk) : buf[b].valid}
      b   == IF hit # {} THEN CHOOSE c \in hit : TRUE ELSE Victim
  IN IF hit = {} /\ Unused = {} THEN Panic("bget: no buffers")
     ELSE /\ buf' = [buf EXCEPT ![b] =
                IF hit # {} THEN [buf[b] EXCEPT !.refcnt = @ + 1]
                ELSE [buf[b] EXCEPT !.blockno = blk, !.valid = FALSE, !.refcnt = 1]]
          /\ th' = [th EXCEPT ![p] = [pc |-> "lock", k |-> k, drop |-> NIL,
                                      held |-> Append(@.held, b)]]
          /\ UNCHANGED <<lru, disk, panic>>

(* bget up to acquiresleep; the caller of bread goes on at k. *)
Bget(p, blk, k) ==
  LET hit == Cached(blk)
      b   == IF hit # {} THEN CHOOSE c \in hit : TRUE ELSE Victim
  IN IF hit = {} /\ Unused = {} THEN Panic("bget: no buffers")
     ELSE /\ buf' = [buf EXCEPT ![b] =
                IF hit # {} THEN [buf[b] EXCEPT !.refcnt = @ + 1]
                ELSE [buf[b] EXCEPT !.blockno = blk, !.valid = FALSE, !.refcnt = 1]]
          /\ th' = [th EXCEPT ![p] = [pc |-> "lock", k |-> k, drop |-> NIL,
                                      held |-> Append(@.held, b)]]
          /\ UNCHANGED <<lru, disk, panic>>

(* The buffer bget gave p last. *)
Got(p) == th[p].held[Len(th[p].held)]

(* acquiresleep, then bread's look at valid. *)
AcquireSleep(p) ==
  LET b == Got(p) IN
  /\ At(p, "lock")
  /\ buf[b].owner = NIL
  /\ buf' = [buf EXCEPT ![b].owner = p]
  /\ Goto(p, IF buf[b].valid THEN th[p].k ELSE "fill")
  /\ UNCHANGED <<lru, disk, panic>>

(* virtio_disk_rw(b, 0); b->valid = 1. *)
Fill(p) ==
  LET b == Got(p) IN
  /\ At(p, "fill")
  /\ buf' = [buf EXCEPT ![b].data = disk[buf[b].blockno], ![b].valid = TRUE]
  /\ Goto(p, th[p].k)
  /\ UNCHANGED <<lru, disk, panic>>

(* The disk gets buffer b, whose data the caller has just set to d. *)
DiskWrite(b, d) ==
  /\ buf' = [buf EXCEPT ![b].data = d]
  /\ disk' = [disk EXCEPT ![buf[b].blockno] = d]

(* bwrite of that buffer; the caller goes on at k. *)
Bwrite(p, b, d, k) ==
  IF buf[b].owner # p THEN Panic("bwrite")
  ELSE DiskWrite(b, d) /\ Goto(p, k) /\ UNCHANGED <<lru, panic>>

(* brelse of the i-th buffer in p's hands, up to releasesleep; the caller  *)
(* goes on at k.                                                           *)
Brelse(p, i, k) ==
  LET b == th[p].held[i] IN
  IF buf[b].owner # p THEN Panic("brelse")
  ELSE /\ buf' = [buf EXCEPT ![b].owner = NIL]
       /\ th' = [th EXCEPT ![p] = [pc |-> "drop", k |-> k, drop |-> b,
                    held |-> SubSeq(@.held, 1, i - 1)
                               \o SubSeq(@.held, i + 1, Len(@.held))]]
       /\ UNCHANGED <<lru, disk, panic>>

(* The list with b moved to its head. *)
MoveToHead(b) ==
  LET at == CHOOSE i \in Bufs : lru[i] = b
  IN [i \in Bufs |-> IF i = 1 THEN b ELSE IF i <= at THEN lru[i - 1] ELSE lru[i]]

(* The rest of brelse, under bcache.lock. *)
DropRef(p) ==
  LET b == th[p].drop IN
  /\ At(p, "drop")
  /\ buf' = [buf EXCEPT ![b].refcnt = @ - 1]
  /\ lru' = IF buf[b].refcnt = 1 THEN MoveToHead(b) ELSE lru
  /\ th' = [th EXCEPT ![p].pc = th[p].k, ![p].drop = NIL]
  /\ UNCHANGED <<disk, panic>>

BioStep(p) == AcquireSleep(p) \/ Fill(p) \/ DropRef(p)
-----------------------------------------------------------------------------
(* A block has at most one buffer, whoever looked it up at the same time:  *)
(* the lookup and the recycling of bget are one critical section.          *)
OneBufferPerBlock ==
  \A b, c \in Bufs :
    b # c /\ buf[b].blockno # NIL => buf[b].blockno # buf[c].blockno

(* A buffer in a process's hands keeps its block, is valid and is locked   *)
(* by that process alone; only one process at a time can use a buffer.     *)
LockedByHolder ==
  \A p \in Procs : \A i \in DOMAIN th[p].held :
    LET b == th[p].held[i]
        arrived == i < Len(th[p].held) \/ th[p].pc \notin {"lock", "fill"}
    IN arrived => buf[b].owner = p /\ buf[b].valid
=============================================================================
