-------------------------------- MODULE Inode --------------------------------
(***************************************************************************)
(* The disk structures of kernel/fs.c and the functions that work on one   *)
(* locked inode: the block bitmap, the inode blocks, bmap, itrunc, readi,  *)
(* writei and directories.  Every function is an operator on a record io   *)
(* that carries the disk as the buffer cache shows it, the in-memory copy  *)
(* of the inode and the blocks written so far.                             *)
(*                                                                         *)
(* The unit of a file's size is a directory entry: a block holds BSIZE     *)
(* units.  A unit is a tuple: <<>> is zeroed memory, <<addr>> an entry of  *)
(* an indirect block, <<inum, name>> a directory entry, and <<inum>> data  *)
(* written to the file inum.                                               *)
(***************************************************************************)
EXTENDS Integers, Sequences, SequencesExt, FiniteSetsExt

CONSTANTS
  NInodes,      \* sb.ninodes - 1: inode numbers 1 .. NInodes
  NBlocks,      \* data blocks 1 .. NBlocks
  BSIZE,        \* units in a block
  NDIRECT       \* direct addresses of an inode

ASSUME InodeAssumption ==
  {NInodes, NBlocks, BSIZE, NDIRECT} \subseteq Nat \ {0}

Inums == 1 .. NInodes
ROOTINO == 1
Blocks == 1 .. NBlocks
NINDIRECT == BSIZE
MAXFILE == NDIRECT + NINDIRECT

Zero == <<>>
ZeroBlock == [k \in 0 .. BSIZE - 1 |-> Zero]

(* struct dinode; no_type is type 0, a free inode. *)
FreeDinode == [type |-> "no_type", major |-> 0, nlink |-> 0, size |-> 0,
               addrs |-> [k \in 0 .. NDIRECT |-> 0]]

(* What log_write is told: one block of bitmap, one inode to a block. *)
BBLOCK == <<"bitmap">>
IBLOCK(i) == <<"inode", i>>
DBLOCK(b) == <<"data", b>>

(* d: disk; c: in-memory inode; i: its number; w: blocks written; a: the   *)
(* address bmap and balloc return; n: what writei returns.                 *)
Io(d, c, i, w) == [d |-> d, c |-> c, i |-> i, w |-> w, a |-> 0, n |-> 0,
                   panic |-> ""]
-----------------------------------------------------------------------------
balloc(io) ==
  LET free == Blocks \ io.d.used
      Take(b) == [io EXCEPT !.d.used = @ \cup {b}, !.d.data[b] = ZeroBlock,
                            !.a = b, !.w = @ \cup {BBLOCK, DBLOCK(b)}]
  IN IF free = {} THEN [io EXCEPT !.a = 0] ELSE Take(Min(free))

bfree(io, b) ==
  IF b \notin io.d.used THEN [io EXCEPT !.panic = "freeing free block"]
  ELSE [io EXCEPT !.d.used = @ \ {b}, !.w = @ \cup {BBLOCK}]

iupdate(io) ==
  [io EXCEPT !.d.inode[io.i] = io.c, !.w = @ \cup {IBLOCK(io.i)}]

(* addrs[k], allocated when it is 0. *)
Addr(io, k) ==
  LET Set(r) == [r EXCEPT !.c.addrs[k] = r.a]
  IN IF io.c.addrs[k] # 0 THEN [io EXCEPT !.a = io.c.addrs[k]]
     ELSE Set(balloc(io))

(* Entry k of the indirect block io.a, allocated when it is 0. *)
IndirectAddr(io, k) ==
  LET entry == io.d.data[io.a][k]
      Set(r) == IF r.a = 0 THEN r
                ELSE [r EXCEPT !.d.data[io.a][k] = <<r.a>>,
                               !.w = @ \cup {DBLOCK(io.a)}]
  IN CASE io.a = 0 -> io
       [] io.a # 0 /\ entry # Zero -> [io EXCEPT !.a = entry[1]]
       [] OTHER -> Set(balloc(io))

bmap(io, bn) ==
  CASE bn < NDIRECT -> Addr(io, bn)
    [] bn \in NDIRECT .. MAXFILE - 1 -> IndirectAddr(Addr(io, NDIRECT), bn - NDIRECT)
    [] OTHER -> [io EXCEPT !.panic = "bmap: out of range"]

(* Blocks an inode holds: direct, indirect and the indirect block itself. *)
Direct(c) == {c.addrs[k] : k \in 0 .. NDIRECT - 1} \ {0}
Indirect(d, c) ==
  IF c.addrs[NDIRECT] = 0 THEN {}
  ELSE {u[1] : u \in Range(d.data[c.addrs[NDIRECT]]) \ {Zero}}
BlocksOf(d, c) == Direct(c) \cup Indirect(d, c) \cup ({c.addrs[NDIRECT]} \ {0})

itrunc(io) ==
  iupdate([FoldSet(LAMBDA b, x : bfree(x, b), io, BlocksOf(io.d, io.c)) EXCEPT
             !.c.addrs = FreeDinode.addrs, !.c.size = 0])
-----------------------------------------------------------------------------
(* The chunks of a transfer of n units from off: one block each. *)
Chunks(off, n) ==
  IF n = 0 THEN <<>>
  ELSE [k \in 1 .. (off + n - 1) \div BSIZE - off \div BSIZE + 1 |->
          off \div BSIZE + k - 1]

(* The units of block bn that lie in off .. off + n - 1. *)
InBlock(bn, off, n) ==
  {k \in 0 .. BSIZE - 1 : bn * BSIZE + k \in off .. off + n - 1}

(* One turn of writei's loop.  io.n counts the units written; the loop has *)
(* ended early when io.n is short of the turns taken.  bad is a block      *)
(* whose copyin fails, or -1.                                              *)
WriteChunk(io, bn, off, n, u, bad) ==
  LET ks == InBlock(bn, off, n)
      Copy(r) ==
        IF r.a = 0 \/ r.panic # "" \/ bn = bad THEN r
        ELSE [r EXCEPT !.n = @ + Cardinality(ks), !.w = @ \cup {DBLOCK(r.a)},
                       !.d.data[r.a] = [k \in 0 .. BSIZE - 1 |->
                                          IF k \in ks THEN u ELSE @[k]]]
  IN IF off + io.n # Max({off, bn * BSIZE}) THEN io ELSE Copy(bmap(io, bn))

WriteLoop(io, off, n, u, bad) ==
  FoldLeft(LAMBDA r, bn : WriteChunk(r, bn, off, n, u, bad), io, Chunks(off, n))

TooFar(io, off, n) == off > io.c.size \/ off + n > MAXFILE * BSIZE

(* Mutated form: the size grows by what was asked for, not by what was     *)
(* written.                                                                *)
WriteiFullSize(io, off, n, u, bad) ==
  LET Finish(r) == iupdate([r EXCEPT !.c.size = Max({@, off + n})])
  IN IF TooFar(io, off, n) THEN [io EXCEPT !.n = -1]
     ELSE Finish(WriteLoop(io, off, n, u, bad))

(* writei of n units, all u, at off. *)
writei(io, off, n, u, bad) ==
  LET Finish(r) == iupdate([r EXCEPT !.c.size = Max({@, off + r.n})])
  IN IF TooFar(io, off, n) THEN [io EXCEPT !.n = -1]
     ELSE Finish(WriteLoop(io, off, n, u, bad))

(* One turn of readi's loop: bmap would allocate a block that is missing,  *)
(* and the loop ends when it cannot.                                       *)
ReadChunk(io, bn, off, n) ==
  LET Copy(r) == IF r.a = 0 \/ r.panic # "" THEN r
                 ELSE [r EXCEPT !.n = @ + Cardinality(InBlock(bn, off, n))]
  IN IF off + io.n # Max({off, bn * BSIZE}) THEN io ELSE Copy(bmap(io, bn))

readi(io, off, n) ==
  LET m == Min({n, io.c.size - off})
  IN IF off > io.c.size THEN io
     ELSE FoldLeft(LAMBDA r, bn : ReadChunk(r, bn, off, m), io, Chunks(off, m))

(* The address of block bn of an inode, 0 if none, and unit k. *)
Mapped(d, c, bn) ==
  IF bn < NDIRECT THEN c.addrs[bn]
  ELSE IF c.addrs[NDIRECT] = 0 THEN 0
  ELSE LET u == d.data[c.addrs[NDIRECT]][bn - NDIRECT]
       IN IF u = Zero THEN 0 ELSE u[1]
Unit(d, c, k) == d.data[Mapped(d, c, k \div BSIZE)][k % BSIZE]
-----------------------------------------------------------------------------
(* Offset of the entry called name, or -1. *)
DirOffset(d, c, name) ==
  LET hits == {k \in 0 .. c.size - 1 :
                 Unit(d, c, k) # Zero /\ Unit(d, c, k)[2] = name}
  IN IF hits = {} THEN -1 ELSE Min(hits)

(* dirlink, once dirlookup has not found the name: io.n = 1 on success. *)
dirlink(io, name, inum) ==
  LET holes == {k \in 0 .. io.c.size - 1 : Unit(io.d, io.c, k) = Zero}
      off == IF holes = {} THEN io.c.size ELSE Min(holes)
  IN [writei([io EXCEPT !.n = 0], off, 1, <<inum, name>>, -1) EXCEPT !.a = 0]

isdirempty(d, c) == \A k \in 2 .. c.size - 1 : Unit(d, c, k) = Zero
=============================================================================
