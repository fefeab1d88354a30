--------------------------------- MODULE Fs ---------------------------------
(***************************************************************************)
(* Processes in the file system calls of kernel/sysfile.c and file.c, over *)
(* the inode table and the path lookup of kernel/fs.c.  The log appears as *)
(* its abstraction (AtomicDisk): what an operation writes becomes durable  *)
(* when the last open operation ends, and a crash returns to it.           *)
(*                                                                         *)
(* A process in a call has a list of tasks still to do; an action performs *)
(* the first and puts what the code does next in its place.  ilock is a    *)
(* task of its own; unlocking belongs to the step before it.  A step that  *)
(* works on a locked inode is one action: only balloc, bfree, ialloc and   *)
(* the inode table are shared then, and no step has more than one of them  *)
(* whose place among other processes' steps could matter.                  *)
(***************************************************************************)
EXTENDS Inode

CONSTANTS
  Procs,        \* processes
  NIL,          \* no process
  NINODE,       \* entries of itable
  NFILE,        \* entries of ftable
  NOFILE,       \* file descriptors of a process
  NDEV,         \* device numbers are below NDEV
  MAXOPBLOCKS,  \* blocks any one operation writes
  MaxActive,    \* operations the log admits at a time
  MaxCalls,     \* bound: system calls
  MaxCrash      \* bound: crashes

ASSUME FsAssumption ==
  /\ {NINODE, NFILE, NOFILE, NDEV, MaxActive} \subseteq Nat \ {0}
  /\ MAXOPBLOCKS \in Nat /\ MAXOPBLOCKS >= 6
  /\ NIL \notin Procs

VARIABLES
  disk,         \* inode blocks, bitmap and data blocks, as the cache shows them
  durable,      \* what a crash returns to
  active,       \* processes between begin_op and end_op
  wrote,        \* blocks each active operation has written
  itable,       \* itable.inode
  ftable,       \* ftable.file
  ofile,        \* p->ofile
  proc,         \* what each process is doing
  panic,        \* message of a panic, or ""
  strayed,      \* an entry was added to a directory without links
  reused,       \* an inode was allocated while iput had yet to drop its entry
  menu,         \* calls that processes make: records, and amounts to transfer
  calls, crashes

vars == <<disk, durable, active, wrote, itable, ftable, ofile, proc, panic,
          strayed, reused, menu, calls, crashes>>

Slots == 1 .. NINODE
Files == 1 .. NFILE

(* An unused entry of itable and of ftable; what the code leaves there is  *)
(* not read again.                                                         *)
EmptySlot == [inum |-> 0, ref |-> 0, lock |-> NIL, valid |-> FALSE,
              c |-> FreeDinode]
FD_NONE == [type |-> "FD_NONE", ref |-> 0, ip |-> 0, off |-> 0, mode |-> ""]

(* cur, ip, dp and name are the C variables of namex and its callers; path *)
(* is what is left of the path, n what is left to write.                   *)
Idle(cwd) == [todo |-> <<>>, call |-> [op |-> ""], path |-> <<>>, name |-> "",
              cur |-> 0, ip |-> 0, dp |-> 0, n |-> 0, cwd |-> cwd]

(* Every process starts in the root directory, which is in slot 1. *)
BootTable ==
  [s \in Slots |-> IF s = 1 THEN [EmptySlot EXCEPT !.inum = ROOTINO,
                                                   !.ref = Cardinality(Procs)]
                   ELSE EmptySlot]

(* d is the disk, m the menu; n of the MaxCalls calls are not made. *)
Boot(d, m, n) ==
  /\ menu = m
  /\ disk = d /\ durable = d
  /\ active = {} /\ wrote = [p \in Procs |-> {}]
  /\ proc = [p \in Procs |-> Idle(1)]
  /\ panic = "" /\ strayed = FALSE /\ reused = FALSE
  /\ calls = n /\ crashes = 0
-----------------------------------------------------------------------------
At(p, x) == panic = "" /\ proc[p].todo # <<>> /\ Head(proc[p].todo)[1] = x
Arg(p) == Head(proc[p].todo)[2]
Then(p, tasks) == tasks \o Tail(proc[p].todo)

BEGIN == <<"begin_op">>
END == <<"end_op">>
ILOCK(s) == <<"ilock", s>>
IUNLOCK(s) == <<"iunlock", s>>
IPUT(s) == <<"iput", s>>
Do(x) == <<x>>

(* The task is done; the C variables of a call do not outlive it. *)
Done(p) ==
  proc' = [proc EXCEPT ![p] = IF Len(@.todo) = 1 THEN Idle(@.cwd)
                              ELSE [@ EXCEPT !.todo = Tail(@)]]

(* What follows when namex or create returns 0: end_op and return, except  *)
(* in sys_link once it has raised nlink.                                   *)
Fail(p) ==
  IF proc[p].call.op = "link" /\ proc[p].ip # 0
  THEN <<ILOCK(proc[p].ip), Do("link_bad")>> ELSE <<END>>

(* The slot iget returns for inode i: its own, else the first unused one,  *)
(* else 0.                                                                 *)
Slot(i) ==
  LET own == {s \in Slots : itable[s].ref > 0 /\ itable[s].inum = i}
      unused == {s \in Slots : itable[s].ref = 0}
  IN CASE own # {} -> Min(own) [] own = {} /\ unused # {} -> Min(unused)
       [] OTHER -> 0
iget(t, i) ==
  LET s == Slot(i)
  IN IF s = 0 THEN t
     ELSE IF t[s].ref > 0 THEN [t EXCEPT ![s].ref = @ + 1]
     ELSE [t EXCEPT ![s] = [EmptySlot EXCEPT !.inum = i, !.ref = 1]]
PanicIf(bad, msg) == panic' = IF bad THEN msg ELSE panic
PanicNoSlot(i) == PanicIf(Slot(i) = 0, "iget: no inodes")

iunlock(t, s) == [t EXCEPT ![s].lock = NIL]
unref(t, s) ==
  [t EXCEPT ![s] = IF @.ref = 1 THEN EmptySlot ELSE [@ EXCEPT !.ref = @ - 1]]

(* Work on the inode in slot s, which p has locked. *)
IoOn(p, s) == Io(disk, itable[s].c, itable[s].inum, wrote[p])
InCore(io, s) == [itable EXCEPT ![s].c = io.c]
Write(p, io) ==
  /\ disk' = io.d
  /\ wrote' = [wrote EXCEPT ![p] = io.w]
  /\ panic' = CASE io.panic # "" -> io.panic
                [] io.w # {} /\ p \notin active -> "log_write outside of trans"
                [] OTHER -> panic

(* The common end of a step on a locked inode: write it and unlock it. *)
WriteUnlock(p, s, io) == Write(p, io) /\ itable' = iunlock(InCore(io, s), s)

Same == UNCHANGED <<durable, active, ftable, ofile, reused, calls, menu, crashes>>
NoWrite == UNCHANGED <<disk, wrote>>
-----------------------------------------------------------------------------
(* begin_op and end_op of the log. *)
BeginOp(p) ==
  /\ At(p, "begin_op")
  /\ Cardinality(active) < MaxActive
  /\ active' = active \cup {p}
  /\ proc' = [proc EXCEPT ![p].todo = Tail(@)]
  /\ UNCHANGED <<disk, durable, wrote, itable, ftable, ofile, panic, strayed,
                 reused, calls, menu, crashes>>

EndOp(p) ==
  /\ At(p, "end_op")
  /\ active' = active \ {p}
  /\ wrote' = [wrote EXCEPT ![p] = {}]
  /\ durable' = IF active = {p} THEN disk ELSE durable
  /\ Done(p)
  /\ UNCHANGED <<disk, itable, ftable, ofile, panic, strayed, reused, calls,
                 menu, crashes>>

Ilock(p) ==
  LET s == Arg(p)
      c == IF itable[s].valid THEN itable[s].c ELSE disk.inode[itable[s].inum]
  IN /\ At(p, "ilock")
     /\ IF itable[s].ref < 1 THEN panic' = "ilock" /\ UNCHANGED <<itable, proc>>
        ELSE /\ itable[s].lock = NIL
             /\ itable' = [itable EXCEPT ![s].lock = p, ![s].valid = TRUE, ![s].c = c]
             /\ PanicIf(c.type = "no_type" /\ ~itable[s].valid, "ilock: no type")
             /\ proc' = [proc EXCEPT ![p].todo = Tail(@)]
     /\ NoWrite /\ strayed' = strayed /\ Same

Iunlock(p) ==
  LET s == Arg(p)
  IN /\ At(p, "iunlock")
     /\ IF itable[s].lock # p \/ itable[s].ref < 1
        THEN panic' = "iunlock" /\ UNCHANGED <<itable, proc>>
        ELSE /\ itable' = iunlock(itable, s)
             /\ proc' = [proc EXCEPT ![p].todo = Tail(@)]
             /\ panic' = panic
     /\ NoWrite /\ strayed' = strayed /\ Same

LastRef(s) == itable[s].ref = 1 /\ itable[s].valid /\ itable[s].c.nlink = 0

(* Mutated form: the last link frees the inode, whoever has it open. *)
IputIgnoresRefs(p) ==
  LET s == Arg(p)
      free == itable[s].valid /\ itable[s].c.nlink = 0 /\ itable[s].lock = NIL
  IN /\ At(p, "iput")
     /\ itable' = IF free THEN [itable EXCEPT ![s].lock = p] ELSE unref(itable, s)
     /\ proc' = [proc EXCEPT ![p].todo =
                   Then(p, IF free THEN <<<<"ifree", s>>>> ELSE <<>>)]
     /\ NoWrite /\ UNCHANGED <<panic, strayed>> /\ Same

(* iput up to release(&itable.lock): it sleeps for the inode's lock with   *)
(* the spinlock held, which sched answers with a panic if it ever blocks.  *)
Iput(p) ==
  LET s == Arg(p)
  IN /\ At(p, "iput")
     /\ itable' = IF LastRef(s) THEN [itable EXCEPT ![s].lock = p]
                  ELSE unref(itable, s)
     /\ PanicIf(LastRef(s) /\ itable[s].lock # NIL, "sched locks")
     /\ proc' = [proc EXCEPT ![p].todo =
                   Then(p, IF LastRef(s) THEN <<<<"ifree", s>>>> ELSE <<>>)]
     /\ NoWrite /\ strayed' = strayed /\ Same

(* Mutated form: the entry stays valid after its inode is freed. *)
IputFreeKeepsValid(p) ==
  LET s == Arg(p)
  IN /\ At(p, "ifree")
     /\ WriteUnlock(p, s, iupdate([itrunc(IoOn(p, s)) EXCEPT !.c.type = "no_type"]))
     /\ proc' = [proc EXCEPT ![p].todo = Then(p, <<<<"unref", s>>>>)]
     /\ strayed' = strayed /\ Same

(* Truncate and free, without itable.lock. *)
IputFree(p) ==
  LET s == Arg(p)
      Free(io) == /\ Write(p, io)
                  /\ itable' = [InCore(io, s) EXCEPT ![s].valid = FALSE,
                                                     ![s].lock = NIL]
  IN /\ At(p, "ifree")
     /\ Free(iupdate([itrunc(IoOn(p, s)) EXCEPT !.c.type = "no_type"]))
     /\ proc' = [proc EXCEPT ![p].todo = Then(p, <<<<"unref", s>>>>)]
     /\ strayed' = strayed /\ Same

(* ip->ref--, under itable.lock again. *)
IputUnref(p) ==
  /\ At(p, "unref")
  /\ itable' = unref(itable, Arg(p))
  /\ proc' = [proc EXCEPT ![p].todo = Tail(@)]
  /\ NoWrite /\ UNCHANGED <<panic, strayed>> /\ Same
-----------------------------------------------------------------------------
(* namex: an absolute path starts at the root, another at the cwd.  A path *)
(* is [abs, elems]; every caller locks the inode namex returns, which is   *)
(* dp for nameiparent and ip for namei.                                    *)
NamexStart(p) ==
  LET path == Arg(p)
      parent == Head(proc[p].todo)[3]
      s == IF path.abs THEN Slot(ROOTINO) ELSE proc[p].cwd
      next == CASE path.elems # <<>> -> Then(p, <<ILOCK(s), <<"namex", parent>>>>)
                [] parent /\ path.elems = <<>> -> <<IPUT(s)>> \o Fail(p)
                [] OTHER -> Then(p, <<ILOCK(s)>>)
  IN /\ At(p, "path")
     /\ itable' = IF path.abs THEN iget(itable, ROOTINO)
                  ELSE [itable EXCEPT ![s].ref = @ + 1]
     /\ PanicIf(s = 0, "iget: no inodes")
     /\ proc' = [proc EXCEPT ![p].todo = next, ![p].path = path.elems,
                             ![p].cur = s,
                             ![p].ip = IF parent \/ path.elems # <<>> THEN @ ELSE s]
     /\ NoWrite /\ strayed' = strayed /\ Same

(* One turn of the loop of namex, with cur locked; it ends unlocked. *)
Namex(p) ==
  LET parent == Arg(p)
      s == proc[p].cur
      c == itable[s].c
      name == Head(proc[p].path)
      rest == Tail(proc[p].path)
      off == DirOffset(disk, c, name)
      inum == Unit(disk, c, off)[1]
      t == iunlock(itable, s)
  IN /\ At(p, "namex")
     /\ \/ /\ c.type # "T_DIR" \/ (~(parent /\ rest = <<>>) /\ off = -1)
           /\ proc' = [proc EXCEPT ![p].todo = <<IPUT(s)>> \o Fail(p)]
           /\ itable' = t /\ panic' = panic
        \/ /\ c.type = "T_DIR" /\ parent /\ rest = <<>>
           /\ proc' = [proc EXCEPT ![p].todo = Then(p, <<ILOCK(s)>>),
                                   ![p].dp = s, ![p].name = name]
           /\ itable' = t /\ panic' = panic
        \/ /\ c.type = "T_DIR" /\ ~(parent /\ rest = <<>>) /\ off # -1
           /\ itable' = iget(t, inum) /\ PanicNoSlot(inum)
           /\ LET next == IF rest = <<>> THEN <<>> ELSE <<<<"namex", parent>>>>
              IN proc' = [proc EXCEPT
                   ![p].todo = Then(p, <<IPUT(s), ILOCK(Slot(inum))>> \o next),
                   ![p].path = rest, ![p].cur = Slot(inum),
                   ![p].ip = IF parent \/ rest # <<>> THEN @ ELSE Slot(inum)]
     /\ NoWrite /\ strayed' = strayed /\ Same
-----------------------------------------------------------------------------
(* Mutated form: the file stays locked while its new name is entered. *)
LinkInodeKeepsLock(p) ==
  LET s == proc[p].ip
      Up(io) == Write(p, io) /\ itable' = InCore(io, s)
  IN /\ At(p, "link_inode")
     /\ itable[s].c.type # "T_DIR"
     /\ Up(iupdate([IoOn(p, s) EXCEPT !.c.nlink = @ + 1]))
     /\ proc' = [proc EXCEPT ![p].todo = Tail(@)]
     /\ strayed' = strayed /\ Same

(* sys_link: the link count goes up first. *)
LinkInode(p) ==
  LET s == proc[p].ip
      c == itable[s].c
  IN /\ At(p, "link_inode")
     /\ IF c.type = "T_DIR"
        THEN /\ itable' = iunlock(itable, s)
             /\ proc' = [proc EXCEPT ![p].todo = <<IPUT(s), END>>]
             /\ NoWrite /\ panic' = panic
        ELSE /\ WriteUnlock(p, s, iupdate([IoOn(p, s) EXCEPT !.c.nlink = @ + 1]))
             /\ proc' = [proc EXCEPT ![p].todo = Tail(@)]
     /\ strayed' = strayed /\ Same

(* The entry in the new directory, or the way to "bad". *)
LinkEntry(p) ==
  LET s == proc[p].dp
      off == DirOffset(disk, itable[s].c, proc[p].name)
      other == Unit(disk, itable[s].c, off)[1]
      Link(io) ==
        /\ WriteUnlock(p, s, io)
        /\ proc' = [proc EXCEPT ![p].todo =
                      <<IPUT(s)>> \o IF io.n = 1 THEN <<IPUT(proc[p].ip), END>>
                                     ELSE Fail(p)]
        /\ strayed' = (strayed \/ (io.n = 1 /\ io.c.nlink = 0))
  IN /\ At(p, "link_entry")
     /\ \/ /\ off # -1
           /\ itable' = iget(itable, other) /\ PanicNoSlot(other)
           /\ proc' = [proc EXCEPT ![p].todo =
                         <<IPUT(Slot(other)), IUNLOCK(s), IPUT(s)>> \o Fail(p)]
           /\ NoWrite /\ strayed' = strayed
        \/ /\ off = -1
           /\ Link(dirlink(IoOn(p, s), proc[p].name, itable[proc[p].ip].inum))
     /\ Same

(* ip->nlink-- of sys_unlink, and of sys_link at "bad". *)
DropLink(p) ==
  LET s == proc[p].ip
  IN /\ At(p, "unlink_inode") \/ At(p, "link_bad")
     /\ WriteUnlock(p, s, iupdate([IoOn(p, s) EXCEPT !.c.nlink = @ - 1]))
     /\ proc' = [proc EXCEPT ![p].todo = <<IPUT(s), END>>]
     /\ strayed' = strayed /\ Same

(* sys_unlink, with dp locked: find the entry. *)
UnlinkLookup(p) ==
  LET s == proc[p].dp
      off == DirOffset(disk, itable[s].c, proc[p].name)
      inum == Unit(disk, itable[s].c, off)[1]
  IN /\ At(p, "unlink_lookup")
     /\ \/ /\ proc[p].name \in {".", ".."} \/ off = -1
           /\ itable' = iunlock(itable, s) /\ panic' = panic
           /\ proc' = [proc EXCEPT ![p].todo = <<IPUT(s), END>>]
        \/ /\ proc[p].name \notin {".", ".."} /\ off # -1
           /\ itable' = iget(itable, inum) /\ PanicNoSlot(inum)
           /\ proc' = [proc EXCEPT
                ![p].todo = Then(p, <<ILOCK(Slot(inum)), Do("unlink_entry")>>),
                ![p].ip = Slot(inum)]
     /\ NoWrite /\ strayed' = strayed /\ Same

(* Mutated form: the directory keeps the link of the ".." that goes. *)
UnlinkEntryKeepsDotDot(p) ==
  LET s == proc[p].dp
      c == itable[proc[p].ip].c
      off == DirOffset(disk, itable[s].c, proc[p].name)
  IN /\ At(p, "unlink_entry")
     /\ c.type = "T_DIR" => isdirempty(disk, c)
     /\ WriteUnlock(p, s, writei(IoOn(p, s), off, 1, Zero, -1))
     /\ proc' = [proc EXCEPT ![p].todo = <<IPUT(s), Do("unlink_inode")>>]
     /\ strayed' = strayed /\ Same

(* sys_unlink, with dp and ip locked: clear the entry. *)
UnlinkEntry(p) ==
  LET s == proc[p].dp
      i == proc[p].ip
      c == itable[i].c
      off == DirOffset(disk, itable[s].c, proc[p].name)
      Clear(r) == IF c.type = "T_DIR" THEN iupdate([r EXCEPT !.c.nlink = @ - 1])
                  ELSE r
  IN /\ At(p, "unlink_entry")
     /\ \/ /\ c.nlink < 1 /\ panic' = "unlink: nlink < 1"
           /\ UNCHANGED <<disk, wrote, itable, proc>>
        \/ /\ c.nlink >= 1 /\ c.type = "T_DIR" /\ ~isdirempty(disk, c)
           /\ itable' = iunlock(itable, i)
           /\ proc' = [proc EXCEPT ![p].todo = <<IPUT(i), IUNLOCK(s), IPUT(s), END>>]
           /\ NoWrite /\ panic' = panic
        \/ /\ c.nlink >= 1 /\ (c.type = "T_DIR" => isdirempty(disk, c))
           /\ WriteUnlock(p, s, Clear(writei(IoOn(p, s), off, 1, Zero, -1)))
           /\ proc' = [proc EXCEPT ![p].todo = <<IPUT(s), Do("unlink_inode")>>]
     /\ strayed' = strayed /\ Same
-----------------------------------------------------------------------------
TypeMade(p) == CASE proc[p].call.op = "open" -> "T_FILE"
                 [] proc[p].call.op = "mkdir" -> "T_DIR"
                 [] OTHER -> "T_DEVICE"

(* create, with dp locked: the entry exists, or an inode is taken. *)
CreateLookup(p) ==
  LET s == proc[p].dp
      off == DirOffset(disk, itable[s].c, proc[p].name)
      inum == Unit(disk, itable[s].c, off)[1]
      free == {i \in Inums : disk.inode[i].type = "no_type"}
      i == Min(free)
  IN /\ At(p, "create")
     /\ \/ /\ off # -1
           /\ itable' = iunlock(iget(itable, inum), s) /\ PanicNoSlot(inum)
           /\ proc' = [proc EXCEPT
                ![p].todo = Then(p, <<IPUT(s), ILOCK(Slot(inum)), Do("exists")>>),
                ![p].ip = Slot(inum)]
           /\ NoWrite
        \/ /\ off = -1 /\ free = {}
           /\ itable' = iunlock(itable, s) /\ panic' = panic
           /\ proc' = [proc EXCEPT ![p].todo = <<IPUT(s)>> \o Fail(p)]
           /\ NoWrite
        \/ /\ off = -1 /\ free # {}
           /\ disk' = [disk EXCEPT !.inode[i] =
                         [FreeDinode EXCEPT !.type = TypeMade(p)]]
           /\ wrote' = [wrote EXCEPT ![p] = @ \cup {IBLOCK(i)}]
           /\ proc' = [proc EXCEPT ![p].todo = Then(p, <<<<"ialloc", i>>>>)]
           /\ UNCHANGED <<itable, panic>>
     /\ strayed' = strayed /\ Same

(* The iget that ends ialloc. *)
IallocGet(p) ==
  LET s == Slot(Arg(p))
  IN /\ At(p, "ialloc")
     /\ itable' = iget(itable, Arg(p)) /\ PanicNoSlot(Arg(p))
     /\ proc' = [proc EXCEPT ![p].todo = Then(p, <<ILOCK(s), Do("create_init")>>),
                             ![p].ip = s]
     /\ reused' = (reused \/ itable[s].ref > 0)
     /\ NoWrite
     /\ UNCHANGED <<durable, active, ftable, ofile, strayed, calls, menu, crashes>>

(* create finds the name: only open accepts that, and no directory. *)
CreateExists(p) ==
  LET s == proc[p].ip
  IN /\ At(p, "exists")
     /\ IF TypeMade(p) = "T_FILE" /\ itable[s].c.type \in {"T_FILE", "T_DEVICE"}
        THEN itable' = itable /\ proc' = [proc EXCEPT ![p].todo = Tail(@)]
        ELSE /\ itable' = iunlock(itable, s)
             /\ proc' = [proc EXCEPT ![p].todo = <<IPUT(s)>> \o Fail(p)]
     /\ NoWrite /\ UNCHANGED <<panic, strayed>> /\ Same

(* The new inode: link count, device and, for a directory, "." and "..". *)
CreateInit(p) ==
  LET s == proc[p].ip
      major == IF TypeMade(p) = "T_DEVICE" THEN proc[p].call.major ELSE 0
      DotDot(io) == IF io.n = 1 THEN dirlink(io, "..", itable[proc[p].dp].inum)
                    ELSE io
      Entries(io) == IF TypeMade(p) = "T_DIR" THEN DotDot(dirlink(io, ".", io.i))
                     ELSE [io EXCEPT !.n = 1]
      Made(io) ==
        /\ Write(p, io)
        /\ itable' = InCore(io, s)
        /\ proc' = [proc EXCEPT ![p].todo =
             Then(p, <<Do(IF io.n = 1 THEN "create_entry" ELSE "create_fail")>>)]
  IN /\ At(p, "create_init")
     /\ Made(Entries(iupdate([IoOn(p, s) EXCEPT !.c.nlink = 1, !.c.major = major])))
     /\ strayed' = strayed /\ Same

(* The entry in dp, and dp's link for the new "..". *)
CreateEntry(p) ==
  LET s == proc[p].dp
      Parent(r) == IF r.n = 1 /\ TypeMade(p) = "T_DIR"
                   THEN iupdate([r EXCEPT !.c.nlink = @ + 1]) ELSE r
      Enter(r) ==
        /\ Write(p, Parent(r))
        /\ itable' = IF r.n = 1 THEN iunlock(InCore(Parent(r), s), s)
                     ELSE InCore(Parent(r), s)
        /\ proc' = [proc EXCEPT ![p].todo =
             Then(p, <<IF r.n = 1 THEN IPUT(s) ELSE Do("create_fail")>>)]
        /\ strayed' = (strayed \/ (r.n = 1 /\ r.c.nlink = 0))
  IN /\ At(p, "create_entry")
     /\ Enter(dirlink(IoOn(p, s), proc[p].name, itable[proc[p].ip].inum))
     /\ Same

CreateFail(p) ==
  LET s == proc[p].ip
  IN /\ At(p, "create_fail")
     /\ WriteUnlock(p, s, iupdate([IoOn(p, s) EXCEPT !.c.nlink = 0]))
     /\ proc' = [proc EXCEPT ![p].todo =
                   <<IPUT(s), IUNLOCK(proc[p].dp), IPUT(proc[p].dp), END>>]
     /\ strayed' = strayed /\ Same

(* sys_mkdir and sys_mknod are done with the inode create returned. *)
Created(p) ==
  LET s == proc[p].ip
  IN /\ At(p, "created")
     /\ itable' = iunlock(itable, s)
     /\ proc' = [proc EXCEPT ![p].todo = <<IPUT(s), END>>]
     /\ NoWrite /\ UNCHANGED <<panic, strayed>> /\ Same

(* Mutated form: the directory left keeps its reference. *)
ChdirNoPut(p) ==
  LET s == proc[p].ip
  IN /\ At(p, "chdir")
     /\ itable' = iunlock(itable, s)
     /\ proc' = [proc EXCEPT ![p].todo = IF itable[s].c.type # "T_DIR"
                   THEN <<IPUT(s), END>> ELSE <<END, Do("set_cwd")>>]
     /\ NoWrite /\ UNCHANGED <<panic, strayed>> /\ Same

Chdir(p) ==
  LET s == proc[p].ip
  IN /\ At(p, "chdir")
     /\ itable' = iunlock(itable, s)
     /\ proc' = [proc EXCEPT ![p].todo =
                   IF itable[s].c.type # "T_DIR" THEN <<IPUT(s), END>>
                   ELSE <<IPUT(proc[p].cwd), END, Do("set_cwd")>>]
     /\ NoWrite /\ UNCHANGED <<panic, strayed>> /\ Same

SetCwd(p) ==
  /\ At(p, "set_cwd")
  /\ proc' = [proc EXCEPT ![p] = Idle(@.ip)]
  /\ NoWrite /\ UNCHANGED <<itable, panic, strayed>> /\ Same
-----------------------------------------------------------------------------
FreeFiles == {f \in Files : ftable[f].ref = 0}
FreeFds(p) == {k \in 1 .. NOFILE : ofile[p][k] = 0}

(* sys_open, with ip locked: no directory for writing, no unknown device,  *)
(* then filealloc, fdalloc and O_TRUNC.  When fdalloc fails, fileclose     *)
(* only gives the FD_NONE file back.                                       *)
OpenFile(p) ==
  LET s == proc[p].ip
      c == itable[s].c
      call == proc[p].call
      refused == \/ ~call.create /\ c.type = "T_DIR" /\ call.mode # "r"
                 \/ c.type = "T_DEVICE" /\ c.major >= NDEV
                 \/ FreeFiles = {} \/ FreeFds(p) = {}
      Trunc(io) == IF call.trunc /\ c.type = "T_FILE" THEN itrunc(io) ELSE io
      f == Min(FreeFiles)
  IN /\ At(p, "open")
     /\ IF refused
        THEN /\ itable' = iunlock(itable, s)
             /\ proc' = [proc EXCEPT ![p].todo = <<IPUT(s), END>>]
             /\ NoWrite /\ UNCHANGED <<ftable, ofile, panic>>
        ELSE /\ WriteUnlock(p, s, Trunc(IoOn(p, s)))
             /\ ftable' = [ftable EXCEPT ![f] =
                  [type |-> IF c.type = "T_DEVICE" THEN "FD_DEVICE" ELSE "FD_INODE",
                   ref |-> 1, ip |-> s, off |-> 0, mode |-> call.mode]]
             /\ ofile' = [ofile EXCEPT ![p][Min(FreeFds(p))] = f]
             /\ proc' = [proc EXCEPT ![p].todo = <<END>>]
     /\ UNCHANGED <<durable, active, strayed, reused, calls, menu, crashes>>

(* The tasks of a call that takes a path. *)
Script(c) ==
  CASE c.op = "open" /\ ~c.create ->
         <<BEGIN, <<"path", c.path, FALSE>>, Do("open")>>
    [] c.op = "open" /\ c.create ->
         <<BEGIN, <<"path", c.path, TRUE>>, Do("create"), Do("open")>>
    [] c.op \in {"mkdir", "mknod"} ->
         <<BEGIN, <<"path", c.path, TRUE>>, Do("create"), Do("created")>>
    [] c.op = "unlink" -> <<BEGIN, <<"path", c.path, TRUE>>, Do("unlink_lookup")>>
    [] c.op = "link" -> <<BEGIN, <<"path", c.path, FALSE>>, Do("link_inode"),
                          <<"path", c.new, TRUE>>, Do("link_entry")>>
    [] c.op = "chdir" -> <<BEGIN, <<"path", c.path, FALSE>>, Do("chdir")>>

Ready(p) == panic = "" /\ proc[p].todo = <<>> /\ calls < MaxCalls
Enter(p, c, tasks) ==
  /\ calls' = calls + 1
  /\ proc' = [proc EXCEPT ![p] = [Idle(@.cwd) EXCEPT !.call = c, !.todo = tasks]]

SysPath(p, c) ==
  /\ Ready(p) /\ Enter(p, c, Script(c))
  /\ UNCHANGED <<disk, durable, active, wrote, itable, ftable, ofile, panic,
                 strayed, reused, menu, crashes>>

(* sys_close and fileclose. *)
SysClose(p, k) ==
  LET f == ofile[p][k]
      last == ftable[f].ref = 1
  IN /\ Ready(p) /\ f # 0
     /\ ofile' = [ofile EXCEPT ![p][k] = 0]
     /\ ftable' = [ftable EXCEPT ![f] = IF last THEN FD_NONE
                                        ELSE [@ EXCEPT !.ref = @ - 1]]
     /\ Enter(p, [op |-> "close"],
              IF last THEN <<BEGIN, IPUT(ftable[f].ip), END>> ELSE <<>>)
     /\ UNCHANGED <<disk, durable, active, wrote, itable, panic, strayed, reused,
                    menu, crashes>>

(* sys_read, fileread. *)
SysRead(p, k, n) ==
  LET f == ofile[p][k]
  IN /\ Ready(p) /\ f # 0
     /\ ftable[f].type = "FD_INODE" /\ ftable[f].mode # "w"
     /\ Enter(p, [op |-> "read", f |-> f, n |-> n],
              <<ILOCK(ftable[f].ip), Do("read")>>)
     /\ UNCHANGED <<disk, durable, active, wrote, itable, ftable, ofile, panic,
                    strayed, reused, menu, crashes>>

(* ok is FALSE when copyout fails: the offset stays. *)
Fileread(p, ok) ==
  LET f == proc[p].call.f
      s == ftable[f].ip
      Read(io) == /\ WriteUnlock(p, s, io)
                  /\ ftable' = [ftable EXCEPT ![f].off = IF ok THEN @ + io.n ELSE @]
  IN /\ At(p, "read")
     /\ Read(readi(IoOn(p, s), ftable[f].off, proc[p].call.n))
     /\ Done(p)
     /\ UNCHANGED <<durable, active, ofile, strayed, reused, calls, menu, crashes>>

(* sys_write, filewrite: one transaction for each max units. *)
SysWrite(p, k, n) ==
  LET f == ofile[p][k]
  IN /\ Ready(p) /\ f # 0
     /\ ftable[f].type = "FD_INODE" /\ ftable[f].mode # "r"
     /\ calls' = calls + 1
     /\ proc' = [proc EXCEPT ![p] =
          [Idle(@.cwd) EXCEPT !.call = [op |-> "write", f |-> f], !.n = n,
                              !.todo = <<BEGIN, ILOCK(ftable[f].ip), Do("write")>>]]
     /\ UNCHANGED <<disk, durable, active, wrote, itable, ftable, ofile, panic,
                    strayed, reused, menu, crashes>>

(* Mutated form: the whole write is one transaction. *)
WriteMaxUnbounded == MAXFILE * BSIZE

WriteMax == ((MAXOPBLOCKS - 1 - 1 - 2) \div 2) * BSIZE

(* A turn of filewrite's loop; bad is a block whose copyin fails, or -1. *)
Filewrite(p, bad) ==
  LET f == proc[p].call.f
      s == ftable[f].ip
      n1 == Min({proc[p].n, WriteMax})
      Wrote(io) ==
        /\ WriteUnlock(p, s, io)
        /\ ftable' = [ftable EXCEPT ![f].off = IF io.n > 0 THEN @ + io.n ELSE @]
        /\ proc' = [proc EXCEPT ![p].n = @ - n1,
             ![p].todo = IF io.n = n1 /\ proc[p].n > n1
                         THEN <<END, BEGIN, ILOCK(s), Do("write")>> ELSE <<END>>]
  IN /\ At(p, "write")
     /\ Wrote(writei(IoOn(p, s), ftable[f].off, n1, <<itable[s].inum>>, bad))
     /\ UNCHANGED <<durable, active, ofile, strayed, reused, calls, menu, crashes>>

(* Power is lost; recovery and iinit leave what was durable. *)
Crash ==
  /\ crashes < MaxCrash
  /\ crashes' = crashes + 1
  /\ disk' = durable /\ durable' = durable
  /\ active' = {} /\ wrote' = [p \in Procs |-> {}]
  /\ itable' = BootTable
  /\ ftable' = [f \in Files |-> FD_NONE]
  /\ ofile' = [p \in Procs |-> [k \in 1 .. NOFILE |-> 0]]
  /\ proc' = [p \in Procs |-> Idle(1)]
  /\ panic' = "" /\ UNCHANGED <<strayed, reused, menu, calls>>

Step(p) ==
  \/ BeginOp(p) \/ EndOp(p) \/ Ilock(p) \/ Iunlock(p)
  \/ Iput(p) \/ IputFree(p) \/ IputUnref(p)
  \/ NamexStart(p) \/ Namex(p)
  \/ LinkInode(p) \/ LinkEntry(p) \/ DropLink(p)
  \/ UnlinkLookup(p) \/ UnlinkEntry(p)
  \/ CreateLookup(p) \/ IallocGet(p) \/ CreateExists(p) \/ CreateInit(p)
  \/ CreateEntry(p) \/ CreateFail(p) \/ Created(p)
  \/ Chdir(p) \/ SetCwd(p) \/ OpenFile(p)
  \/ \E ok \in BOOLEAN : Fileread(p, ok)
  \/ \E bad \in {-1, 1} : Filewrite(p, bad)

SysCall(p) ==
  \/ \E c \in menu.calls : SysPath(p, c)
  \/ \E k \in 1 .. NOFILE :
       \/ SysClose(p, k)
       \/ \E n \in menu.amounts : SysRead(p, k, n) \/ SysWrite(p, k, n)

(* The bound on calls is reached. *)
Finished ==
  /\ \A p \in Procs : proc[p].todo = <<>>
  /\ calls = MaxCalls
  /\ UNCHANGED vars

Next == (\E p \in Procs : Step(p) \/ SysCall(p)) \/ Crash \/ Finished
-----------------------------------------------------------------------------
Allocated(d) == {i \in Inums : d.inode[i].type # "no_type"}
Dirs(d) == {i \in Inums : d.inode[i].type = "T_DIR"}

(* Addresses an inode stores, counted with repetitions. *)
AddrCount(d, c) ==
  LET ind == c.addrs[NDIRECT]
  IN Cardinality({k \in 0 .. NDIRECT : c.addrs[k] # 0})
     + IF ind = 0 THEN 0
       ELSE Cardinality({k \in 0 .. NINDIRECT - 1 : d.data[ind][k] # Zero})

(* The bitmap marks the blocks of the allocated inodes; none has two owners. *)
BlocksOnce(d) ==
  LET Count(i, n) == n + AddrCount(d, d.inode[i])
  IN /\ d.used = UNION {BlocksOf(d, d.inode[i]) : i \in Allocated(d)}
     /\ Cardinality(d.used) = FoldSet(Count, 0, Allocated(d))

(* Entries of directories that name inode i.  "." is not counted, nor the  *)
(* root's own "..", nor the ".." of a directory that was removed.          *)
EntriesOf(d, i) ==
  {x \in Dirs(d) \X (0 .. MAXFILE * BSIZE - 1) :
     LET c == d.inode[x[1]]
         u == Unit(d, c, x[2])
     IN /\ x[2] < c.size
        /\ u # Zero
        /\ u[1] = i /\ u[2] # "."
        /\ u[2] = ".." => x[1] # ROOTINO /\ c.nlink > 0}

(* nlink is the number of entries; entries name allocated inodes only. *)
LinksCounted(d) ==
  \A i \in Inums :
    LET n == Cardinality(EntriesOf(d, i))
    IN IF i \in Allocated(d)
       THEN d.inode[i].nlink = n + IF i = ROOTINO THEN 1 ELSE 0
       ELSE n = 0

(* What a crash leaves, whatever calls were in flight: the bitmap marks    *)
(* exactly the blocks of the allocated inodes, no block has two owners     *)
(* (balloc, bfree, bmap, itrunc, writei's last iupdate), and nlink counts  *)
(* the entries that name an inode, unless create or link put an entry into *)
(* a directory already removed.                                            *)
DurableConsistent ==
  BlocksOnce(durable) /\ (~strayed => LinksCounted(durable))

(* Each unit below the size of a file is one written to that file, in a    *)
(* mapped block: a read never finds a hole, never allocates outside a      *)
(* transaction and never shows another file's data.                        *)
FilesHoldTheirData ==
  \A i \in Allocated(disk) : \A k \in 0 .. disk.inode[i].size - 1 :
    LET c == disk.inode[i]
    IN /\ Mapped(disk, c, k \div BSIZE) # 0
       /\ c.type = "T_FILE" => Unit(disk, c, k) = <<i>>

(* An inode has one entry in itable and a valid entry is the inode on the  *)
(* disk: iput may free the inode and another process allocate it again     *)
(* without anybody using the old contents.                                 *)
InCoreIsCurrent ==
  \A s \in Slots : itable[s].ref > 0 =>
    /\ \A t \in Slots \ {s} : itable[t].ref > 0 => itable[t].inum # itable[s].inum
    /\ itable[s].valid => itable[s].c = disk.inode[itable[s].inum]

(* No operation writes more blocks than begin_op reserves for it, and "all *)
(* calls to iput() must be inside a transaction in case it has to free the *)
(* inode".                                                                 *)
OpFitsLog ==
  \A p \in Procs : /\ Cardinality(wrote[p]) <= MAXOPBLOCKS
                   /\ At(p, "iput") => p \in active

(* No panic: no block is freed twice, no free or unreferenced inode is     *)
(* locked, only the holder of an inode's lock releases it, iput never      *)
(* blocks with itable.lock held, nothing is logged outside a transaction.  *)
NoPanic == panic = ""

AllIdle == \A p \in Procs : proc[p].todo = <<>>

(* "If that was the last reference and the inode has no links to it, free  *)
(* the inode": between calls an inode without links is allocated only      *)
(* while somebody holds it, if no crash came between unlink and the last   *)
(* close.                                                                  *)
UnlinkedIsFreed ==
  AllIdle /\ crashes = 0 => \A i \in Allocated(disk) :
    disk.inode[i].nlink = 0 =>
      \E s \in Slots : itable[s].ref > 0 /\ itable[s].inum = i

(* Between calls an entry of itable is referenced by the current           *)
(* directories and open files and by nothing else, error paths included,   *)
(* and unlinked inodes are freed but for the one case iput misses: its     *)
(* inode is allocated again before it drops its reference.                 *)
NothingLeaks ==
  /\ AllIdle => \A s \in Slots :
       itable[s].ref = Cardinality({p \in Procs : proc[p].cwd = s})
                       + Cardinality({f \in Files : ftable[f].ref > 0 /\ ftable[f].ip = s})
  /\ ~reused => UnlinkedIsFreed

(* While a call is in progress some process can go on: nobody waits for an *)
(* inode's lock, or for the log's admission, that is held by one who waits *)
(* in turn.                                                                *)
SomebodyMoves ==
  panic = "" /\ ~AllIdle => \E p \in Procs :
    /\ proc[p].todo # <<>>
    /\ At(p, "ilock") => itable[Arg(p)].lock = NIL
    /\ At(p, "begin_op") => Cardinality(active) < MaxActive
=============================================================================
