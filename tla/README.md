# xv6-malloclab in TLA+

The repository is the xv6 teaching kernel for RISC-V with a memory allocator of
its own, *ummalloc*, for user programs. This directory holds TLA+ models of the
allocator and of the kernel wherever concurrency, crashes, failing allocation or
long histories make mistakes hard to find by testing, the TLC configurations that
check them on small instances, and TLAPS proofs about the allocator, the log on
the buffer cache, the process table and pipes.

## The system and its parts

| Part | Source | Model |
| --- | --- | --- |
| ummalloc allocator | `memory/*.h`, `user/ummalloc.c` | `Ummalloc`; proofs in `UmmallocProofs`, `UmmallocBlocks` |
| write-ahead log | `kernel/log.c` | `Log`, promise in `AtomicDisk`; proofs in `LogProofs`, `LogContents`, `LogTheorems` |
| buffer cache | `kernel/bio.c` | `Bio`; proofs in `CacheProofs` |
| disk driver | `kernel/virtio_disk.c` | `Virtio` |
| blocks and inodes | `kernel/fs.c` | `Inode`, `Fs` |
| directories, paths, file calls, file table | `kernel/fs.c`, `sysfile.c`, `file.c` | `Fs` |
| processes, scheduler | `kernel/proc.c`, part of `trap.c`, `user/init.c` | `Proc`; proofs in `ProcProofs` |
| spin locks and interrupts | `kernel/spinlock.c`, `sched` and `scheduler` of `proc.c`, `kerneltrap` | `Spinlock` |
| pages, address spaces, exec | `kernel/kalloc.c`, `vm.c`, `exec.c`, parts of `proc.c` and `pipe.c` | `Memory` |
| pipes | `kernel/pipe.c`, `fileclose` of `file.c` | `Pipe`; proofs in `PipeProofs` |
| console input | `kernel/console.c` | `Console`, promise in `Terminal` |
| console output | `kernel/uart.c`, `consolewrite` | `Uart` |
| clock and the `sleep` call | `clockintr` of `trap.c`, `sys_sleep` | `Ticks` |
| K&R allocator, library routines, printf, boot and trap assembly, user programs, RAM disk | | not modelled |

How they interact: a user program calls `mm_malloc`; the allocator gets pages
by `sbrk`, whose failure half way is a subject of `Memory`. A file system call runs
between `begin_op` and `end_op`, locks inodes, reads blocks through the buffer
cache and changes them through `log_write`; the last operation to leave commits
all of them. Processes meet in `fork`, `exit`, `wait` and `kill`, and wait for each
other and for devices with `sleep` and `wakeup` under a lock.

The layers are composed by their promises. `Log` runs on `Bio` and implements
`AtomicDisk`; `Fs` uses a log that behaves as `AtomicDisk` does (its `durable` and
`active`). `Console` implements `Terminal`. `Bio` takes a disk transfer as one step,
which `Virtio` justifies: `virtio_disk_rw` returns when the transfer is done and
not before. `Proc` and the drivers use locks as guards, which `Spinlock` justifies.

`PROJECT.json` lists every component with what is left out and why, the hazards
found in reading the code, and the source lines of every definition. Operators
named as a *mutant* or *mutated form* are plausible mistakes, kept next to the
definition they would replace, to show that the properties can fail.

## The runs

| Run | Module, configuration | Question |
| --- | --- | --- |
| `heap` | `MCUmmalloc`, `MCUmmalloc.cfg` | is the heap in order after any sequence of calls |
| `log` | `MCLog`, `MCLog.cfg` | are transactions atomic on a cache that recycles buffers, with a crash |
| `files` | `MCFs`, `MCFs.cfg` | is the file system consistent under concurrent calls and a crash |
| `processes` | `MCProc`, `MCProc.cfg` | do fork, exit, wait and kill keep stacks, parents and wakeups right |
| `processes_live` | `MCProc`, `MCProcLive.cfg` | are orphans reaped |
| `kernel` | `MCKernel`, `MCKernel.cfg` | pages, pipes and spin locks: who owns what, and who sleeps |
| `progress` | `MCProgress`, `MCProgress.cfg` | the drivers, the clock and the log under fairness: is everybody woken, for the right reason |
| `shift_by_64`, `tiny_chunk_too_small` | `MCUmmalloc` | **violated**: two faults of the allocator |
| `pipe_lost_wakeup` | `MCPipe` | **violated**: a killed writer wakes no reader |
| `iput_leak`, `dotdot_panic` | `MCFs` | **violated**: two faults of the inode layer |

`MCKernel` and `MCProgress` put several modules that share no variable into one
state space: the initial state picks a part, and a behaviour takes steps of that
part only. So the number of states is the sum of the parts', a property of one
part is checked on all behaviours of that part, and TLC's fairness conditions
of the other parts hold because nothing there is ever asked for.

## The allocator: `Ummalloc`

State: `heap` is the allocator's whole state (packs by the address of their
header, the 64 lists and the bitmap, `base`, the fast pages, the break, the
pointer returned last); `blocks` is what the client holds and `freed` how many
blocks it has let go of. Every C helper is an operator from heap to heap, with
the branches and the order of the code (`FreeChunk`, `SplitAllocate`,
`TryMergePrev`, `MallocBrk`, `NextAllocate`, `FastAllocate`, ...). The actions
are the entry points: `MmInit`, `Malloc`, `Free`, `Realloc`; `UseBlock` is the
client filling a block it owns. A doubly linked list is the sequence of its
nodes. `sbrk` fails at `HeapLimit` and, with `MayFail`, whenever it likes. The
shift by 64 in `next_free`, undefined in C, is a choice between the two masks
that machines produce. `heap.stop` says that the process has faulted or that a
header was overwritten; nothing is said of the heap after that.

* `heap` has two kinds of behaviour. One takes every sequence of fast, tiny,
  middle and huge requests, frees and reallocs over at most five pages, with
  `sbrk` failing: tags, lists, the single free chunk at the top, disjoint blocks
  of the right size and alignment, the fast pages, no assertion. The other is a
  script of sixteen requests, each leaving the largest remainder of its page
  count, which brings the free chunk close to the last slot (`SlotInRange`).
* `shift_by_64` is **violated**: a request of slot 63 may take a chunk that is
  too small. `tiny_chunk_too_small` is **violated**: 504 bytes serve a request
  that needs 512.

Bounds: the sizes have one value per allocation path and the values where a slot
or a split changes (504 + 8 = 512 is the end of the tiny slots); six packs and
five pages let every path follow every other, including exhaustion. `Word` is
2^24 and not 2^32 because TLC's integers have 32 bits; only the place of the
wrap differs, and the runs keep to sizes below it: a size near the end of `uint`
wraps to a small one in `mm_malloc`, which the code leaves to its callers.
`Cells` is 2 so that pages fill and move to `fast_full` within a few calls; that
all 128 cells of a real page fit its pack and do not meet is the lemma
`CellsFit`. `ASSUME` excludes requests above 64 KiB, which the code declares
unsupported. `mm_free` has an empty body in this version, although `Readme.md`
promises that freed memory can be allocated again; the model follows the code.
Also an observation and no run: `malloc_brk` moves `base` before it tries `sbrk`
and does not move it back when `sbrk` fails, so the next growth starts beyond
the break; `Base` in the proofs has this case. Likewise `fast_bin_reserve` uses
the answer of `malloc_huge` unchecked: a small request at the memory limit writes
through NULL, which the model has as a fault (`heap.stop`) and no property
forbids. `docs/detail.md:33` counts 127 cells to a fast page; the code, and
`CellsFit`, have 128. Deadlock is not checked: the client may stop.

### What is proved

`UmmallocProofs` proves, for all request sizes, breaks, limits, cell counts and
failures of `sbrk` that satisfy `UmmallocAssumption`, `TypeCorrect`,
`BoundaryTagsTrue`, `FreeListsRight`, `OnlyTopIsFree`, `SlotsInRange` and
`AssertionsHold`. None of these properties is inductive alone: a boundary tag
stays true in a merge only if the chunk merged is the one on the list, and the
list stays right only if the tags are. The inductive invariant `IInv` says that
the heap is `Typed` and, while the process runs, `Lively`: the packs form a
chain to the tail, at most the chunk before the tail is free and it is alone on
the lists with its bit (`Attached`), its size is below 64 KiB, and `base` is at
the break or, after a failed `sbrk`, beyond it (`Base`). The argument follows
the code: a call takes the last chunk off its list, allocates or splits it, or
grows the heap and merges, and puts the heap in order again; each helper has a
lemma. The bound of
64 KiB is the interesting part: a page remainder below 4096 bytes is merged only
with a chunk that was too small for the request, so the sum never passes the
request's own page count.

`UmmallocBlocks` proves what the client relies on: `NewBlocksFresh` (`mm_malloc`
never answers with a block that is held), `FastPagesRight` (the books of the fast
pages), `RoomForLarge` (a need above 512 bytes gets its room) and
`BlocksNeverMeet` (pointers aligned, inside the heap, and byte ranges that do not
meet). The first three need nothing beyond `UmmallocAssumption`. The last has the
hypothesis `NoWrap`, that no request is within 15 bytes of what a `uint` holds,
since `mm_malloc`'s sum wraps for those and the block would be shorter than asked
for. That ranges do not meet is not inductive: it says nothing of the chunks that
nobody holds, and the next call serves those. `BInv` does: every block is
either a chunk in use, of the size its need requires (short by 8 bytes at most
when `tiny_allocate` served it), or a cell that is not free in a fast page (`Whole`,
`InCell`); no two blocks have one pointer; every fast page is a chunk in use,
long enough for its cells, with the right count, and in slot 1 exactly while it has a
free cell (`PageInv`). Each path of `mm_malloc` keeps `BInv` because the chunk it
serves was free, hence no block's and no page's, and the others keep their sizes
(`Cut`, `Grants`). That the ranges do not meet then follows from `IInv`: chunks tile
the heap, and the cells of a page lie inside it, 32 bytes apart.

## The buffer cache and the log: `Bio`, `Log`, `AtomicDisk`

`Bio`: `buf` are the buffers, `lru` the list, `disk` the device, and each process
is a record of where it is, the buffers it has and the one it is about to drop.
A critical section under `bcache.lock` is one step; taking a buffer's sleep
lock, the transfer from disk and the two halves of `brelse` are steps of their
own. A sleep lock is the owner field alone: the short spin lock inside it
protects two assignments that no other code looks at.

`Log` extends it with `lh`, `outstanding`, `committing` and the loop index of
`write_log` and `install_trans`; each `bread`, copy with `bwrite`, and `brelse` of
those loops is a step, so a crash may come between any two disk writes. A write
of one block is atomic, as the code assumes. `Crash` keeps the disk only; the
next boot recovers before any system call. Readers use `bread` without a
transaction, as `readi` for `read` does. File system contents are version
numbers; the header block holds the list of logged blocks.

`AtomicDisk` is the promise: writes become durable together, only when no
operation is in progress, and a crash returns to the last such point. `Log`
implements it (`AtomicTransactions`) with `durable` = what recovery would
produce from the disk and `current` = what `bread` would show.

* `log`: two processes, three operations of one block, any number of reads, a
  cache smaller than the disk, one crash. The refinement; one buffer per block
  with exactly one owner and the right reference count (`BufferCache`); nothing
  left to install while the log is quiet; no panic of `log_write`, `bwrite` or
  `brelse` (`LogFits`).
* `progress`, part `log`: operations of two blocks, two crashes, of which the
  second may interrupt recovery. The refinement again; sleepers in `begin_op` are
  woken, commits and recovery end (three conjuncts of `SleepersAnswered`).

Bounds: `MAXOPBLOCKS`, `LOGSIZE` and `NBUF` are scaled down together; the log admits
two operations at once in `log` and one in `progress`, so that admission and
waiting both happen. Two blocks suffice for a transaction to be torn. The log on
disk is assumed to have a header and LOGSIZE blocks (`mkfs`, which decides it, is
not in the repository). Processes are interchangeable, hence the symmetry of
`log`; `progress` uses none. There are no plain readers in `progress`: a sleep lock
is not fair, and readers that come back for ever may keep the committer from a
buffer for ever. Deadlock is checked in `log`.

Two limits of the code concern the size of the log. `log_write` looks for a
full log before it looks for absorption, so an operation that has used up its
`MAXOPBLOCKS` and writes one of its blocks again panics in a full log. In `log` an
operation makes one call and cannot meet this, in `progress` two of two; with more
calls than `MAXOPBLOCKS` allows the panic is reachable, and the hypothesis
`Budget` of the theorem below says what must be left. And `param.h` makes NBUF equal
to LOGSIZE: a full log pins every buffer, and the next `bread` of another block finds
none and panics. The runs have buffers to spare (`NBUF` 4 for a log of 2), so they
do not show this; `LogFits` makes no claim about `bget`, and for good reason.
Nothing in the repository says that it cannot happen, so it is an observation here
and not a run.

### What is proved

For every number of processes, readers, buffers, home blocks, log blocks,
operations and crashes that satisfies `BioAssumption` and `LogAssumption`
(`LogTheorems`):

* `CacheSafe`: `BufferCache`, an invariant.
* `QuietIsDurable`: `DurableWhenQuiet`, an invariant.
* `LogIsAtomic`: `AtomicTransactions`, that is, `Log` implements `AtomicDisk`.
* `LogNeverFull`: `LogFits`, under `Budget`.

`Budget` is about the operations, not about the log's algorithm: before each call
of `log_write` an operation has logged fewer blocks than `MAXOPBLOCKS`, and what
it has left covers what the log on disk is short of LOGSIZE blocks and a header.
With a header and LOGSIZE blocks this says that an operation makes at most
`MAXOPBLOCKS` calls, or touches fewer blocks than that; with a log one block
shorter it asks for one block more to spare. `filewrite` cuts its writes to keep to
it, and `OpFitsLog` checks the blocks of each call. The proof adds an invariant of its
own (`Funded`): the blocks in the log and the reserve of the operations in progress,
`MAXOPBLOCKS` for each less what it has logged, fit LOGSIZE together. `begin_op`'s
test establishes this for the operation it admits, `log_write` takes a block from
its own reserve or absorbs, and `end_op` gives a reserve back. Whoever calls
`log_write` has some of its reserve left, so the log has room.

`BufferCache` is not inductive: that a count is exact when `install_trans` unpins
depends on the log's own loop index, on there being one committer, and on the
block in each of its hands. `IInv` (`CacheProofs`) is `Cache` and `Control`.
`Cache`: every thread has the number of buffers its place in the code says, the
blocks of the log stay in the cache (`Pins`), the three parts of `BufferCache`.
`Control`: one thread at a time works on the log and only while no operation is
in progress, `outstanding` counts the threads between `begin_op` and `end_op`
(`Turns`), the loop index is in range where it is used (`Positions`), the buffers
in hand are the blocks of this turn of the loop (`Targets`), and `lh` and the header
block, on disk and cached, are lists of different blocks. `CacheProofs` has what
`bget`, `acquiresleep`, the transfer and `brelse` do to `Cache` whoever calls
them; `LogProofs` has one lemma per step of `log.c` and ends with the step
theorem for `IInv`.

`LogContents` adds what the disk contains (`CInv`): a buffer that the log does not
pin is clean, and the thread that commits or recovers has saved to the log, or
installed from it, the blocks its place and the loop index say (`Phase`). For each
step it proves that `CInv` is kept and what the step is in `AtomicDisk`: the write
of a header with blocks is the commit, `log_write` the write, and everything else
between `begin_op` and `end_op` invisible, recycling of buffers included. The
refinement of a crash needs no case of its own: `Durable` is a function of the
disk, and at every step `CInv` says which of the two copies of a block it reads.

The lemmas about the cache take four facts about finite sets and sequences as
one conjunct (`Elementary`), which `LogTheorems` proves from the library; this
keeps the library's theorems away from the leaves that do not need them.

## The file system: `Inode`, `Fs`

`Inode` has the functions on one locked inode as operators on a record of the
disk, the in-core inode and the blocks written: `balloc`, `bfree`, `bmap` with the
indirect block, `itrunc`, `readi`, `writei`, `dirlookup`, `dirlink`. Allocation
fails when the disk is full, also between the indirect block and the data block.
A block holds `BSIZE` units: bytes of a file, each the name of the file it was
written to, or directory entries.

`Fs` has the rest: `itable` with `iget`, `ilock`, `iput` (three steps: its test, the
freeing, the last `ref--`, as the code gives up `itable.lock` in between), `namex`
element by element, `create`, `link`, `unlink`, `open`, `chdir`, `mkdir`, `mknod`, `read`,
`write`, `close`, and the file table. A process has the list of tasks of its call
that are still to do. What happens with an inode locked is one step; taking a
lock is a step. `filewrite` is one step per transaction.

* `files`: two processes in four scenarios: a file that both have open while it
  is truncated and unlinked, names in the root, a directory with a file in it,
  current directories. Three or four calls, a crash anywhere. `DurableConsistent`:
  what a crash leaves is a file system, with every block owned once and every link
  counted. `FilesHoldTheirData`, `InCoreIsCurrent`, `OpFitsLog` (no transaction
  writes more blocks than `begin_op` reserves), `NoPanic`, `NothingLeaks`,
  `SomebodyMoves` (no deadlock of inode locks and log admission).
* `iput_leak` is **violated**: between the freeing and the `ref--` of `iput` another
  process may allocate the same inode, unlink it and let it go; it is never
  freed. `NothingLeaks` allows this case (`reused`) and no other.
* `dotdot_panic` is **violated**: a lookup of `..` in a removed directory whose
  parent is freed, too, panics in `ilock`.

Bounds: three inodes and seven blocks, so that both run out; `BSIZE` 2 and two
direct addresses, so that a write of three blocks reaches the indirect block;
three slots in `itable`, the least with which these calls do not run out. With
fewer the code panics (`iget: no inodes`), as it does with more processes than
NINODE allows for. `MaxActive` is the admission of `begin_op`, which `Log` has in
detail. The scenarios are separate to keep the calls of each that interact.

Limits of the code that `files` makes room for: `create` and `link` do not look at
the `nlink` of the directory they add to, so an entry put into a directory
removed meanwhile is lost and its inode is not freed (`strayed`); and a file that
is unlinked while open stays allocated after a crash, since recovery does not
look for such inodes (`crashes = 0` in `UnlinkedIsFreed`).

## Processes: `Proc`

State: the table (`state`, `pid`, `parent`, `killed`), `wait_lock`, which `p->lock`
is held across a switch, which processes' kernel stacks are in use by a
processor, the position of each kernel thread, and init's variable. A stretch of
code under `p->lock` is one step, except from a change of state in `exit`, `sleep`
and `yield` up to the switch, where the lock stays held. `usertrap`'s looks at
`killed`, preemption at any point without a spin lock, and init's loop are in the
model. A pid is told apart from the pids in use only, so a slot's number stands
for `nextpid`. `fork` may fail for want of memory or of a slot whoever calls it. When it
fails for init, `init.c` exits, and `exit` panics (`InitExits`): the thread of init loops for
ever with its processor and everybody else goes on, as `panic` stops no other
processor. So `panic("init exiting")` is reachable, and no property denies it. A kill between
`wait`'s look at `killed` and its sleep is in the model, too: the victim then
sleeps until a child exits, so no property says that a killed process is awake.

* `processes`: four slots, two processors: no stack is reused while in use
  (`StackInUse`), every parent is alive, init alone has none, and init never looks for a
  child in `wait` without having one, so that its loop cannot spin (`LiveParent`), no
  wakeup of `wait` is lost (`NoMissedZombie`), and a kill that comes while its
  victim exits does not reach the next process in that slot (`BornAlive`).
* `processes_live`: init reaps its zombies unless it panics or lower slots keep it
  busy for ever. That starvation is real: `wait` scans from slot 0 each time.

Bounds: four slots are init, its shell, a child and a grandchild, the smallest
family in which an orphan is handed on while its parent is waited for. The
liveness run has three slots. `KillPids` is the pid of the shell's slot; `kill(0)`,
which is not in the run, finds an unused slot, whose pid is 0, and sets a flag
there that the next process to use the slot is born with.

`ProcProofs` proves the four invariants of `processes` for a table of any size and
any number of processors: `StackSafe`, `NoWakeupLost` and `ParentsAlive` without a
further hypothesis, `BornUnkilled` if nobody calls `kill(0)`. `IInv` says: `p->lock` is held across a switch
exactly while the thread is on its way out (`Stacks`), the state of a process
and the place of its thread agree (`Threads`), a child being forked is `USED` and
has one parent (`Forks`), parents are alive and an exiting process has given its
children away (`Families`), and what `wait_lock` protects: the scan and the
step to sleep see the same children, and the parent of a process about to be a
`ZOMBIE` is awake (`Wakeups`). `Shell`, for `ParentsAlive`, adds init's own variable: init
is in `wait` only while the shell it started is its child, and forks only when
it has none. It holds with init killed and with every `fork` failing, too.

## Memory: `Memory`

State: the free pages, the table of processes with trapframe, page table and
size, the pages of pipes. A page table is three levels deep and has its
page-table pages, which `walk` allocates, so that allocation fails in the middle
of `mappages`. Every function of `vm.c` is an operator; a system call (`SysFork`,
`SysExec`, `SysSbrk`, `Exit`, `Wait`, `Pipealloc`, `Pipeclose`) is one action, as it
works on page tables nobody else can reach and shares the free list alone. exec
follows its segments, the guard page and the stack, the arguments and each `goto
bad`.

`kernel`, part `memory`: three slots and sixteen pages, which six calls use up at
every point of every call. `PagesOwnedOnce`: each page is free or has exactly one
holder after every call. `SizeIsMapped`: `sz` and the page table agree.
`CopyExact`: `copyin`, `copyout` and `copyinstr` succeed exactly on mapped pages below
`sz` that have PTE_U, for every address and every length up to two pages; they look at no
other permission, so `copyout` writes to a program's text. One program of the run has
a segment that wraps around the address space (`U64`), which exec refuses. `FAN` (3 instead of
512) is the least that gives exec its pages and keeps trapframe and trampoline
apart. The second `mappages` of `proc_pagetable` cannot run out, as the first has
made the page-table pages it needs; the model has its failure path, which
is never taken. What a failing `copyin` leaves half copied is not told apart.

## Pipes: `Pipe`

State: `struct pipe` with its wrapping counters, the lock's holder, each process'
position, count and `killed` flag. Each turn of the loops in `pipewrite` and
`piperead` is a step; `kill` needs no pipe lock and may come between any two.
Bytes are numbered by their place in the stream. `copyin` and `copyout` may fail at any
byte; `piperead` has taken the byte by then, and it is lost.

* `kernel`, part `pipe`: two writers, two readers, kills, closing of both ends:
  bytes in order (`InOrder`), memory freed by the last and with nobody inside
  (`FreedUnused`), nobody asleep without cause unless a writer was killed
  (`SleepsUnlessKilled`).
* `pipe_lost_wakeup` is **violated**: a killed writer returns without waking the
  readers of what it has written.

Bounds: a ring of two bytes and requests of two, which two writers and failed
copies turn into partial ones (`pipe_lost_wakeup` has requests of one and three),
counters modulo 4 that wrap within the five bytes sent.

`PipeProofs` proves the three invariants of `kernel` for any number of writers and
readers, requests of any size, any `PIPESIZE` and any range of the counters that is a
larger multiple of it (`PipeAssumption`): `BytesInOrder`, `FreedWhenUnused`,
`NoLostWakeup`. The invariant relates the counters, modulo their range, to the
numbers of bytes put in and taken out, and each place of the ring to the byte
in it (`Ring`); says who has the lock (`Locking`), who can still use an end
(`Ends`), and that a sleeper has its reason or somebody with the lock is
about to wake it (`Sleepers`).

## Spin locks: `Spinlock`

State: per CPU `noff`, `intena`, the hardware's interrupt enable and the context
that runs; per context (kernel thread or scheduler) the instructions it has still
to execute. `push_off` is two instructions when interrupts are on, since an interrupt
may come between `intr_get` and `intr_off`. Threads take nested locks, sleep and go on on
another CPU; device handlers take a lock, timer handlers yield from within the
interrupted thread. `kernel`, part `spinlock`, with two CPUs and two threads:
`NoInterruptWhileLocked` (interrupts are off while a lock is held, `noff` counts
the locks, no panic of `acquire`, `release`, `pop_off` or `sched`, whose `sched running`
is told by `runnable`) and
`InterruptsRestored` (a thread finds interrupts as they were when it took
its first lock, wherever it runs). The model is of a sequentially consistent
machine; `__sync_synchronize` is what makes the code so. In `Work` a thread does
one of two things: two locks in order, or sleep with one.

`kernel` does not check deadlock: a client of each part may stop.

## Drivers and clock: `Virtio`, `Console`, `Terminal`, `Uart`, `Ticks`

`Virtio`: descriptors, the two rings with wrapping indices, `info`, the processes in
`virtio_disk_rw`, the handler with `vdisk_lock` held from the acknowledgement to
the end of its loop, and the device, which is external: it takes requests in
order, sees them through the descriptors only, completes them in any order, and
raises its interrupt some time later, once for several. `ChainsDisjoint`,
`RequestDone`. Seven descriptors and three users: two requests in flight and a
third that waits for descriptors and gives back the one it got; that two requests
wait and wake each other by giving back does not happen with these bounds.

`Console`: `consoleintr` is one action per character; `consoleread` goes step by step, with
`cons.lock` as the reader between steps. Characters are a newline, `^D`, a letter,
erase and kill-line; `^P` only prints. It implements `Terminal` (`ImplementsTerminal`): a line
that is edited, a queue of what was entered, and for each reader the call in progress, what it
has got and, in the end, its answer. `Terminal` says where a read may end: when
it has what it asked for, after a newline, at `^D` (which stays for the next
read, to be answered by 0, unless nothing was read yet), when its process is killed while the
queue is empty, or at a `copyout` that fails, which has taken its character from the queue. The mapping gives a
reader's call as open until `consoleread` returns.

`Uart`: writers under `uart_tx_lock`, the transmit interrupt, and
`uartputc_sync`, which writes to the same register without the lock. The UART is
external: a FIFO that interrupts when it becomes empty. `OutputInOrder`: the
ring's characters leave in order and once, and the writers that race for an idle
UART never overfill its FIFO. `Freeze` is the end of `panic`: after it `uartputc` spins for ever
with the ring's lock, and nothing is said of the ring draining.

`Ticks`: `sys_sleep` reads the clock and makes its first test in one step, under
`tickslock`. `sleep(n)` returns after n ticks and not later than the process gets a CPU
(`SleepsExactly`), with `ticks` wrapping. `MaxLag` bounds how many ticks a
woken process waits for a CPU: the scheduler goes round the table and every
tick makes a process yield. A negative argument of `sleep` is taken as a
large unsigned number and is outside `Naps`.

`kill` wakes a sleeper of each of them at any time. `SleepersAnswered` says that
every disk request returns, a reader gets what has been entered, the ring drains
and its writers return, `sleep` returns, and the three properties of the log.

Fairness in `progress`: a process that can take its next step in the kernel
eventually does, the interrupt handlers run, the devices answer, the clock ticks; nobody has
to type, to write, to call or to kill. The scheduler is round robin and timer
interrupts preempt, which is what justifies it; weak fairness is enough in every
part. In `processes_live`: runnable processes run again and again
(`scheduler` goes round the table), a processor spinning on a lock gets it when it
is free often enough, kernel code goes on, init keeps making its calls. `progress`
does not check deadlock, as each part ends when its bounded requests are used up.

## Proofs

| Module | Theorems |
| --- | --- |
| `UmmallocProofs` | `TypeCorrect`, `BoundaryTagsTrue`, `FreeListsRight`, `OnlyTopIsFree`, `SlotsInRange`, `AssertionsHold` |
| `UmmallocBlocks` | `BlocksHeld`, `NewBlocksFresh`, `FastPagesRight`, `RoomForLarge`, `BlocksNeverMeet` |
| `CacheProofs`, `LogProofs`, `LogContents` | lemmas: the invariants `IInv` and `CInv`, step by step |
| `LogTheorems` | `CacheSafe`, `QuietIsDurable`, `LogIsAtomic`, `LogNeverFull` |
| `ProcProofs` | `StackSafe`, `NoWakeupLost`, `BornUnkilled`, `ParentsAlive` |
| `PipeProofs` | `BytesInOrder`, `FreedWhenUnused`, `NoLostWakeup` |

The proofs hold for every value of the constants that the `ASSUME` of the module
allows, and from nothing else; a hypothesis that a theorem adds is in its
statement. The inductive invariants of the process table, of the pipe and of the
log (`IInv`, `Shell`, `CInv`, `Funded`) also hold in TLC on the instances of
their runs, with the two parts that TLC cannot evaluate cut down: `AnyVersion`
to the versions up to 9, and the fact about all sequences left out of
`Elementary`. The invariants of the allocator quantify over all of `Nat`; of
them TLC checks the parts that the run `heap` lists.

What stays with model checking: liveness under fairness (`SleepersAnswered`,
`OrphansReaped`), which TLAPS does not do; the properties of `Memory`, whose page
tables are worked on by folds, and of `Fs` and `Inode`, whose functions are
recursive, as nothing can be proved by induction over data; the refinement of
`Terminal` and the invariants of `Spinlock`, `Virtio`, `Uart` and `Ticks`.

## What is not modelled

* `umalloc.c` (the K&R allocator) and `sh.c`: sequential programs of one process,
  without an answer to failure that a later call depends on. `grep.c` and the other
  user programs, `ummalloc_test.c`: clients and tests; `usertests.c` was read
  as evidence of what the kernel promises.
* `string.c`, `ulib.c`, the two `printf.c`: byte loops and formatting.
* `entry.S`, `start.c`, `main.c`, `kernelvec.S`, `trampoline.S`, `swtch.S`, `plic.c`, the set-up
  halves of the drivers, `kvmmake`: boot, register save and restore, and device
  set-up, which run once or have no state that a property here tells apart.
* `syscall.c` and the `arg*` functions: dispatch by number and fetching of arguments;
  the models take the calls with their arguments as inputs.
* `sys_dup`, `sys_fstat`, `filestat`, the descriptors of `sys_pipe`: they add
  references to files that have one already, or copy fields out.
* `ramdisk.c`: not linked into the kernel.
