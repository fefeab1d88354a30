------------------------------ MODULE MCKernel ------------------------------
(***************************************************************************)
(* Memory, pipes and spinlocks for TLC.  They share no variables, so a     *)
(* behaviour runs one of them, which Init picks, and the others stay as    *)
(* they are.                                                               *)
(***************************************************************************)
EXTENDS Memory, Spinlock, Pipe, TLC

VARIABLE part

KernelVars == <<mvars, svars, vars, part>>

Seg(vaddr, memsz, filesz, perm) ==
  [vaddr |-> vaddr, memsz |-> memsz, filesz |-> filesz, perm |-> perm,
   whole |-> TRUE]

(* Text and data as the linker lays them out; one segment that is not      *)
(* whole; a second segment below the first, whose arguments do not fit; a  *)
(* file whose segment is larger than its memory; and one whose second      *)
(* segment wraps around the address space.                                 *)
MCPrograms ==
  {[segs |-> <<Seg(0, 1, 1, {"X"}), Seg(2, 1, 0, {"W"})>>, fit |-> TRUE],
   [segs |-> <<Seg(0, 3, 3, {"X"})>>, fit |-> TRUE],
   [segs |-> <<[Seg(0, 3, 3, {"X"}) EXCEPT !.whole = FALSE]>>, fit |-> TRUE],
   [segs |-> <<Seg(2, 1, 1, {"X"}), Seg(0, 2, 2, {"W"})>>, fit |-> FALSE],
   [segs |-> <<Seg(0, 1, 1, {"X"}), Seg(2, 1, 2, {"W"})>>, fit |-> TRUE],
   [segs |-> <<Seg(0, 1, 1, {"X"}), Seg(U64 - PGSIZE, PGSIZE + 1, 1, {"W"})>>,
    fit |-> TRUE]}

MCGrowth == {-5, -2, -1, 1, 3}

(* Memory after kinit, before the first process. *)
NoProcess ==
  /\ kmem = Pages
  /\ procs = [p \in PTable |-> Unused]
  /\ pipes = {} /\ panic = "" /\ calls = 0

KernelInit ==
  /\ part \in {"memory", "pipe", "spinlock"}
  /\ IF part = "memory" THEN MemoryInit ELSE NoProcess
  /\ SpinInit
  /\ Init

MemoryOnly == UNCHANGED <<svars, vars, part>>
PipeOnly == UNCHANGED <<mvars, svars, part>>
SpinlockOnly == UNCHANGED <<mvars, vars, part>>

KernelNext ==
  \/ part = "memory" /\ SysSbrk /\ MemoryOnly
  \/ part = "memory" /\ SysFork /\ MemoryOnly
  \/ part = "memory" /\ SysExec /\ MemoryOnly
  \/ part = "memory" /\ Exit /\ MemoryOnly
  \/ part = "memory" /\ Wait /\ MemoryOnly
  \/ part = "memory" /\ Pipealloc /\ MemoryOnly
  \/ part = "memory" /\ Pipeclose /\ MemoryOnly
  \/ \E p \in Procs : part = "pipe" /\ Call(p) /\ PipeOnly
  \/ \E p \in Procs : part = "pipe" /\ Resume(p) /\ PipeOnly
  \/ \E p \in Procs : part = "pipe" /\ WriteLoop(p) /\ PipeOnly
  \/ \E p \in Procs : part = "pipe" /\ WriteFull(p) /\ PipeOnly
  \/ \E p \in Procs : part = "pipe" /\ WritePut(p) /\ PipeOnly
  \/ \E p \in Procs : part = "pipe" /\ WriteFault(p) /\ PipeOnly
  \/ \E p \in Procs : part = "pipe" /\ ReadLoop(p) /\ PipeOnly
  \/ \E p \in Procs : part = "pipe" /\ ReadSleep(p) /\ PipeOnly
  \/ \E p \in Procs : part = "pipe" /\ ReadTake(p) /\ PipeOnly
  \/ \E p \in Procs : part = "pipe" /\ ReadDone(p) /\ PipeOnly
  \/ \E p \in Procs : part = "pipe" /\ Close(p) /\ PipeOnly
  \/ \E p \in Procs : part = "pipe" /\ PipeClose(p) /\ PipeOnly
  \/ \E p \in Procs : part = "pipe" /\ Kill(p) /\ PipeOnly
  \/ \E c \in CPUs : part = "spinlock" /\ IntrGet(c) /\ SpinlockOnly
  \/ \E c \in CPUs : part = "spinlock" /\ PushOff(c) /\ SpinlockOnly
  \/ \E c \in CPUs : part = "spinlock" /\ Swap(c) /\ SpinlockOnly
  \/ \E c \in CPUs : part = "spinlock" /\ ReleaseLock(c) /\ SpinlockOnly
  \/ \E c \in CPUs : part = "spinlock" /\ Ready(c) /\ SpinlockOnly
  \/ \E c \in CPUs : part = "spinlock" /\ Sched(c) /\ SpinlockOnly
  \/ \E c \in CPUs : part = "spinlock" /\ Intena(c) /\ SpinlockOnly
  \/ \E c \in CPUs : part = "spinlock" /\ Schedule(c) /\ SpinlockOnly
  \/ \E c \in CPUs : part = "spinlock" /\ IntrOn(c) /\ SpinlockOnly
  \/ \E c \in CPUs : part = "spinlock" /\ Swtch(c) /\ SpinlockOnly
  \/ \E c \in CPUs : part = "spinlock" /\ StartWork(c) /\ SpinlockOnly
  \/ \E c \in CPUs : part = "spinlock" /\ Trap(c) /\ SpinlockOnly
  \/ \E c \in CPUs : part = "spinlock" /\ Sret(c) /\ SpinlockOnly

KernelSpec == KernelInit /\ [][KernelNext]_KernelVars

Sym == Permutations(Readers) \cup Permutations(CPUs) \cup Permutations(KThreads)
=============================================================================
