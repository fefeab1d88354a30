------------------------------- MODULE Memory -------------------------------
(***************************************************************************)
(* Physical pages and user address spaces: kalloc.c, the user half of      *)
(* vm.c, exec.c, and the parts of proc.c (allocproc, freeproc, fork,       *)
(* growproc) and of sysfile.c (sys_exec) that hold pages.                  *)
(*                                                                         *)
(* A system call works on page tables no other process can reach, and the  *)
(* only state it shares is the free list, which kalloc and kfree lock for  *)
(* one page at a time.  A call is one action: what other processes take    *)
(* meanwhile could only make it run out earlier, and pipes (Pipealloc) put *)
(* the free list at every size before it.                                  *)
(*                                                                         *)
(* Sizes are in units, PGSIZE of them to a page; virtual addresses are     *)
(* page numbers.  A page table is three levels deep and FAN entries wide.  *)
(* Every function of vm.c is an operator on a record j: the free pages,    *)
(* the page table pt it builds with its size sz and trapframe, the result  *)
(* n (0 is failure) and the panic it met.                                  *)
(***************************************************************************)
EXTENDS Integers, Sequences, SequencesExt, FiniteSetsExt, TLC

CONSTANTS
  NPROC,        \* slots of the process table
  NPAGES,       \* pages between end and PHYSTOP
  PGSIZE,       \* units in a page
  FAN,          \* entries in a page-table page
  U64,          \* 2^64
  Growth,       \* the arguments of sbrk
  Programs,     \* what exec may find in a file
  MaxArgs,      \* MAXARG
  MaxPipes,     \* bound on the pipes that exist at once
  MaxCalls      \* bound on the calls of a behaviour

ASSUME MemoryAssumption ==
  /\ {NPROC, NPAGES, PGSIZE, FAN, MaxArgs} \subseteq Nat \ {0}
  /\ Growth \subseteq Int
  /\ NPAGES <= FAN * FAN * FAN - 2   \* memory ends before the trapframe
  /\ U64 \in Nat /\ FAN * FAN * FAN * PGSIZE < U64

VARIABLES
  kmem,         \* kmem.freelist
  procs,        \* proc[]: state, trapframe, page table and sz
  pipes,        \* pages that hold a struct pipe
  panic,        \* the message of the first panic, "" if none
  calls

mvars == <<kmem, procs, pipes, panic, calls>>

Pages == 1 .. NPAGES
PTable == 1 .. NPROC
MAXVA == FAN * FAN * FAN
TRAMPOLINE == MAXVA - 1
TRAPFRAME == MAXVA - 2

PGROUNDUP(sz) == ((sz + PGSIZE - 1) \div PGSIZE) * PGSIZE
PagesFrom(a, b) == [k \in 1 .. (IF b > a THEN (b - a) \div PGSIZE ELSE 0) |->
                    a \div PGSIZE + k - 1]

NoTable == [root |-> 0, node |-> <<>>, leaf |-> <<>>]
Unused == [state |-> "UNUSED", trapframe |-> 0, pt |-> NoTable, sz |-> 0]
Job(free) == [free |-> free, pt |-> NoTable, sz |-> 0, trapframe |-> 0,
              n |-> 1, panic |-> ""]
Panic(j, why) == [j EXCEPT !.panic = IF @ = "" THEN why ELSE @, !.n = 0]

-----------------------------------------------------------------------------
(* kalloc.c.  Which page is at the head of the list does not matter. *)

kalloc(j) ==
  IF j.free = {}
  THEN [j EXCEPT !.n = 0]
  ELSE [j EXCEPT !.n = Min(j.free), !.free = @ \ {Min(j.free)}]

(* A page freed twice would be handed out twice; the code cannot notice. *)
kfree(j, pa) ==
  CASE pa \notin Pages -> Panic(j, "kfree")
    [] pa \in j.free   -> Panic(j, "freed twice")
    [] OTHER           -> [j EXCEPT !.free = @ \cup {pa}]

-----------------------------------------------------------------------------
(* vm.c *)

(* The page-table pages below the root on the way to va. *)
Way(va) == <<<<1, va \div (FAN * FAN)>>, <<0, va \div FAN>>>>

AddTable(j, key) ==
  IF j.n = 0 \/ key \in DOMAIN j.pt.node
  THEN j
  ELSE LET Put(k) == IF k.n = 0 THEN k
                     ELSE [k EXCEPT !.pt.node = (key :> k.n) @@ @]
       IN  Put(kalloc(j))

walk(j, va) == FoldLeft(AddTable, [j EXCEPT !.n = 1], Way(va))

mappages(j, va, pa, perm) ==
  LET Set(k) == CASE k.n = 0 -> k
                  [] k.n # 0 /\ va \in DOMAIN k.pt.leaf ->
                       Panic(k, "mappages: remap")
                  [] OTHER -> [k EXCEPT !.pt.leaf =
                                 (va :> [pa |-> pa, perm |-> perm]) @@ @]
  IN  Set(walk(j, va))

Forget(j, va) ==
  [j EXCEPT !.pt.leaf = [a \in DOMAIN @ \ {va} |-> @[a]]]

uvmunmap(j, vas, do_free) ==
  LET One(k, va) ==
        CASE va \notin DOMAIN k.pt.leaf -> Panic(k, "uvmunmap: not mapped")
          [] va \in DOMAIN k.pt.leaf /\ k.pt.leaf[va].perm = {} ->
               Panic(k, "uvmunmap: not a leaf")
          [] OTHER -> Forget(IF do_free THEN kfree(k, k.pt.leaf[va].pa) ELSE k,
                             va)
  IN  FoldLeft(One, j, vas)

uvmcreate(j) ==
  LET Root(k) == [k EXCEPT !.pt = [NoTable EXCEPT !.root = k.n]]
  IN  Root(kalloc(j))

(* Mutant: rounds the new size down, and takes a page still in use. *)
UvmdeallocRoundsDown(j, oldsz, newsz) ==
  IF newsz >= oldsz
  THEN [j EXCEPT !.n = oldsz]
  ELSE [uvmunmap(j, PagesFrom((newsz \div PGSIZE) * PGSIZE, PGROUNDUP(oldsz)),
                 TRUE) EXCEPT !.n = newsz]

uvmdealloc(j, oldsz, newsz) ==
  IF newsz >= oldsz
  THEN [j EXCEPT !.n = oldsz]
  ELSE [uvmunmap(j, PagesFrom(PGROUNDUP(newsz), PGROUNDUP(oldsz)), TRUE)
        EXCEPT !.n = newsz]

(* Take a page for va and map it; undo(k) cleans up when that fails. *)
MapNew(j, va, perm, undo(_)) ==
  LET Mapped(k, mem) == IF k.n # 0 THEN k ELSE undo(kfree(k, mem))
      Got(k) == IF k.n = 0 THEN undo(k)
                ELSE Mapped(mappages(k, va, k.n, perm), k.n)
  IN  Got(kalloc(j))

Failed(j) == [j EXCEPT !.n = 0]

uvmalloc(j, oldsz, newsz, xperm) ==
  LET from == PGROUNDUP(oldsz)
      One(k, va) ==
        IF k.n = 0 THEN k
        ELSE MapNew(k, va, {"R", "U"} \cup xperm,
                    LAMBDA f : Failed(uvmdealloc(f, va * PGSIZE, from)))
      Done(k) == IF k.n = 0 THEN k ELSE [k EXCEPT !.n = newsz]
  IN  IF newsz < oldsz
      THEN [j EXCEPT !.n = oldsz]
      ELSE Done(FoldLeft(One, [j EXCEPT !.n = 1],
                         PagesFrom(from, PGROUNDUP(newsz))))

(* The recursion of freewalk visits every page-table page once. *)
freewalk(j) ==
  IF DOMAIN j.pt.leaf # {}
  THEN Panic(j, "freewalk: leaf")
  ELSE LET Node(key, k) == kfree(k, j.pt.node[key])
           Gone(k) == [kfree(k, j.pt.root) EXCEPT !.pt = NoTable]
       IN  Gone(FoldSet(Node, j, DOMAIN j.pt.node))

uvmfree(j, sz) == freewalk(uvmunmap(j, PagesFrom(0, PGROUNDUP(sz)), TRUE))

uvmcopy(j, old, sz) ==
  LET One(k, va) ==
        CASE k.n = 0 -> k
          [] k.n # 0 /\ va \notin DOMAIN old.leaf -> Panic(k, "uvmcopy")
          [] OTHER -> MapNew(k, va, old.leaf[va].perm,
               LAMBDA f : Failed(uvmunmap(f, PagesFrom(0, va * PGSIZE), TRUE)))
  IN  FoldLeft(One, [j EXCEPT !.n = 1], PagesFrom(0, PGROUNDUP(sz)))

uvmclear(j, va) ==
  IF va \in DOMAIN j.pt.leaf
  THEN [j EXCEPT !.pt.leaf[va].perm = @ \ {"U"}]
  ELSE Panic(j, "uvmclear")

(* Mutant: does not look at PTE_U. *)
WalkaddrAnyLeaf(pt, va) ==
  IF va < MAXVA /\ va \in DOMAIN pt.leaf THEN pt.leaf[va].pa ELSE 0

walkaddr(pt, va) ==
  IF va < MAXVA /\ va \in DOMAIN pt.leaf /\ "U" \in pt.leaf[va].perm
  THEN pt.leaf[va].pa ELSE 0

(* copyin and copyout walk the same pages: do they get to the end? *)
RECURSIVE copy(_, _, _)
copy(pt, addr, len) ==
  \/ len = 0
  \/ /\ walkaddr(pt, addr \div PGSIZE) # 0
     /\ copy(pt, ((addr \div PGSIZE) + 1) * PGSIZE,
             len - Min({len, PGSIZE - (addr % PGSIZE)}))

(* copyinstr, of a string whose nul is nul units after addr. *)
RECURSIVE copyinstr(_, _, _, _)
copyinstr(pt, addr, max, nul) ==
  LET n == Min({max, PGSIZE - (addr % PGSIZE)})
  IN  /\ max > 0
      /\ walkaddr(pt, addr \div PGSIZE) # 0
      /\ \/ nul < n
         \/ copyinstr(pt, ((addr \div PGSIZE) + 1) * PGSIZE, max - n, nul - n)

-----------------------------------------------------------------------------
(* proc.c: page tables of processes *)

(* Mutant: gives up without freeing what it has of the page table. *)
ProcPagetableDrops(j, trapframe) ==
  LET Second(k) == IF k.n # 0 THEN k ELSE [Failed(k) EXCEPT !.pt = NoTable]
      First(k) ==
        IF k.n = 0 THEN [Failed(k) EXCEPT !.pt = NoTable]
        ELSE Second(mappages(k, TRAPFRAME, trapframe, {"R", "W"}))
      Created(k) ==
        IF k.n = 0 THEN k
        ELSE First(mappages(k, TRAMPOLINE, 0, {"R", "X"}))
  IN  Created(uvmcreate(j))

proc_pagetable(j, trapframe) ==
  LET Second(k) ==
        IF k.n # 0 THEN k
        ELSE Failed(uvmfree(uvmunmap(k, <<TRAMPOLINE>>, FALSE), 0))
      First(k) ==
        IF k.n = 0 THEN Failed(uvmfree(k, 0))
        ELSE Second(mappages(k, TRAPFRAME, trapframe, {"R", "W"}))
      Created(k) ==
        IF k.n = 0 THEN k
        ELSE First(mappages(k, TRAMPOLINE, 0, {"R", "X"}))
  IN  Created(uvmcreate(j))

proc_freepagetable(j, sz) ==
  uvmfree(uvmunmap(j, <<TRAMPOLINE, TRAPFRAME>>, FALSE), sz)

(* freeproc, of the page table in j. *)
freeproc(j, trapframe, sz) ==
  LET Rest(k) == IF k.pt = NoTable THEN k ELSE proc_freepagetable(k, sz)
  IN  Rest(IF trapframe # 0 THEN kfree(j, trapframe) ELSE j)

allocproc(j) ==
  LET Tables(k, tf) == IF k.n = 0 THEN Failed(freeproc(k, tf, 0))
                       ELSE [k EXCEPT !.trapframe = tf]
      Frame(k) == IF k.n = 0 THEN Failed(freeproc(k, 0, 0))
                  ELSE Tables(proc_pagetable(k, k.n), k.n)
  IN  Frame(kalloc(j))

-----------------------------------------------------------------------------
(* exec.c.  A program segment says where it goes, how much of it is in the *)
(* file, with which flags, and whether readi delivers all of it.           *)

(* loadseg, into pages that must be mapped already. *)
LoadPages(j, ph) ==
  LET target == {ph.vaddr \div PGSIZE + i :
                   i \in 0 .. PGROUNDUP(ph.filesz) \div PGSIZE - 1}
  IN  IF \E va \in target : walkaddr(j.pt, va) = 0
      THEN Panic(j, "loadseg: address should exist")
      ELSE IF ph.whole THEN j ELSE Failed(j)

LoadSegment(j, ph) ==
  LET Grown(k) == IF k.n = 0 THEN k ELSE LoadPages([k EXCEPT !.sz = k.n], ph)
  IN  IF j.n = 0 THEN j
      ELSE IF \/ ph.memsz < ph.filesz
              \/ (ph.vaddr + ph.memsz) % U64 < ph.vaddr
              \/ ph.vaddr % PGSIZE # 0
           THEN Failed(j)
      ELSE Grown(uvmalloc(j, j.sz, ph.vaddr + ph.memsz, ph.perm))

SetupStack(j) ==
  LET Guard(k) == IF k.n = 0 THEN k
                  ELSE uvmclear([k EXCEPT !.sz = k.n],
                                k.n \div PGSIZE - 2)
      Above(k) == Guard(uvmalloc(k, k.sz, k.sz + 2 * PGSIZE, {"W"}))
  IN  IF j.n = 0 THEN j ELSE Above([j EXCEPT !.sz = PGROUNDUP(@)])

(* The new image, or none of it: n = 0 and everything given back. *)
exec(j, trapframe, segs, fit) ==
  LET Bad(k) == IF k.pt = NoTable THEN k
                ELSE Failed(proc_freepagetable(k, k.sz))
      Pushed(k) == IF k.n = 0 \/ ~ fit THEN Bad(k) ELSE k
  IN  Pushed(SetupStack(FoldLeft(LoadSegment, proc_pagetable(j, trapframe),
                                 segs)))

-----------------------------------------------------------------------------
(* What a call leaves behind. *)

Return(j, ps) ==
  /\ kmem' = j.free
  /\ procs' = ps
  /\ panic' = j.panic
  /\ calls' = calls + 1

MayCall == panic = "" /\ calls < MaxCalls
Runs(p) == MayCall /\ procs[p].state = "USED"

(* sys_sbrk: growproc(n).  sz + n below zero is a huge unsigned number. *)
growproc(p, n) ==
  LET sz == procs[p].sz
      j == [Job(kmem) EXCEPT !.pt = procs[p].pt]
      Set(k) == Return(k, [procs EXCEPT ![p].pt = k.pt,
                             ![p].sz = IF n > 0 /\ k.n = 0 THEN @ ELSE k.n])
  IN  CASE n > 0 -> Set(uvmalloc(j, sz, sz + n, {"W"}))
        [] n < 0 /\ sz + n >= 0 -> Set(uvmdealloc(j, sz, sz + n))
        [] OTHER -> Set([j EXCEPT !.n = sz])

SysSbrk == \E p \in PTable, n \in Growth :
  Runs(p) /\ growproc(p, n) /\ UNCHANGED pipes

(* fork into the first unused slot, if there is one. *)
Slots == {q \in PTable : procs[q].state = "UNUSED"}

fork(p, np) ==
  LET Copied(k, tf) ==
        IF k.n = 0
        THEN Return(freeproc(k, tf, 0), procs)
        ELSE Return(k, [procs EXCEPT ![np] = [state |-> "USED",
                          trapframe |-> tf, pt |-> k.pt, sz |-> procs[p].sz]])
      Allocated(k) == IF k.n = 0 THEN Return(k, procs)
                      ELSE Copied(uvmcopy(k, procs[p].pt, procs[p].sz), k.trapframe)
  IN  Allocated(allocproc(Job(kmem)))

SysFork == \E p \in PTable :
  /\ Runs(p)
  /\ Slots # {}
  /\ fork(p, Min(Slots))
  /\ UNCHANGED pipes

(* sys_exec copies argc strings into pages of their own before exec, and   *)
(* gives them back whatever exec did; the file may not exist, and an       *)
(* argument may not be readable.                                           *)
Args(j, argc) ==
  LET Step(a, i) == IF a.j.n = 0 THEN a
                    ELSE LET Add(k) == [j |-> k, held |-> IF k.n = 0 THEN a.held
                                                   ELSE Append(a.held, k.n)]
                         IN  Add(kalloc(a.j))
  IN  FoldLeft(Step, [j |-> j, held |-> <<>>], [i \in 1 .. argc |-> i])

sys_exec(p, prog, argc, readable) ==
  LET old == procs[p]
      FreeArgs(k, held) == FoldLeft(kfree, k, held)
      Commit(k) == Return(proc_freepagetable(
                            [k EXCEPT !.pt = old.pt], old.sz),
                          [procs EXCEPT ![p].pt = k.pt, ![p].sz = k.sz])
      Done(k, held) == IF k.n = 0
                       THEN Return(FreeArgs(k, held), procs)
                       ELSE Commit(FreeArgs(k, held))
      Fetched(a) == IF a.j.n = 0 \/ ~ readable
                    THEN Return(FreeArgs(a.j, a.held), procs)
                    ELSE Done(exec(a.j, old.trapframe, prog.segs, prog.fit),
                              a.held)
  IN  Fetched(Args(Job(kmem), argc))

SysExec == \E p \in PTable, prog \in Programs, argc \in 1 .. MaxArgs,
              readable \in BOOLEAN :
  /\ Runs(p)
  /\ sys_exec(p, prog, argc, readable)
  /\ UNCHANGED pipes

(* exit keeps the memory until the parent's wait calls freeproc. *)
Exit == \E p \in PTable \ {1} :
  /\ Runs(p)
  /\ procs' = [procs EXCEPT ![p].state = "ZOMBIE"]
  /\ calls' = calls + 1
  /\ UNCHANGED <<kmem, pipes, panic>>

Wait == \E p \in PTable :
  /\ MayCall
  /\ procs[p].state = "ZOMBIE"
  /\ Return(freeproc([Job(kmem) EXCEPT !.pt = procs[p].pt],
                     procs[p].trapframe, procs[p].sz),
            [procs EXCEPT ![p] = Unused])
  /\ UNCHANGED pipes

(* pipealloc and pipeclose: pages no process maps. *)
Pipealloc ==
  LET Taken(k) == /\ Return(k, procs)
                  /\ pipes' = IF k.n = 0 THEN pipes ELSE pipes \cup {k.n}
  IN  MayCall /\ Cardinality(pipes) < MaxPipes /\ Taken(kalloc(Job(kmem)))

Pipeclose == \E pi \in pipes :
  /\ MayCall
  /\ Return(kfree(Job(kmem), pi), procs)
  /\ pipes' = pipes \ {pi}

(* kinit, then userinit with uvmfirst: one page, one process. *)
Userinit ==
  LET Loaded(k, tf) ==
        /\ kmem = k.free
        /\ procs = [p \in PTable |->
             IF p = 1 THEN [state |-> "USED", trapframe |-> tf, pt |-> k.pt,
                            sz |-> PGSIZE]
             ELSE Unused]
      First(k) == Loaded(MapNew(k, 0, {"R", "W", "X", "U"}, Failed),
                         k.trapframe)
  IN  First(allocproc(Job(Pages)))

MemoryInit == Userinit /\ pipes = {} /\ panic = "" /\ calls = 0

MemoryNext ==
  \/ SysSbrk
  \/ SysFork
  \/ SysExec
  \/ Exit
  \/ Wait
  \/ Pipealloc
  \/ Pipeclose

MemorySpec == MemoryInit /\ [][MemoryNext]_mvars

-----------------------------------------------------------------------------
(* Properties *)

(* Who has a page that kalloc gave out: a pipe, or a process for one use. *)
Holders ==
  {<<"pipe", 0, 0, pg>> : pg \in pipes}
  \cup UNION {
    {<<"trapframe", p, 0, procs[p].trapframe>>, <<"root", p, 0, procs[p].pt.root>>}
    \cup {<<"table", p, key, procs[p].pt.node[key]>> :
            key \in DOMAIN procs[p].pt.node}
    \cup {<<"user", p, va, procs[p].pt.leaf[va].pa>> :
            va \in DOMAIN procs[p].pt.leaf \ {TRAMPOLINE, TRAPFRAME}} :
      p \in {q \in PTable : procs[q].state # "UNUSED"}}

(* After every call of fork, exec, sbrk, exit, wait and pipe, wherever in  *)
(* it kalloc failed, each page is free or has exactly one holder: no page  *)
(* leaks on an error path of vm.c, exec.c or proc.c, none is shared, freed *)
(* twice or freed while in use, and no clean-up reaches a panic.           *)
PagesOwnedOnce ==
  /\ panic = ""
  /\ {h[4] : h \in Holders} = Pages \ kmem
  /\ Cardinality(Holders) = NPAGES - Cardinality(kmem)

(* p->sz, the trapframe and the page table agree: exactly the pages below  *)
(* sz and the two fixed ones are mapped, through page-table pages that     *)
(* exist, and user mode cannot reach the fixed ones.  freeproc, uvmcopy    *)
(* and exec's commit free and copy by sz alone.                            *)
SizeIsMapped == panic = "" =>
  \A p \in PTable : procs[p].state # "UNUSED" =>
    LET pt == procs[p].pt
    IN  /\ DOMAIN pt.leaf = Range(PagesFrom(0, PGROUNDUP(procs[p].sz)))
                             \cup {TRAMPOLINE, TRAPFRAME}
        /\ pt.leaf[TRAPFRAME].pa = procs[p].trapframe
        /\ \A va \in {TRAMPOLINE, TRAPFRAME} : "U" \notin pt.leaf[va].perm
        /\ \A va \in DOMAIN pt.leaf : Range(Way(va)) \subseteq DOMAIN pt.node

(* copyin, copyout and copyinstr, which step from page boundary to page    *)
(* boundary, succeed exactly when every unit they touch is in a page with  *)
(* PTE_U that begins below sz: never beyond, never in the stack guard      *)
(* page, nor in the trapframe or above MAXVA.  They look at no other       *)
(* permission, so copyout writes into pages without PTE_W too.             *)
CopyExact ==
  \A p \in PTable : procs[p].state = "USED" =>
    LET pt == procs[p].pt
        Reaches(addr) == LET va == addr \div PGSIZE
                         IN  /\ va \in DOMAIN pt.leaf
                             /\ "U" \in pt.leaf[va].perm
                             /\ addr < PGROUNDUP(procs[p].sz)
        All(addr, len) == \A k \in 0 .. len - 1 : Reaches(addr + k)
    IN  \A addr \in 0 .. MAXVA * PGSIZE, len \in 0 .. 2 * PGSIZE + 1 :
          /\ copy(pt, addr, len) <=> All(addr, len)
          /\ \A nul \in 0 .. 2 * PGSIZE : copyinstr(pt, addr, len, nul) <=>
                                           nul < len /\ All(addr, nul + 1)

=============================================================================
