--------------------------------- MODULE Proc ---------------------------------
(***************************************************************************)
(* The process table of kernel/proc.c: fork, exit, wait, kill, the         *)
(* scheduler and preemption on NCPU processors, with the checks that       *)
(* usertrap makes around a system call and init's loop of fork and wait.   *)
(*                                                                         *)
(* A stretch of code under p->lock is one step, with two exceptions that   *)
(* keep the lock across steps: from the change of state in exit, sleep or  *)
(* yield until the scheduler has switched away from p's kernel stack.      *)
(* wait_lock is held explicitly.  Slots of the table name the processes.   *)
(***************************************************************************)
EXTENDS Integers, FiniteSets

CONSTANTS
  NPROC,      \* slots of the process table
  NCPU,       \* processors
  KillPids    \* arguments of kill

ASSUME ProcAssumption ==
  /\ NPROC \in Nat \ {0} /\ NCPU \in Nat \ {0}
  /\ KillPids \subseteq Nat

Slots == 1 .. NPROC
initproc == 1
NoProc == 0

VARIABLES
  state, pid, parent, killed,   \* fields of struct proc
  lock,       \* p->lock is held across a switch
  wait_lock,  \* its holder, or NoProc
  oncpu,      \* processes whose kernel stack some CPU is using
  pc, k,      \* where the kernel thread is, and where it goes on later
  np,         \* fork's new process
  sh          \* init's variable pid: its shell, or 0

table == <<state, pid, parent, killed>>
locks == <<lock, wait_lock>>
vars == <<state, pid, parent, killed, lock, wait_lock, oncpu, pc, k, np, sh>>

Init ==
  /\ state = [p \in Slots |-> IF p = initproc THEN "RUNNABLE" ELSE "UNUSED"]
  /\ pid = [p \in Slots |-> IF p = initproc THEN 1 ELSE 0]
  /\ parent = [p \in Slots |-> NoProc]
  /\ killed = [p \in Slots |-> FALSE]
  /\ lock = [p \in Slots |-> FALSE] /\ wait_lock = NoProc
  /\ oncpu = {}
  /\ pc = [p \in Slots |-> "user"] /\ k = pc
  /\ np = [p \in Slots |-> NoProc]
  /\ sh = 0

(* p's thread runs at pc a. *)
At(p, a) == p \in oncpu /\ pc[p] = a

Goto(p, a) == pc' = [pc EXCEPT ![p] = a]
-----------------------------------------------------------------------------
(* One turn of scheduler() finds p; p goes on after its call of sched(),   *)
(* or in forkret, and lets p->lock go.                                     *)
Dispatch(p) ==
  /\ state[p] = "RUNNABLE" /\ ~lock[p]
  /\ Cardinality(oncpu) < NCPU
  /\ state' = [state EXCEPT ![p] = "RUNNING"]
  /\ oncpu' = oncpu \cup {p}
  /\ UNCHANGED <<pid, parent, killed, locks, pc, k, np, sh>>

(* sched() up to the scheduler's release of p->lock. *)
Sched(p) ==
  /\ At(p, "sched")
  /\ lock' = [lock EXCEPT ![p] = FALSE]
  /\ oncpu' = oncpu \ {p}
  /\ Goto(p, k[p])
  /\ k' = [k EXCEPT ![p] = "user"]
  /\ UNCHANGED <<table, wait_lock, np, sh>>

(* The state changes under p->lock and sched() is next; a is where p goes  *)
(* on.                                                                     *)
EnterSched(p, s, a) ==
  /\ ~lock[p]
  /\ lock' = [lock EXCEPT ![p] = TRUE]
  /\ state' = [state EXCEPT ![p] = s]
  /\ Goto(p, "sched")
  /\ k' = [k EXCEPT ![p] = a]

(* yield(): the timer interrupts user code, or the kernel while it holds   *)
(* no spinlock; acquire spins with interrupts off.                         *)
Spins(p) == pc[p] \in {"fork parent", "exit", "wait"} /\ wait_lock # NoProc

Yield(p) ==
  /\ p \in oncpu /\ state[p] = "RUNNING" /\ wait_lock # p
  /\ pc[p] = "user" => ~killed[p]
  /\ ~Spins(p)
  /\ EnterSched(p, "RUNNABLE", pc[p])
  /\ UNCHANGED <<pid, parent, killed, wait_lock, oncpu, np, sh>>

(* State after wakeup(q), where q is the channel that q itself sleeps on   *)
(* in wait; it needs q's lock.                                             *)
Wakeup(q) ==
  /\ q # NoProc => ~lock[q]
  /\ state' = [p \in Slots |-> IF p = q /\ state[p] = "SLEEPING"
                               THEN "RUNNABLE" ELSE state[p]]
-----------------------------------------------------------------------------
(* init forks its shell and then waits for ever; when the shell is gone it *)
(* forks another.                                                          *)
Calls(p) ==
  IF p = initproc THEN IF sh = 0 THEN {"fork"} ELSE {"wait"}
  ELSE {"fork", "wait", "kill", "exit"}

(* usertrap: a killed process exits at its next trap. *)
UserTrap(p) ==
  /\ At(p, "user")
  /\ IF killed[p] THEN Goto(p, "exit")
     ELSE \E call \in Calls(p) : Goto(p, call)
  /\ UNCHANGED <<table, locks, oncpu, k, np, sh>>

(* The same check after the system call. *)
Return(p) ==
  /\ At(p, "return")
  /\ Goto(p, IF killed[p] THEN "exit" ELSE "user")
  /\ UNCHANGED <<table, locks, oncpu, k, np, sh>>

(* allocpid; a pid is told apart only from the pids in use, so the slot's  *)
(* number stands for nextpid.                                              *)
allocpid(q) == q

Unused == {p \in Slots : state[p] = "UNUSED"}

(* fork fails: no slot, or no memory for the trapframe, the page table or  *)
(* the copy (freeproc undoes allocproc).  init then exits.                 *)
ForkFails(p) ==
  /\ At(p, "fork")
  /\ Goto(p, IF p = initproc THEN "exit" ELSE "return")
  /\ UNCHANGED <<table, locks, oncpu, k, np, sh>>

(* allocproc and the copying, all under np->lock. *)
Fork(p) ==
  /\ At(p, "fork")
  /\ \E q \in Unused :
       /\ ~lock[q]
       /\ np' = [np EXCEPT ![p] = q]
       /\ pid' = [pid EXCEPT ![q] = allocpid(q)]
       /\ state' = [state EXCEPT ![q] = "USED"]
       /\ Goto(p, "fork parent")
  /\ UNCHANGED <<parent, killed, locks, oncpu, k, sh>>

ForkParent(p) ==
  /\ At(p, "fork parent")
  /\ wait_lock = NoProc
  /\ parent' = [parent EXCEPT ![np[p]] = p]
  /\ Goto(p, "fork run")
  /\ UNCHANGED <<state, pid, killed, locks, oncpu, k, np, sh>>

ForkRun(p) ==
  /\ At(p, "fork run")
  /\ ~lock[np[p]]
  /\ state' = [state EXCEPT ![np[p]] = "RUNNABLE"]
  /\ sh' = IF p = initproc THEN pid[np[p]] ELSE sh
  /\ np' = [np EXCEPT ![p] = NoProc]
  /\ Goto(p, "return")
  /\ UNCHANGED <<pid, parent, killed, locks, oncpu, k>>
-----------------------------------------------------------------------------
Children(p) == {q \in Slots : parent[q] = p}

(* Mutated form: the children are not given away. *)
ExitReparentNot(p) ==
  /\ At(p, "exit") /\ p # initproc
  /\ wait_lock = NoProc
  /\ wait_lock' = p
  /\ Goto(p, "exit wakeup")
  /\ UNCHANGED <<table, lock, oncpu, k, np, sh>>

(* Mutated form: init is not told of its new children. *)
ExitReparentQuiet(p) ==
  /\ At(p, "exit") /\ p # initproc
  /\ wait_lock = NoProc
  /\ wait_lock' = p
  /\ parent' = [q \in Slots |-> IF parent[q] = p THEN initproc ELSE parent[q]]
  /\ Goto(p, "exit wakeup")
  /\ UNCHANGED <<state, pid, killed, lock, oncpu, k, np, sh>>

(* panic("init exiting"): init's thread loops for ever, and may be         *)
(* preempted; the other processes go on.                                   *)
InitExits(p) ==
  /\ At(p, "exit") /\ p = initproc
  /\ Goto(p, "panic")
  /\ UNCHANGED <<table, locks, oncpu, k, np, sh>>

(* exit up to reparent and its wakeup. *)
ExitReparent(p) ==
  /\ At(p, "exit") /\ p # initproc
  /\ wait_lock = NoProc
  /\ wait_lock' = p
  /\ parent' = [q \in Slots |-> IF parent[q] = p THEN initproc ELSE parent[q]]
  /\ IF Children(p) = {} THEN UNCHANGED state ELSE Wakeup(initproc)
  /\ Goto(p, "exit wakeup")
  /\ UNCHANGED <<pid, killed, lock, oncpu, k, np, sh>>

(* wakeup(p->parent) *)
ExitWakeup(p) ==
  /\ At(p, "exit wakeup")
  /\ Wakeup(parent[p])
  /\ Goto(p, "exit zombie")
  /\ UNCHANGED <<pid, parent, killed, locks, oncpu, k, np, sh>>

(* The rest of exit; sched() never returns. *)
ExitZombie(p) ==
  /\ At(p, "exit zombie")
  /\ EnterSched(p, "ZOMBIE", "zombie exit")
  /\ wait_lock' = NoProc
  /\ UNCHANGED <<pid, parent, killed, oncpu, np, sh>>
-----------------------------------------------------------------------------
Zombies(p) == {q \in Children(p) : state[q] = "ZOMBIE"}

(* Mutated form: the scan starts at the end of the table. *)
FirstFromEnd(S) == CHOOSE q \in S : \A r \in S : r <= q

First(S) == CHOOSE q \in S : \A r \in S : q <= r

WaitLock(p) ==
  /\ At(p, "wait")
  /\ wait_lock = NoProc
  /\ wait_lock' = p
  /\ Goto(p, "wait scan")
  /\ UNCHANGED <<table, lock, oncpu, k, np, sh>>

(* Mutated form: the child's lock is not taken. *)
ScannedAll(p) == TRUE

(* The scan has passed the lock of every child it looks at. *)
Scanned(p) ==
  \A q \in Children(p) :
    lock[q] => Zombies(p) # {} /\ q > First(Zombies(p))

(* Mutated form: freeproc leaves killed. *)
WaitReapKeepsKilled(p) ==
  LET q == First(Zombies(p)) IN
  /\ At(p, "wait scan")
  /\ Zombies(p) # {} /\ Scanned(p)
  /\ state' = [state EXCEPT ![q] = "UNUSED"]
  /\ pid' = [pid EXCEPT ![q] = 0]
  /\ parent' = [parent EXCEPT ![q] = NoProc]
  /\ sh' = IF p = initproc /\ pid[q] = sh THEN 0 ELSE sh
  /\ wait_lock' = NoProc
  /\ pc' = [pc EXCEPT ![p] = "return", ![q] = "user"]
  /\ UNCHANGED <<killed, lock, oncpu, k, np>>

(* wait finds a zombie and frees its slot. *)
WaitReap(p) ==
  LET q == First(Zombies(p)) IN
  /\ At(p, "wait scan")
  /\ Zombies(p) # {} /\ Scanned(p)
  /\ state' = [state EXCEPT ![q] = "UNUSED"]
  /\ pid' = [pid EXCEPT ![q] = 0]
  /\ parent' = [parent EXCEPT ![q] = NoProc]
  /\ killed' = [killed EXCEPT ![q] = FALSE]
  /\ sh' = IF p = initproc /\ pid[q] = sh THEN 0 ELSE sh
  /\ wait_lock' = NoProc
  /\ pc' = [pc EXCEPT ![p] = "return", ![q] = "user"]   \* for its next user
  /\ UNCHANGED <<lock, oncpu, k, np>>

(* wait answers -1: copyout of the status fails (init passes no address),  *)
(* there are no children, or p was killed.  init would exit.               *)
WaitFails(p) ==
  /\ At(p, "wait scan")
  /\ Scanned(p)
  /\ IF Zombies(p) # {} THEN p # initproc
     ELSE Children(p) = {} \/ killed[p]
  /\ wait_lock' = NoProc
  /\ Goto(p, IF p = initproc THEN "exit" ELSE "return")
  /\ UNCHANGED <<table, lock, oncpu, k, np, sh>>

WaitNothing(p) ==
  /\ At(p, "wait scan")
  /\ Scanned(p)
  /\ Zombies(p) = {} /\ Children(p) # {} /\ ~killed[p]
  /\ Goto(p, "wait sleep")
  /\ UNCHANGED <<table, locks, oncpu, k, np, sh>>

(* sleep(p, &wait_lock): p->lock is taken before wait_lock is let go; on   *)
(* its return p takes wait_lock again and scans.                           *)
WaitSleep(p) ==
  /\ At(p, "wait sleep")
  /\ EnterSched(p, "SLEEPING", "wait")
  /\ wait_lock' = NoProc
  /\ UNCHANGED <<pid, parent, killed, oncpu, np, sh>>

(* kill(n): the first slot with that pid. *)
Kill(p) ==
  /\ At(p, "kill")
  /\ \E n \in KillPids :
       LET S == {q \in Slots : pid[q] = n}
           q == First(S)
       IN IF S = {} THEN UNCHANGED <<state, killed>>
          ELSE /\ ~lock[q]
               /\ killed' = [killed EXCEPT ![q] = TRUE]
               /\ state' = [state EXCEPT ![q] =
                              IF @ = "SLEEPING" THEN "RUNNABLE" ELSE @]
  /\ Goto(p, "return")
  /\ UNCHANGED <<pid, parent, locks, oncpu, k, np, sh>>
-----------------------------------------------------------------------------
(* What p's thread does in the kernel between two switches. *)
Kernel(p) ==
  \/ Return(p)
  \/ ForkFails(p) \/ Fork(p) \/ ForkParent(p) \/ ForkRun(p)
  \/ InitExits(p) \/ ExitReparent(p) \/ ExitWakeup(p) \/ ExitZombie(p)
  \/ WaitLock(p) \/ WaitReap(p) \/ WaitFails(p) \/ WaitNothing(p)
  \/ WaitSleep(p) \/ Kill(p)

Next ==
  \E p \in Slots :
    Dispatch(p) \/ Sched(p) \/ Yield(p) \/ UserTrap(p) \/ Kernel(p)

Spec == Init /\ [][Next]_vars

(* Timer interrupts and the round robin of scheduler() let every runnable  *)
(* process run again and again, for longer than one step; a CPU that spins *)
(* on wait_lock gets it once it is free often enough; init never stops     *)
(* making system calls.                                                    *)
FairSpec ==
  /\ Spec
  /\ \A p \in Slots : /\ SF_vars(Dispatch(p)) /\ WF_vars(Yield(p))
                     /\ WF_vars(Sched(p)) /\ SF_vars(Kernel(p))
  /\ SF_vars(UserTrap(initproc))
-----------------------------------------------------------------------------
(* "make sure the child isn't still in exit() or swtch()": a kernel stack  *)
(* that a CPU is using belongs to a RUNNING process or to one whose lock   *)
(* is held, so neither wait nor the scheduler of another CPU can take it.  *)
StackInUse ==
  \A p \in Slots :
    /\ p \in oncpu <=> state[p] = "RUNNING" \/ lock[p]
    /\ p \in oncpu => state[p] \notin {"UNUSED", "USED"}

(* A parent is a live process: children of an exiting process are init's   *)
(* before it is a ZOMBIE, and only init is without a parent.  And init's   *)
(* wait finds a child whatever others fork, exit and leave to it, so that  *)
(* (but for a kill) only a failing fork ends init, in panic.               *)
LiveParent ==
  /\ \A p \in Slots :
       /\ parent[p] # NoProc => state[parent[p]] \notin {"UNUSED", "USED", "ZOMBIE"}
       /\ parent[p] = NoProc => p = initproc \/ state[p] \in {"UNUSED", "USED"}
  /\ pc[initproc] = "wait scan" => Children(initproc) # {}

(* No wakeup is lost: nobody sleeps in wait while a child is a ZOMBIE, not *)
(* even init when it inherits one.                                         *)
NoMissedZombie == \A p \in Slots : state[p] = "SLEEPING" => Zombies(p) = {}

(* kill() of a process that is being reaped does not reach the next one in *)
(* its slot: an unused slot is not killed, so no process is born killed.   *)
(* (kill(0) is another matter: it finds the unused slots themselves.)      *)
BornAlive == \A p \in Slots : state[p] = "UNUSED" => ~killed[p]

(* A zombie that init has for a child is reaped, unless init could not     *)
(* fork a shell and has panicked, or finds zombies in lower slots for      *)
(* ever: wait scans the table from its start each time.                    *)
OrphansReaped ==
  \A p \in Slots :
    <>[](pc[initproc] # "panic" /\ state[p] = "ZOMBIE" /\ parent[p] = initproc)
      => []<>(\E q \in Zombies(initproc) : q < p)
=============================================================================
