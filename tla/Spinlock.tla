------------------------------ MODULE Spinlock ------------------------------
(***************************************************************************)
(* Spinlocks and interrupts: acquire, release, push_off and pop_off of     *)
(* spinlock.c, with what makes them hard: interrupt handlers that take     *)
(* locks, and kernel threads that sched() moves from one CPU to another.   *)
(*                                                                         *)
(* A context (a kernel thread, or the scheduler of a CPU) has a list of    *)
(* instructions still to execute; an interrupt puts the handler's in       *)
(* front.  Between any two instructions of a CPU other CPUs run, and while *)
(* interrupts are on the CPU itself may be interrupted.  What a lock       *)
(* protects is left out, and so is why a thread sleeps: somebody wakes it  *)
(* at once, so it is RUNNABLE when the code has made it SLEEPING.          *)
(***************************************************************************)
EXTENDS Integers, FiniteSets, Sequences, SequencesExt

CONSTANTS
  CPUs, KThreads

VARIABLES
  cpu,          \* noff, intena, ie (interrupts enabled), run (the context)
  locked,       \* lk->locked and lk->cpu as the CPU it names, 0 for none
  todo,         \* each context's instructions
  runnable,     \* threads whose p->state is RUNNABLE; the others' is RUNNING
  spanic

svars == <<cpu, locked, todo, runnable, spanic>>

Contexts == KThreads \cup CPUs         \* a CPU's name is its scheduler's too
PLock(t) == <<"p->lock", t>>
Device == <<"device">>                 \* a lock that handlers take
Other == <<"other">>                   \* a lock held when Device is acquired
Locks == {PLock(t) : t \in KThreads} \cup {Device, Other}

(* acquire(lk) and release(lk) as instructions. *)
Acquire(l) == <<<<"intr_get">>, <<"swap", l>>>>
Release(l) == <<<<"release", l>>>>

Yield(t) == Acquire(PLock(t)) \o <<<<"ready">>, <<"sched">>>> \o Release(PLock(t))
Sleep(t, l) == Acquire(PLock(t)) \o Release(l) \o <<<<"ready">>, <<"sched">>>>
               \o Release(PLock(t)) \o Acquire(l)

(* kerneltrap: a device's handler, or the timer's, which yields if it has  *)
(* interrupted a thread that is RUNNING.                                   *)
DeviceTrap == Acquire(Device) \o Release(Device) \o <<<<"sret">>>>
TimerTrap(x) == (IF x \in KThreads \ runnable THEN Yield(x) ELSE <<>>)
                \o <<<<"sret">>>>

(* What a thread does in the kernel with interrupts on. *)
Work(t) ==
  {Acquire(Other) \o Acquire(Device) \o Release(Device) \o Release(Other),
   Acquire(Device) \o Sleep(t, Device) \o Release(Device)}

(* scheduler(): one turn of its loops, for a thread it finds RUNNABLE. *)
Dispatch(t) == Acquire(PLock(t)) \o <<<<"swtch", t>>>> \o Release(PLock(t))

(* Every CPU enters scheduler() with interrupts off.  A new thread starts  *)
(* in forkret and goes to user space, from where a system call enters the  *)
(* kernel and turns interrupts on.                                         *)
SpinInit ==
  /\ cpu = [c \in CPUs |-> [noff |-> 0, intena |-> FALSE, ie |-> FALSE, run |-> c]]
  /\ locked = [l \in Locks |-> 0]
  /\ todo = [x \in Contexts |-> IF x \in CPUs THEN <<<<"intr_on">>>>
                                ELSE Append(Release(PLock(x)), <<"intr_on">>)]
  /\ runnable = KThreads
  /\ spanic = ""

-----------------------------------------------------------------------------
Running(c) == cpu[c].run
Does(c, what) == /\ spanic = ""
                 /\ todo[Running(c)] # <<>>
                 /\ todo[Running(c)][1][1] = what
Arg(c) == todo[Running(c)][1][2]
Continue(c, more) == todo' = [todo EXCEPT ![Running(c)] = more \o Tail(@)]

(* push_off, of a struct cpu, after intr_get() returned old. *)
PushedOff(c, old) ==
  [c EXCEPT !.ie = FALSE, !.noff = @ + 1, !.intena = IF c.noff = 0 THEN old ELSE @]

(* acquire() begins: an interrupt may come after intr_get if they are on. *)
IntrGet(c) ==
  /\ Does(c, "intr_get")
  /\ \/ /\ cpu[c].ie
        /\ Continue(c, <<<<"push_off", TRUE>>>>)
        /\ UNCHANGED cpu
     \/ /\ ~ cpu[c].ie
        /\ Continue(c, <<>>)
        /\ cpu' = [cpu EXCEPT ![c] = PushedOff(@, FALSE)]
  /\ UNCHANGED <<locked, runnable, spanic>>

PushOff(c) ==
  /\ Does(c, "push_off")
  /\ cpu' = [cpu EXCEPT ![c] = PushedOff(@, Arg(c))]
  /\ Continue(c, <<>>)
  /\ UNCHANGED <<locked, runnable, spanic>>

(* The rest of acquire: panic if this CPU holds the lock, else spin. *)
Swap(c) ==
  /\ Does(c, "swap")
  /\ \/ locked[Arg(c)] = c /\ spanic' = "acquire" /\ UNCHANGED <<locked, todo>>
     \/ /\ locked[Arg(c)] = 0
        /\ locked' = [locked EXCEPT ![Arg(c)] = c]
        /\ Continue(c, <<>>)
        /\ UNCHANGED spanic
  /\ UNCHANGED <<cpu, runnable>>

(* Mutant: turns interrupts on as soon as one lock is released. *)
PoppedOffEarly(c) == [c EXCEPT !.noff = @ - 1, !.ie = c.intena]

(* pop_off, of a struct cpu. *)
PoppedOff(c) == [c EXCEPT !.noff = @ - 1, !.ie = c.noff = 1 /\ c.intena]

(* release(), whose pop_off touches nothing but the CPU's own state. *)
ReleaseLock(c) ==
  /\ Does(c, "release")
  /\ spanic' = CASE locked[Arg(c)] # c -> "release"
                 [] cpu[c].ie       -> "pop_off - interruptible"
                 [] cpu[c].noff < 1 -> "pop_off"
                 [] OTHER           -> ""
  /\ locked' = [locked EXCEPT ![Arg(c)] = 0]
  /\ cpu' = [cpu EXCEPT ![c] = PoppedOff(@)]
  /\ Continue(c, <<>>)
  /\ UNCHANGED runnable

(* The new state of a thread that gives up its CPU, set with p->lock. *)
Ready(c) ==
  /\ Does(c, "ready")
  /\ runnable' = runnable \cup {Running(c)}
  /\ Continue(c, <<>>)
  /\ UNCHANGED <<cpu, locked, spanic>>

(* Mutant: does not keep intena for the thread. *)
SchedForgets(c) ==
  /\ Does(c, "sched")
  /\ cpu' = [cpu EXCEPT ![c].run = c]
  /\ Continue(c, <<>>)
  /\ UNCHANGED <<locked, runnable, spanic>>

(* sched: its checks, then swtch to the CPU's scheduler.  The thread keeps *)
(* intena, and sets it on the CPU where it goes on.                        *)
Sched(c) ==
  /\ Does(c, "sched")
  /\ spanic' = CASE locked[PLock(Running(c))] # c -> "sched p->lock"
                 [] cpu[c].noff # 1 -> "sched locks"
                 [] Running(c) \notin runnable -> "sched running"
                 [] cpu[c].ie       -> "sched interruptible"
                 [] OTHER           -> ""
  /\ cpu' = [cpu EXCEPT ![c].run = c]
  /\ Continue(c, <<<<"intena", cpu[c].intena>>>>)
  /\ UNCHANGED <<locked, runnable>>

Intena(c) ==
  /\ Does(c, "intena")
  /\ cpu' = [cpu EXCEPT ![c].intena = Arg(c)]
  /\ Continue(c, <<>>)
  /\ UNCHANGED <<locked, runnable, spanic>>

(* The scheduler's next turn.  It turns interrupts on when it starts over, *)
(* not in between: they may still be off from the thread before.           *)
Schedule(c) == \E t \in KThreads, over \in BOOLEAN :
  /\ spanic = ""
  /\ Running(c) = c /\ todo[c] = <<>>
  /\ todo' = [todo EXCEPT ![c] = (IF over THEN <<<<"intr_on">>>> ELSE <<>>) \o Dispatch(t)]
  /\ UNCHANGED <<cpu, locked, runnable, spanic>>

IntrOn(c) ==
  /\ Does(c, "intr_on")
  /\ cpu' = [cpu EXCEPT ![c].ie = TRUE]
  /\ Continue(c, <<>>)
  /\ UNCHANGED <<locked, runnable, spanic>>

Swtch(c) ==
  /\ Does(c, "swtch")
  /\ Continue(c, <<>>)
  /\ \/ /\ Arg(c) \in runnable
        /\ runnable' = runnable \ {Arg(c)}
        /\ cpu' = [cpu EXCEPT ![c].run = Arg(c)]
     \/ /\ Arg(c) \notin runnable
        /\ UNCHANGED <<runnable, cpu>>
  /\ UNCHANGED <<locked, spanic>>

(* A thread that has nothing to do in the kernel starts something. *)
StartWork(c) == \E w \in Work(Running(c)) :
  /\ spanic = ""
  /\ Running(c) \in KThreads /\ todo[Running(c)] = <<>>
  /\ todo' = [todo EXCEPT ![Running(c)] = w]
  /\ UNCHANGED <<cpu, locked, runnable, spanic>>

(* An interrupt, while they are enabled: the hardware disables them, and   *)
(* sret puts back what was there.                                          *)
Trap(c) == \E handler \in {DeviceTrap, TimerTrap(Running(c))} :
  /\ spanic = "" /\ cpu[c].ie
  /\ cpu' = [cpu EXCEPT ![c].ie = FALSE]
  /\ todo' = [todo EXCEPT ![Running(c)] = handler \o @]
  /\ UNCHANGED <<locked, runnable, spanic>>

Sret(c) ==
  /\ Does(c, "sret")
  /\ cpu' = [cpu EXCEPT ![c].ie = TRUE]
  /\ Continue(c, <<>>)
  /\ UNCHANGED <<locked, runnable, spanic>>

SpinNext == \E c \in CPUs :
  \/ IntrGet(c)
  \/ PushOff(c)
  \/ Swap(c)
  \/ ReleaseLock(c)
  \/ Ready(c)
  \/ Sched(c)
  \/ Intena(c)
  \/ Schedule(c)
  \/ IntrOn(c)
  \/ Swtch(c)
  \/ StartWork(c)
  \/ Trap(c)
  \/ Sret(c)

SpinSpec == SpinInit /\ [][SpinNext]_svars

-----------------------------------------------------------------------------
(* Properties *)

(* While a CPU holds a spinlock its interrupts are off, and noff counts    *)
(* the locks it holds and the one it is waiting for, although threads come *)
(* and go with locks held.  So acquire, release, pop_off and sched reach   *)
(* none of their panics: no handler waits for a lock that the code it has  *)
(* interrupted holds.                                                      *)
NoInterruptWhileLocked ==
  /\ spanic = ""
  /\ \A c \in CPUs :
       LET held == {l \in Locks : locked[l] = c}
           x == todo[Running(c)]
           pending == IF x # <<>> /\ x[1][1] = "swap" THEN 1 ELSE 0
       IN  /\ held # {} => ~ cpu[c].ie
           /\ cpu[c].noff = Cardinality(held) + pending

(* intena belongs to the thread: when the last lock is released interrupts *)
(* are as they were when the first was taken, on whatever CPU that is: on  *)
(* in a system call, off in a handler that yielded.                        *)
InterruptsRestored == spanic = "" =>
  \A c \in CPUs :
    LET x == todo[Running(c)]
    IN  Running(c) \in KThreads /\ cpu[c].noff = 0 /\ ~ Contains(x, <<"intr_on">>) =>
          (cpu[c].ie <=> ~ Contains(x, <<"sret">>))

=============================================================================
