-------------------------------- MODULE Ticks --------------------------------
(***************************************************************************)
(* The clock: clockintr on CPU 0 counts ticks and wakes everybody who      *)
(* sleeps on them, sys_sleep waits for a number of them.  Both hold        *)
(* tickslock, which sleep releases; kill() takes no lock.                  *)
(*                                                                         *)
(* ticks is a 32-bit number in the code, and a number modulo TICKMOD here; *)
(* the subtraction in sys_sleep and the conversion of n for the comparison *)
(* are modulo TICKMOD too.                                                 *)
(***************************************************************************)
EXTENDS Integers, FiniteSets

CONSTANTS
  Sleepers,     \* processes that call sleep
  TICKMOD,      \* 2^32
  Naps,         \* arguments of sleep, as int
  MaxLag        \* ticks a woken process may wait for a CPU: the scheduler
                \* goes round all processes, and every tick makes one yield

ASSUME TicksAssumption ==
  /\ TICKMOD \in Nat \ {0}
  /\ Naps \subseteq 0 .. TICKMOD - MaxLag - 1

VARIABLES
  ticks,
  nap           \* each process: pc, n, ticks0, killed; lag and passed are
                \* ghosts: ticks since it was woken, and since it called

tvars == <<ticks, nap>>

Awake(ret, killed) == [pc |-> "idle", n |-> 0, ticks0 |-> 0, killed |-> killed,
                       ret |-> ret, lag |-> 0, passed |-> 0]

TicksInit ==
  /\ ticks = TICKMOD - 1
  /\ nap = [p \in Sleepers |-> Awake(0, FALSE)]

-----------------------------------------------------------------------------
(* wakeup(&ticks); the ghosts of the calls in progress move on. *)
Tick(s) ==
  IF s.pc = "idle" THEN s
  ELSE [s EXCEPT !.passed = @ + 1,
                 !.lag = IF s.pc = "asleep" THEN 1 ELSE @ + 1,
                 !.pc = IF @ = "asleep" THEN "test" ELSE @]

Clockintr ==
  /\ \A p \in Sleepers : nap[p].pc = "idle" \/ nap[p].lag < MaxLag
  /\ \A p \in Sleepers : nap[p].pc # "locked"     \* tickslock is free
  /\ ticks' = (ticks + 1) % TICKMOD
  /\ nap' = [p \in Sleepers |-> Tick(nap[p])]

(* Mutant: compares without the subtraction. *)
EarlyAbsolute(s) == ticks < (s.ticks0 + s.n) % TICKMOD

(* ticks - ticks0 < n *)
Early(s) == (ticks - s.ticks0) % TICKMOD < s.n % TICKMOD

(* The loop's test, with tickslock; killed() is looked at before sleep(). *)
Tested(s) ==
  IF ~ Early(s) THEN Awake(0, s.killed)
  ELSE IF s.killed THEN Awake(-1, TRUE)
  ELSE [s EXCEPT !.pc = "locked"]

(* sys_sleep holds tickslock from the look at ticks to the first test. *)
SysSleep(p) == \E n \in Naps :
  /\ nap[p].pc = "idle" /\ ~ nap[p].killed
  /\ \A q \in Sleepers : nap[q].pc # "locked"
  /\ nap' = [nap EXCEPT ![p] = Tested([@ EXCEPT !.n = n, !.ticks0 = ticks,
                                               !.lag = 0, !.passed = 0])]
  /\ UNCHANGED ticks

(* sleep() returns, with tickslock, to the next test. *)
SleepTest(p) ==
  /\ nap[p].pc = "test"
  /\ \A q \in Sleepers : nap[q].pc # "locked"
  /\ nap' = [nap EXCEPT ![p] = Tested(@)]
  /\ UNCHANGED ticks

(* sleep(&ticks, &tickslock) *)
SleepWait(p) ==
  /\ nap[p].pc = "locked"
  /\ nap' = [nap EXCEPT ![p].pc = "asleep", ![p].lag = 0]
  /\ UNCHANGED ticks

KillSleeper(p) ==
  /\ ~ nap[p].killed /\ nap[p].pc # "idle"
  /\ nap' = [nap EXCEPT ![p].killed = TRUE,
                        ![p].pc = IF @ = "asleep" THEN "test" ELSE @]
  /\ UNCHANGED ticks

TicksNext ==
  \/ Clockintr
  \/ \E p \in Sleepers :
       SysSleep(p) \/ SleepTest(p) \/ SleepWait(p) \/ KillSleeper(p)

(* Time goes on, and processes that can run do. *)
TicksFairness ==
  /\ WF_tvars(Clockintr)
  /\ \A p \in Sleepers : WF_tvars(SleepTest(p) \/ SleepWait(p))

TicksSpec == TicksInit /\ [][TicksNext]_tvars /\ TicksFairness

-----------------------------------------------------------------------------
(* Properties *)

(* sleep(n) returns 0 after at least n ticks, and no later than the        *)
(* process gets a CPU after the n-th, also when ticks wraps around between *)
(* the call and the return.                                                *)
SleepsExactly ==
  [][\A p \in Sleepers : nap[p].pc # "idle" /\ nap'[p].pc = "idle" =>
       /\ nap[p].passed <= nap[p].n + MaxLag
       /\ IF nap'[p].ret = 0 THEN nap[p].n <= nap[p].passed
                             ELSE nap[p].killed]_tvars

(* Every call of sleep returns, also that of a process killed between its  *)
(* test of killed and its sleep: it does not miss the tick that ends it.   *)
SleepReturns ==
  \A p \in Sleepers : []<>(nap[p].pc = "idle")

=============================================================================
