----------------------------- MODULE ProcProofs -----------------------------
(***************************************************************************)
(* Proofs about Proc, for a process table of any size and any number of    *)
(* processors.                                                             *)
(***************************************************************************)
EXTENDS Proc, FiniteSetTheorems, WellFoundedInduction, TLAPS

States == {"UNUSED", "USED", "SLEEPING", "RUNNABLE", "RUNNING", "ZOMBIE"}

(* Where a thread is while it holds wait_lock, and where else it can be. *)
Holding == {"wait scan", "wait sleep", "exit wakeup", "exit zombie"}
Places == {"user", "return", "fork", "fork parent", "fork run", "exit",
           "wait", "kill", "zombie exit", "panic"}

TypeOK ==
  /\ state \in [Slots -> States]
  /\ pid \in [Slots -> Nat]
  /\ parent \in [Slots -> Slots \cup {NoProc}]
  /\ killed \in [Slots -> BOOLEAN]
  /\ lock \in [Slots -> BOOLEAN]
  /\ wait_lock \in Slots \cup {NoProc}
  /\ oncpu \in SUBSET Slots
  /\ pc \in [Slots -> Places \cup Holding \cup {"sched"}]
  /\ k \in [Slots -> Places]
  /\ np \in [Slots -> Slots \cup {NoProc}]
  /\ sh \in Nat

(* Where p is, or goes on when it is dispatched again. *)
Place(p) == IF pc[p] = "sched" THEN k[p] ELSE pc[p]

(* p->lock is held across a switch exactly from the change of state to the *)
(* end of sched().                                                         *)
Stacks ==
  \A p \in Slots :
    /\ lock[p] <=> pc[p] = "sched"
    /\ lock[p] => state[p] \in {"RUNNABLE", "SLEEPING", "ZOMBIE"}
    /\ p \in oncpu <=> state[p] = "RUNNING" \/ lock[p]

(* What the state of a process says of its thread, and the other way       *)
(* round.                                                                  *)
Threads ==
  \A p \in Slots :
    /\ state[p] \in {"UNUSED", "USED"} => pc[p] = "user"
    /\ state[p] = "SLEEPING" => Place(p) = "wait"
    /\ state[p] = "ZOMBIE" <=> Place(p) = "zombie exit"
    /\ wait_lock = p <=> pc[p] \in Holding

(* Between allocproc and the end of fork the child is USED and belongs to  *)
(* one parent.                                                             *)
Forking(p) == Place(p) \in {"fork parent", "fork run"}

Forks ==
  \A p \in Slots :
    Forking(p) =>
      /\ np[p] \in Slots /\ state[np[p]] = "USED"
      /\ Place(p) = "fork run" => parent[np[p]] = p
      /\ \A q \in Slots : Forking(q) /\ np[q] = np[p] => q = p

Dead == {"UNUSED", "USED", "ZOMBIE"}

(* init is always there; an exiting process has no children any more.      *)
Families ==
  /\ state[initproc] \notin Dead
  /\ \A p \in Slots :
       /\ parent[p] # NoProc => state[parent[p]] \notin Dead
       /\ parent[p] = NoProc => p = initproc \/ state[p] \in {"UNUSED", "USED"}
       /\ pc[p] \in {"exit wakeup", "exit zombie"} =>
            p # initproc /\ Children(p) = {}

(* wait_lock covers the scan and the step to sleep, and exit from reparent *)
(* to ZOMBIE.                                                              *)
Wakeups ==
  /\ NoMissedZombie
  /\ \A p \in Slots :
       /\ pc[p] = "wait sleep" => Zombies(p) = {}
       /\ pc[p] = "exit zombie" /\ parent[p] # NoProc =>
            state[parent[p]] # "SLEEPING"

Pids ==
  \A p \in Slots : pid[p] = IF state[p] = "UNUSED" THEN 0 ELSE p

IInv == TypeOK /\ Stacks /\ Threads /\ Forks /\ Families /\ Wakeups /\ Pids

(* The shell that init waits for is its child: init forks only when it has *)
(* none, and waits only when it has one.                                   *)
Shell ==
  /\ Place(initproc) \notin {"kill", "zombie exit"}
  /\ Forking(initproc) \/ Place(initproc) = "fork" => sh = 0
  /\ sh = 0 => Place(initproc) \notin {"wait", "wait scan", "wait sleep"}
  /\ sh # 0 => /\ sh \in Slots /\ state[sh] \notin {"UNUSED", "USED"}
               /\ parent[sh] = initproc
-----------------------------------------------------------------------------
(* A scan of the table stops at the first slot of a set that is not empty. *)
LEMMA FirstIn ==
  ASSUME NEW S, S \subseteq Slots, S # {}
  PROVE  First(S) \in S /\ \A q \in S : First(S) <= q
<1>1. S \subseteq Nat
  BY ProcAssumption DEF Slots
<1> DEFINE below == {s \in Nat \X Nat : s[1] < s[2]}
<1>2. IsWellFoundedOn(below, Nat)
  BY NatLessThanWellFounded DEF OpToRel
<1>3. PICK m \in S : \A q \in S : ~(<<q, m>> \in below)
  BY <1>1, <1>2, WFMin, ZenonT(60)
<1>4. \A q \in S : ~(q < m)
  BY <1>1, <1>3, ZenonT(60)
<1>5. \A q \in S : m <= q
  BY <1>1, <1>4
<1> QED
  BY <1>5, Zenon DEF First

(* wait frees the slot of a child that is a ZOMBIE and has left its stack. *)
LEMMA Reaped ==
  ASSUME TypeOK, Stacks, Threads, NEW p \in Slots, WaitReap(p)
  PROVE  /\ First(Zombies(p)) \in Slots \ {p}
         /\ First(Zombies(p)) \notin oncpu
         /\ parent[First(Zombies(p))] = p
         /\ state[First(Zombies(p))] = "ZOMBIE"
         /\ pc[First(Zombies(p))] = "zombie exit"
<1> DEFINE q == First(Zombies(p))
<1>1. q \in Zombies(p)
  <2>1. Zombies(p) \subseteq Slots /\ Zombies(p) # {}
    BY Zenon DEF Zombies, Children, WaitReap
  <2> QED
    BY <2>1, FirstIn, Zenon
<1>2. q \in Slots /\ q \in Nat /\ parent[q] = p /\ state[q] = "ZOMBIE"
  BY <1>1, ProcAssumption DEF Zombies, Children, Slots
<1>3. \A r \in Children(p) : lock[r] => r > q
  BY Zenon DEF WaitReap, Scanned
<1> HIDE DEF q
<1>4. ~lock[q]
  <2>1. q \in Children(p) /\ ~(q > q)
    BY <1>2 DEF Children
  <2> QED
    BY <1>3, <2>1, Zenon
<1>5. q \notin oncpu /\ pc[q] = "zombie exit"
  BY <1>2, <1>4, Zenon DEF Stacks, Threads, Place
<1>6. q # p
  BY <1>5, Zenon DEF WaitReap, At
<1> QED
  BY <1>2, <1>5, <1>6, Zenon DEF q

(* wakeup makes at most one process RUNNABLE, which was SLEEPING and whose *)
(* lock is free.                                                           *)
Woke(q) ==
  /\ state' \in [Slots -> States]
  /\ \A r \in Slots :
       state'[r] = IF r = q /\ state[r] = "SLEEPING" THEN "RUNNABLE" ELSE state[r]
  /\ q \in Slots => ~lock[q]

LEMMA WakeupWoke ==
  ASSUME TypeOK, NEW q, Wakeup(q)
  PROVE  Woke(q)
<1>1. state' \in [Slots -> States]
  BY Zenon DEF Wakeup, TypeOK, States
<1> QED
  BY <1>1, ProcAssumption DEF Wakeup, Woke, Slots, NoProc

(* exit of a process other than init gives its children to init and wakes  *)
(* init when there are any.                                                *)
LEMMA Reparented ==
  ASSUME TypeOK, NEW p \in Slots, ExitReparent(p)
  PROVE  /\ p # initproc /\ p \in oncpu /\ pc[p] = "exit"
         /\ wait_lock = NoProc /\ wait_lock' = p
         /\ parent' = [q \in Slots |-> IF parent[q] = p THEN initproc ELSE parent[q]]
         /\ \/ state' = state /\ Children(p) = {}
            \/ Woke(initproc)
         /\ pc' = [pc EXCEPT ![p] = "exit wakeup"]
         /\ UNCHANGED <<pid, killed, lock, oncpu, k, np, sh>>
<1>1. \/ state' = state /\ Children(p) = {}
      \/ Wakeup(initproc)
  BY Zenon DEF ExitReparent
<1> QED
  BY <1>1, WakeupWoke, Zenon DEF ExitReparent, At, Goto

LEMMA InitTypeOK == Init => TypeOK
<1> SUFFICES ASSUME Init PROVE TypeOK
  BY Zenon
<1>1. state \in [Slots -> States] /\ pid \in [Slots -> Nat]
  BY Zenon DEF Init, States
<1>2. /\ pc \in [Slots -> Places \cup Holding \cup {"sched"}]
      /\ k \in [Slots -> Places]
  BY DEF Init, Places
<1> QED
  BY <1>1, <1>2, Zenon DEF Init, TypeOK

LEMMA NextTypeOK == TypeOK /\ Stacks /\ Threads /\ Forks /\ [Next]_vars => TypeOK'
<1> SUFFICES ASSUME TypeOK, Stacks, Threads, Forks, [Next]_vars PROVE TypeOK'
  BY Zenon
<1> USE DEF table, locks, Goto
<1>0. initproc \in Slots /\ Slots \subseteq Nat
  BY ProcAssumption DEF Slots, initproc
<1>1. ASSUME NEW p \in Slots, Dispatch(p) PROVE TypeOK'
  BY <1>1, Zenon DEF Dispatch, TypeOK, States
<1>2. ASSUME NEW p \in Slots, Sched(p) PROVE TypeOK'
  BY <1>2, Zenon DEF Sched, TypeOK, Places
<1>3. ASSUME NEW p \in Slots, Yield(p) PROVE TypeOK'
  <2>1. pc[p] \in Places
    BY <1>3, Zenon DEF Yield, EnterSched, TypeOK, Stacks, Threads
  <2> QED
    BY <1>3, <2>1, Zenon DEF Yield, EnterSched, TypeOK, States
<1>4. ASSUME NEW p \in Slots, UserTrap(p) PROVE TypeOK'
  <2>1. \E a \in Places : pc' = [pc EXCEPT ![p] = a]
    BY <1>4, Zenon DEF UserTrap, Calls, Places
  <2> QED
    BY <1>4, <2>1 DEF UserTrap, TypeOK
<1>5. ASSUME NEW p \in Slots, Return(p) \/ InitExits(p) PROVE TypeOK'
  BY <1>5, Zenon DEF Return, InitExits, TypeOK, Places
<1>6. ASSUME NEW p \in Slots, ForkFails(p) PROVE TypeOK'
  BY <1>6, Zenon DEF ForkFails, TypeOK, Places
<1>7. ASSUME NEW p \in Slots, Fork(p) PROVE TypeOK'
  <2>1. PICK q \in Slots : /\ np' = [np EXCEPT ![p] = q]
                           /\ pid' = [pid EXCEPT ![q] = q]
                           /\ state' = [state EXCEPT ![q] = "USED"]
                           /\ Goto(p, "fork parent")
    BY <1>7, Zenon DEF Fork, Unused, allocpid
  <2>2. np' \in [Slots -> Slots \cup {NoProc}] /\ pid' \in [Slots -> Nat]
    BY <1>0, <2>1, Zenon DEF TypeOK
  <2>3. /\ state' \in [Slots -> States]
        /\ pc' \in [Slots -> Places \cup Holding \cup {"sched"}]
    BY <2>1, Zenon DEF TypeOK, States, Places
  <2> QED
    BY <1>7, <2>2, <2>3, Zenon DEF Fork, TypeOK
<1>8. ASSUME NEW p \in Slots, ForkParent(p) PROVE TypeOK'
  BY <1>8, Zenon DEF ForkParent, TypeOK, Places
<1>9. ASSUME NEW p \in Slots, ForkRun(p) PROVE TypeOK'
  <2>1. np[p] \in Slots
    BY <1>9, Zenon DEF ForkRun, At, Forks, Forking, Place
  <2>2. sh' \in Nat
    BY <1>9, <2>1, Zenon DEF ForkRun, TypeOK
  <2> QED
    BY <1>9, <2>1, <2>2, Zenon DEF ForkRun, TypeOK, Places, States
<1>10. ASSUME NEW p \in Slots, ExitReparent(p) PROVE TypeOK'
  <2>0. p # initproc
    BY <1>10, Reparented, Zenon
  <2>1. parent' \in [Slots -> Slots \cup {NoProc}]
    <3>1. parent' = [q \in Slots |-> IF parent[q] = p THEN initproc ELSE parent[q]]
      BY <1>10, Reparented, Zenon
    <3> QED
      BY <1>0, <3>1, Zenon DEF TypeOK
  <2>2. state' \in [Slots -> States]
    BY <1>10, Reparented, Zenon DEF Woke, TypeOK
  <2> QED
    BY <1>10, <2>0, <2>1, <2>2, Reparented DEF TypeOK, Holding
<1>11. ASSUME NEW p \in Slots, ExitWakeup(p) PROVE TypeOK'
  BY <1>11, Zenon DEF ExitWakeup, Wakeup, TypeOK, States, Holding
<1>12. ASSUME NEW p \in Slots, ExitZombie(p) PROVE TypeOK'
  BY <1>12, Zenon DEF ExitZombie, EnterSched, TypeOK, States, Places
<1>13. ASSUME NEW p \in Slots, WaitLock(p) PROVE TypeOK'
  BY <1>13, Zenon DEF WaitLock, TypeOK, Holding
<1>14. ASSUME NEW p \in Slots, WaitReap(p) PROVE TypeOK'
  BY <1>14, Reaped, Zenon DEF WaitReap, TypeOK, States, Places
<1>15. ASSUME NEW p \in Slots, WaitFails(p) PROVE TypeOK'
  BY <1>15, Zenon DEF WaitFails, TypeOK, Places
<1>16. ASSUME NEW p \in Slots, WaitNothing(p) PROVE TypeOK'
  BY <1>16, Zenon DEF WaitNothing, TypeOK, Holding
<1>17. ASSUME NEW p \in Slots, WaitSleep(p) PROVE TypeOK'
  BY <1>17, Zenon DEF WaitSleep, EnterSched, TypeOK, States, Places
<1>18. ASSUME NEW p \in Slots, Kill(p) PROVE TypeOK'
  <2>1. state' \in [Slots -> States]
    <3>1. \/ state' = state
          \/ \E q : state' = [state EXCEPT ![q] = IF @ = "SLEEPING"
                                                  THEN "RUNNABLE" ELSE @]
      BY <1>18, Zenon DEF Kill
    <3> QED
      BY <3>1 DEF TypeOK, States
  <2>2. killed' \in [Slots -> BOOLEAN]
    BY <1>18, Zenon DEF Kill, TypeOK
  <2> QED
    BY <1>18, <2>1, <2>2, Zenon DEF Kill, TypeOK, Places
<1>19. CASE UNCHANGED vars
  BY <1>19 DEF vars, TypeOK
<1> QED
  BY <1>1, <1>2, <1>3, <1>4, <1>5, <1>6, <1>7, <1>8, <1>9, <1>10, <1>11,
     <1>12, <1>13, <1>14, <1>15, <1>16, <1>17, <1>18, <1>19 DEF Next, Kernel

(* The calls that change neither the state of a process nor a lock. *)
Quiet(p) ==
  \/ UserTrap(p) \/ Return(p) \/ InitExits(p) \/ ForkFails(p) \/ ForkParent(p)
  \/ WaitLock(p) \/ WaitFails(p) \/ WaitNothing(p)

LEMMA NextStacks ==
  TypeOK /\ Stacks /\ Threads /\ Forks /\ [Next]_vars => Stacks'
<1> SUFFICES ASSUME TypeOK, Stacks, Threads, Forks, [Next]_vars PROVE Stacks'
  BY Zenon
<1> USE DEF table, locks, Goto, At
<1>1. ASSUME NEW p \in Slots, Dispatch(p) PROVE Stacks'
  BY <1>1, Zenon DEF Dispatch, Stacks, TypeOK
<1>2. ASSUME NEW p \in Slots, Sched(p) PROVE Stacks'
  <2>1. /\ lock' = [lock EXCEPT ![p] = FALSE] /\ oncpu' = oncpu \ {p}
        /\ pc' = [pc EXCEPT ![p] = k[p]] /\ state' = state
        /\ lock[p] /\ k[p] # "sched" /\ state[p] # "RUNNING"
    BY <1>2, Zenon DEF Sched, Stacks, TypeOK, Places
  <2> QED
    BY <2>1, Zenon DEF Stacks, TypeOK
<1>3. ASSUME NEW p \in Slots, Yield(p) PROVE Stacks'
  BY <1>3, Zenon DEF Yield, EnterSched, Stacks, TypeOK
<1>4. ASSUME NEW p \in Slots, Quiet(p) PROVE Stacks'
  <2>1. UNCHANGED <<state, lock, oncpu>>
    BY <1>4, Zenon DEF Quiet, UserTrap, Return, InitExits, ForkFails,
       ForkParent, WaitLock,
       WaitFails, WaitNothing
  <2>2. \E a \in Places \cup Holding : pc' = [pc EXCEPT ![p] = a]
    BY <1>4, Zenon DEF Quiet, UserTrap, Calls, Return, InitExits, ForkFails,
       ForkParent,
       WaitLock, WaitFails, WaitNothing, Places, Holding
  <2>3. pc[p] # "sched"
    BY <1>4, Zenon DEF Quiet, UserTrap, Return, InitExits, ForkFails,
       ForkParent, WaitLock,
       WaitFails, WaitNothing
  <2> QED
    BY <2>1, <2>2, <2>3 DEF Stacks, TypeOK, Places, Holding
<1>5. ASSUME NEW p \in Slots, Fork(p) PROVE Stacks'
  <2>1. PICK q \in Slots : /\ state[q] = "UNUSED"
                           /\ state' = [state EXCEPT ![q] = "USED"]
                           /\ pc' = [pc EXCEPT ![p] = "fork parent"]
    BY <1>5, Zenon DEF Fork, Unused
  <2>2. UNCHANGED <<lock, oncpu>> /\ pc[p] = "fork"
    BY <1>5, Zenon DEF Fork
  <2> QED
    BY <2>1, <2>2, Zenon DEF Stacks, TypeOK
<1>6. ASSUME NEW p \in Slots, ForkRun(p) PROVE Stacks'
  <2>1. np[p] \in Slots /\ state[np[p]] = "USED"
    BY <1>6, Zenon DEF ForkRun, Forks, Forking, Place
  <2> QED
    BY <1>6, <2>1 DEF ForkRun, Stacks, TypeOK
<1>7. ASSUME NEW p \in Slots, ExitReparent(p) PROVE Stacks'
  <2>1. /\ pc[p] = "exit" /\ pc' = [pc EXCEPT ![p] = "exit wakeup"]
        /\ state' = state \/ Woke(initproc)
        /\ UNCHANGED <<lock, oncpu>>
    BY <1>7, Reparented, Zenon
  <2> QED
    BY <2>1, Zenon DEF Stacks, Woke, TypeOK
<1>8. ASSUME NEW p \in Slots, ExitWakeup(p) PROVE Stacks'
  <2>1. Woke(parent[p])
    BY <1>8, WakeupWoke, Zenon DEF ExitWakeup
  <2> QED
    BY <1>8, <2>1 DEF ExitWakeup, Stacks, Woke, TypeOK
<1>9. ASSUME NEW p \in Slots, ExitZombie(p) PROVE Stacks'
  BY <1>9, Zenon DEF ExitZombie, EnterSched, Stacks, TypeOK
<1>10. ASSUME NEW p \in Slots, WaitReap(p) PROVE Stacks'
  <2> DEFINE q == First(Zombies(p))
  <2>1. /\ q \in Slots \ {p} /\ q \notin oncpu /\ pc[q] = "zombie exit"
        /\ state[q] = "ZOMBIE"
    BY <1>10, Reaped, Zenon
  <2>2. /\ state' = [state EXCEPT ![q] = "UNUSED"]
        /\ pc' = [pc EXCEPT ![p] = "return", ![q] = "user"]
        /\ UNCHANGED <<lock, oncpu>> /\ pc[p] = "wait scan"
    BY <1>10, Zenon DEF WaitReap
  <2> HIDE DEF q
  <2> QED
    BY <2>1, <2>2, Zenon DEF Stacks, TypeOK
<1>11. ASSUME NEW p \in Slots, WaitSleep(p) PROVE Stacks'
  BY <1>11, Zenon DEF WaitSleep, EnterSched, Stacks, TypeOK
<1>12. ASSUME NEW p \in Slots, Kill(p) PROVE Stacks'
  <2>1. \A q \in Slots : \/ state'[q] = state[q]
                         \/ /\ state[q] = "SLEEPING" /\ state'[q] = "RUNNABLE"
                            /\ ~lock[q]
    BY <1>12 DEF Kill, TypeOK
  <2> QED
    BY <1>12, <2>1, Zenon DEF Kill, Stacks, TypeOK
<1>13. CASE UNCHANGED vars
  BY <1>13, Zenon DEF vars, Stacks
<1> QED
  BY <1>1, <1>2, <1>3, <1>4, <1>5, <1>6, <1>7, <1>8, <1>9, <1>10, <1>11,
     <1>12, <1>13 DEF Next, Kernel, Quiet

LEMMA NextThreads ==
  TypeOK /\ Stacks /\ Threads /\ Forks /\ Families /\ [Next]_vars => Threads'
<1> SUFFICES ASSUME TypeOK, Stacks, Threads, Forks, Families, [Next]_vars
             PROVE  Threads'
  BY Zenon
<1> USE DEF table, locks, Goto, At
<1>0. NoProc \notin Slots
  BY ProcAssumption DEF Slots, NoProc
<1>1. ASSUME NEW p \in Slots, Dispatch(p) PROVE Threads'
  BY <1>1 DEF Dispatch, Threads, Place, TypeOK, Stacks
<1>2. ASSUME NEW p \in Slots, Sched(p) PROVE Threads'
  <2>1. /\ pc[p] = "sched" /\ pc' = [pc EXCEPT ![p] = k[p]]
        /\ k' = [k EXCEPT ![p] = "user"]
        /\ k[p] \in Places /\ UNCHANGED <<state, wait_lock>>
        /\ state[p] \notin {"UNUSED", "USED"}
    BY <1>2, Zenon DEF Sched, TypeOK, Stacks
  <2> QED
    BY <2>1 DEF Threads, Place, TypeOK, Places, Holding
<1>3. ASSUME NEW p \in Slots, Yield(p) PROVE Threads'
  <2>1. /\ pc[p] # "sched" /\ pc' = [pc EXCEPT ![p] = "sched"]
        /\ k' = [k EXCEPT ![p] = pc[p]] /\ state[p] = "RUNNING"
        /\ state' = [state EXCEPT ![p] = "RUNNABLE"]
        /\ wait_lock' = wait_lock /\ wait_lock # p
    BY <1>3, Zenon DEF Yield, EnterSched, Stacks
  <2> QED
    BY <2>1 DEF Threads, Place, TypeOK, Holding
<1>4. ASSUME NEW p \in Slots,
             \/ UserTrap(p) \/ Return(p) \/ InitExits(p) \/ ForkFails(p)
             \/ ForkParent(p) \/ Kill(p)
      PROVE  Threads'
  <2>1. /\ UNCHANGED <<wait_lock, k>> /\ p \in oncpu
        /\ pc[p] \in {"user", "return", "exit", "fork", "fork parent", "kill"}
    BY <1>4, Zenon DEF UserTrap, Return, InitExits, ForkFails, ForkParent, Kill
  <2>2. PICK a \in Places \ {"zombie exit"} : pc' = [pc EXCEPT ![p] = a]
    BY <1>4, Zenon DEF UserTrap, Calls, Return, InitExits, ForkFails,
       ForkParent, Kill, Places
  <2>3. \A q \in Slots : \/ state'[q] = state[q]
                         \/ state[q] = "SLEEPING" /\ state'[q] = "RUNNABLE"
    BY <1>4 DEF UserTrap, Return, InitExits, ForkFails, ForkParent, Kill, TypeOK
  <2>4. state[p] = "RUNNING"
    BY <2>1, Zenon DEF Stacks
  <2>5. /\ pc'[p] = a /\ a \notin Holding \cup {"sched", "zombie exit"}
        /\ \A q \in Slots \ {p} : pc'[q] = pc[q]
    BY <2>2, Zenon DEF TypeOK, Places, Holding
  <2> QED
    BY <2>1, <2>3, <2>4, <2>5 DEF Threads, Place, Holding
<1>5. ASSUME NEW p \in Slots, Fork(p) PROVE Threads'
  <2>1. PICK q \in Slots : /\ state[q] = "UNUSED"
                           /\ state' = [state EXCEPT ![q] = "USED"]
                           /\ pc' = [pc EXCEPT ![p] = "fork parent"]
    BY <1>5, Zenon DEF Fork, Unused
  <2>2. /\ UNCHANGED <<wait_lock, k>> /\ p \in oncpu /\ pc[p] = "fork"
    BY <1>5, Zenon DEF Fork
  <2>3. state[p] = "RUNNING"
    BY <2>2, Zenon DEF Stacks
  <2> QED
    BY <2>1, <2>2, <2>3 DEF Threads, Place, TypeOK, Holding
<1>6. ASSUME NEW p \in Slots, ForkRun(p) PROVE Threads'
  <2>1. /\ np[p] \in Slots /\ state[np[p]] = "USED"
        /\ state' = [state EXCEPT ![np[p]] = "RUNNABLE"]
        /\ pc' = [pc EXCEPT ![p] = "return"]
        /\ UNCHANGED <<wait_lock, k>> /\ p \in oncpu /\ pc[p] = "fork run"
    BY <1>6, Zenon DEF ForkRun, Forks, Forking, Place
  <2>2. state[p] = "RUNNING"
    BY <2>1, Zenon DEF Stacks
  <2> QED
    BY <2>1, <2>2 DEF Threads, Place, TypeOK, Holding
<1>7. ASSUME NEW p \in Slots, ExitReparent(p) PROVE Threads'
  <2>1. /\ pc[p] = "exit" /\ pc' = [pc EXCEPT ![p] = "exit wakeup"]
        /\ state' = state \/ Woke(initproc)
        /\ wait_lock = NoProc /\ wait_lock' = p /\ k' = k /\ p \in oncpu
    BY <1>7, Reparented, Zenon
  <2>2. state[p] = "RUNNING"
    BY <2>1, Zenon DEF Stacks
  <2> QED
    BY <1>0, <2>1, <2>2 DEF Threads, Place, Woke, TypeOK, Holding
<1>8. ASSUME NEW p \in Slots, ExitWakeup(p) PROVE Threads'
  <2>1. Woke(parent[p])
    BY <1>8, WakeupWoke, Zenon DEF ExitWakeup
  <2>2. /\ pc[p] = "exit wakeup" /\ pc' = [pc EXCEPT ![p] = "exit zombie"]
        /\ UNCHANGED <<wait_lock, k>> /\ state[p] = "RUNNING"
    BY <1>8, Zenon DEF ExitWakeup, Stacks
  <2> QED
    BY <2>1, <2>2 DEF Threads, Place, Woke, TypeOK, Holding
<1>9. ASSUME NEW p \in Slots, ExitZombie(p) PROVE Threads'
  <2>1. /\ pc[p] = "exit zombie" /\ pc' = [pc EXCEPT ![p] = "sched"]
        /\ k' = [k EXCEPT ![p] = "zombie exit"]
        /\ state' = [state EXCEPT ![p] = "ZOMBIE"] /\ wait_lock' = NoProc
    BY <1>9, Zenon DEF ExitZombie, EnterSched
  <2> QED
    BY <1>0, <2>1 DEF Threads, Place, TypeOK, Holding
<1>10. ASSUME NEW p \in Slots, WaitLock(p) \/ WaitFails(p) \/ WaitNothing(p)
       PROVE  Threads'
  <2>1. UNCHANGED <<state, k>> /\ p \in oncpu /\ pc[p] # "sched"
    BY <1>10 DEF WaitLock, WaitFails, WaitNothing
  <2>2. state[p] = "RUNNING"
    BY <2>1, Zenon DEF Stacks
  <2>3. CASE WaitLock(p)
    <3>1. /\ wait_lock = NoProc /\ wait_lock' = p
          /\ pc' = [pc EXCEPT ![p] = "wait scan"]
      BY <2>3 DEF WaitLock
    <3> QED
      BY <1>0, <2>1, <2>2, <3>1, Zenon DEF Threads, Place, TypeOK, Holding
  <2>4. CASE WaitFails(p)
    <3>1. /\ pc[p] = "wait scan" /\ wait_lock' = NoProc
          /\ \E a \in {"exit", "return"} : pc' = [pc EXCEPT ![p] = a]
      BY <2>4, Zenon DEF WaitFails
    <3> QED
      BY <1>0, <2>1, <2>2, <3>1 DEF Threads, Place, TypeOK, Holding
  <2>5. CASE WaitNothing(p)
    <3>1. /\ pc[p] = "wait scan" /\ wait_lock' = wait_lock
          /\ pc' = [pc EXCEPT ![p] = "wait sleep"]
      BY <2>5, Zenon DEF WaitNothing
    <3> QED
      BY <2>1, <2>2, <3>1 DEF Threads, Place, TypeOK, Holding
  <2> QED
    BY <1>10, <2>3, <2>4, <2>5, Zenon
<1>11. ASSUME NEW p \in Slots, WaitReap(p) PROVE Threads'
  <2> DEFINE q == First(Zombies(p))
  <2>1. /\ q \in Slots \ {p} /\ pc[q] = "zombie exit" /\ state[q] = "ZOMBIE"
    BY <1>11, Reaped, Zenon
  <2>2. /\ state' = [state EXCEPT ![q] = "UNUSED"]
        /\ pc' = [pc EXCEPT ![p] = "return", ![q] = "user"]
        /\ k' = k /\ wait_lock' = NoProc /\ pc[p] = "wait scan"
    BY <1>11, Zenon DEF WaitReap
  <2>3. state[p] = "RUNNING"
    BY <1>11, <2>2, Zenon DEF WaitReap, Stacks
  <2> HIDE DEF q
  <2> QED
    BY <1>0, <2>1, <2>2, <2>3 DEF Threads, Place, TypeOK, Holding
<1>12. ASSUME NEW p \in Slots, WaitSleep(p) PROVE Threads'
  <2>1. /\ pc[p] = "wait sleep" /\ pc' = [pc EXCEPT ![p] = "sched"]
        /\ k' = [k EXCEPT ![p] = "wait"]
        /\ state' = [state EXCEPT ![p] = "SLEEPING"] /\ wait_lock' = NoProc
    BY <1>12, Zenon DEF WaitSleep, EnterSched
  <2> QED
    BY <1>0, <2>1 DEF Threads, Place, TypeOK, Holding
<1>13. CASE UNCHANGED vars
  BY <1>13 DEF vars, Threads, Place
<1> QED
  BY <1>1, <1>2, <1>3, <1>4, <1>5, <1>6, <1>7, <1>8, <1>9, <1>10, <1>11,
     <1>12, <1>13 DEF Next, Kernel

(* The USED slot that fork works on stays its own until fork is done. *)
LEMMA NextForks ==
  TypeOK /\ Stacks /\ Threads /\ Forks /\ [Next]_vars => Forks'
<1> SUFFICES ASSUME TypeOK, Stacks, Threads, Forks, [Next]_vars PROVE Forks'
  OBVIOUS
<1> USE DEF table, locks, Goto, At
(* Steps that start no fork keep the ones under way as they are, if they   *)
(* leave the children alone.                                               *)
<1>1. ASSUME np' = np,
             \A p \in Slots : Forking(p)' => Forking(p) /\ Place(p)' = Place(p),
             \A p \in Slots : state[p] = "USED" => state'[p] = "USED",
             \A p, q \in Slots : /\ Place(p) = "fork run" /\ parent[q] = p
                                 /\ state[q] = "USED"
                                 => parent'[q] = p
      PROVE  Forks'
  <2> SUFFICES ASSUME NEW p \in Slots, Forking(p)'
               PROVE  /\ np[p] \in Slots /\ state'[np[p]] = "USED"
                      /\ Place(p)' = "fork run" => parent'[np[p]] = p
                      /\ \A q \in Slots : Forking(q)' /\ np[q] = np[p] => q = p
    BY <1>1, Zenon DEF Forks
  <2>1. /\ np[p] \in Slots /\ state[np[p]] = "USED"
        /\ Place(p) = "fork run" => parent[np[p]] = p
        /\ \A q \in Slots : Forking(q) /\ np[q] = np[p] => q = p
    BY <1>1 DEF Forks
  <2> HIDE DEF Forks
  <2> QED
    BY <1>1, <2>1, Zenon
<1>2. ASSUME NEW p \in Slots, Dispatch(p) PROVE Forks'
  <2>1. UNCHANGED <<np, pc, k, parent>>
    BY <1>2, Zenon DEF Dispatch
  <2>2. \A q \in Slots : state[q] = "USED" => state'[q] = "USED"
    BY <1>2 DEF Dispatch, TypeOK
  <2> QED
    BY <1>1, <2>1, <2>2, Zenon DEF Forking, Place
<1>3. ASSUME NEW p \in Slots, Sched(p) PROVE Forks'
  <2>1. /\ UNCHANGED <<np, state, parent>>
        /\ pc[p] = "sched" /\ pc' = [pc EXCEPT ![p] = k[p]]
        /\ k' = [k EXCEPT ![p] = "user"] /\ k[p] # "sched"
    BY <1>3, Zenon DEF Sched, TypeOK, Places
  <2>2. \A q \in Slots : Place(q)' = Place(q)
    BY <2>1 DEF Place, TypeOK
  <2> QED
    BY <1>1, <2>1, <2>2, Zenon DEF Forking
<1>4. ASSUME NEW p \in Slots, Yield(p) PROVE Forks'
  <2>1. /\ UNCHANGED <<np, parent>> /\ pc[p] # "sched"
        /\ state[p] = "RUNNING" /\ state' = [state EXCEPT ![p] = "RUNNABLE"]
        /\ pc' = [pc EXCEPT ![p] = "sched"] /\ k' = [k EXCEPT ![p] = pc[p]]
    BY <1>4, Zenon DEF Yield, EnterSched, Stacks
  <2>2. \A q \in Slots : Place(q)' = Place(q)
    BY <2>1 DEF Place, TypeOK
  <2>3. \A q \in Slots : state[q] = "USED" => state'[q] = "USED"
    BY <2>1 DEF TypeOK
  <2> QED
    BY <1>1, <2>1, <2>2, <2>3 DEF Forking
<1>5. ASSUME NEW p \in Slots,
             \/ UserTrap(p) \/ Return(p) \/ InitExits(p) \/ ForkFails(p) \/ Kill(p)
             \/ WaitLock(p) \/ WaitFails(p) \/ WaitNothing(p)
      PROVE  Forks'
  <2>1. UNCHANGED <<np, parent, k>> /\ pc[p] # "sched" /\ ~Forking(p)
    BY <1>5 DEF UserTrap, Return, InitExits, ForkFails, Kill, WaitLock, WaitFails,
       WaitNothing, Forking, Place
  <2>2. /\ \A q \in Slots \ {p} : pc'[q] = pc[q]
        /\ pc'[p] \notin {"sched", "fork parent", "fork run"}
    BY <1>5 DEF UserTrap, Calls, Return, InitExits, ForkFails, Kill, WaitLock,
       WaitFails,
       WaitNothing, TypeOK
  <2>3. \A q \in Slots : state[q] = "USED" => state'[q] = "USED"
    BY <1>5 DEF UserTrap, Return, InitExits, ForkFails, Kill, WaitLock, WaitFails,
       WaitNothing, TypeOK
  <2> QED
    BY <1>1, <2>1, <2>2, <2>3, Zenon DEF Forking, Place
<1>6. ASSUME NEW p \in Slots, Fork(p) PROVE Forks'
  <2>1. PICK q \in Slots : /\ state[q] = "UNUSED"
                           /\ np' = [np EXCEPT ![p] = q]
                           /\ state' = [state EXCEPT ![q] = "USED"]
                           /\ pc' = [pc EXCEPT ![p] = "fork parent"]
    BY <1>6, Zenon DEF Fork, Unused
  <2>2. UNCHANGED <<parent, k>>
    BY <1>6, Zenon DEF Fork
  <2>3. \A r \in Slots \ {p} : /\ Place(r)' = Place(r) /\ np'[r] = np[r]
                               /\ Forking(r)' <=> Forking(r)
    BY <2>1, <2>2 DEF Place, Forking, TypeOK
  <2>4. Place(p)' = "fork parent" /\ np'[p] = q
    BY <2>1, Zenon DEF Place, TypeOK
  <2>5. \A r \in Slots : Forking(r) => np[r] \in Slots \ {q}
    BY <2>1, Zenon DEF Forks
  <2>6. \A r \in Slots : state'[r] = IF r = q THEN "USED" ELSE state[r]
    BY <2>1 DEF TypeOK
  <2> SUFFICES ASSUME NEW r \in Slots, Forking(r)'
               PROVE  /\ np'[r] \in Slots /\ state'[np'[r]] = "USED"
                      /\ Place(r)' = "fork run" => parent'[np'[r]] = r
                      /\ \A x \in Slots : Forking(x)' /\ np'[x] = np'[r] => x = r
    BY DEF Forks
  <2>7. CASE r = p
    BY <2>3, <2>4, <2>5, <2>6, <2>7, Zenon
  <2>8. CASE r # p
    <3>1. /\ np'[r] = np[r] /\ Place(r)' = Place(r) /\ Forking(r)
          /\ np[r] \in Slots \ {q}
      BY <2>3, <2>5, <2>8, Zenon
    <3>2. /\ state[np[r]] = "USED"
          /\ Place(r) = "fork run" => parent[np[r]] = r
          /\ \A x \in Slots : Forking(x) /\ np[x] = np[r] => x = r
      BY <3>1, Zenon DEF Forks
    <3>3. \A x \in Slots : Forking(x)' /\ np'[x] = np'[r] => x = r
      BY <2>3, <2>4, <3>1, <3>2
    <3> QED
      BY <2>2, <2>6, <3>1, <3>2, <3>3
  <2> QED
    BY <2>7, <2>8, Zenon
<1>7. ASSUME NEW p \in Slots, ForkParent(p) PROVE Forks'
  <2>1. /\ parent' = [parent EXCEPT ![np[p]] = p]
        /\ pc' = [pc EXCEPT ![p] = "fork run"] /\ pc[p] = "fork parent"
        /\ UNCHANGED <<state, np, k>>
    BY <1>7, Zenon DEF ForkParent
  <2>2. /\ \A r \in Slots \ {p} : Place(r)' = Place(r)
        /\ Place(p)' = "fork run" /\ Place(p) = "fork parent"
    BY <2>1, Zenon DEF Place, TypeOK
  <2>3. \A r \in Slots : Forking(r)' <=> Forking(r)
    BY <2>2, Zenon DEF Forking
  <2>4. /\ np[p] \in Slots /\ parent'[np[p]] = p
        /\ \A q \in Slots \ {np[p]} : parent'[q] = parent[q]
    BY <2>1, <2>2, Zenon DEF Forks, Forking, TypeOK
  <2> SUFFICES ASSUME NEW r \in Slots, Forking(r)
               PROVE  /\ np[r] \in Slots /\ state[np[r]] = "USED"
                      /\ Place(r)' = "fork run" => parent'[np[r]] = r
                      /\ \A q \in Slots : Forking(q) /\ np[q] = np[r] => q = r
    BY <2>1, <2>3 DEF Forks
  <2>5. CASE r = p
    BY <2>4, <2>5, Zenon DEF Forks
  <2>6. CASE r # p
    <3>1. np[r] # np[p]
      BY <2>2, <2>6, Zenon DEF Forks, Forking
    <3> QED
      BY <2>2, <2>4, <2>6, <3>1 DEF Forks
  <2> QED
    BY <2>5, <2>6, Zenon
<1>8. ASSUME NEW p \in Slots, ForkRun(p) PROVE Forks'
  <2>1. /\ state' = [state EXCEPT ![np[p]] = "RUNNABLE"]
        /\ np' = [np EXCEPT ![p] = NoProc]
        /\ pc' = [pc EXCEPT ![p] = "return"] /\ pc[p] = "fork run"
        /\ UNCHANGED <<parent, k>>
    BY <1>8, Zenon DEF ForkRun
  <2>2. /\ \A r \in Slots \ {p} : Place(r)' = Place(r) /\ np'[r] = np[r]
        /\ Place(p)' = "return" /\ Place(p) = "fork run"
    BY <2>1, Zenon DEF Place, TypeOK
  <2>3. ~Forking(p)' /\ \A r \in Slots \ {p} : Forking(r)' <=> Forking(r)
    BY <2>2, Zenon DEF Forking
  <2> SUFFICES ASSUME NEW r \in Slots \ {p}, Forking(r)
               PROVE  /\ np[r] \in Slots /\ state'[np[r]] = "USED"
                      /\ Place(r) = "fork run" => parent[np[r]] = r
                      /\ \A q \in Slots : Forking(q) /\ np[q] = np[r] => q = r
    BY <2>1, <2>2, <2>3 DEF Forks
  <2>4. np[p] \in Slots /\ np[r] # np[p]
    BY <2>2, Zenon DEF Forks, Forking
  <2> QED
    BY <2>1, <2>4, Zenon DEF Forks, TypeOK
<1>9. ASSUME NEW p \in Slots, ExitReparent(p) PROVE Forks'
  <2>1. /\ pc[p] = "exit" /\ pc' = [pc EXCEPT ![p] = "exit wakeup"]
        /\ state' = state \/ Woke(initproc)
        /\ parent' = [q \in Slots |-> IF parent[q] = p THEN initproc ELSE parent[q]]
        /\ UNCHANGED <<np, k>>
    BY <1>9, Reparented, Zenon
  <2>2. \A q \in Slots : state[q] = "USED" => state'[q] = "USED"
    BY <2>1, Zenon DEF Woke
  <2>3. /\ \A q \in Slots \ {p} : Place(q)' = Place(q)
        /\ Place(p)' = "exit wakeup" /\ Place(p) = "exit"
    BY <2>1, Zenon DEF Place, TypeOK
  <2>4. \A r, q \in Slots : Place(r) = "fork run" /\ parent[q] = r
                              => parent'[q] = r
    BY <2>1, <2>3
  <2> QED
    BY <1>1, <2>1, <2>2, <2>3, <2>4, Zenon DEF Forking
<1>10. ASSUME NEW p \in Slots, ExitWakeup(p) PROVE Forks'
  <2>1. Woke(parent[p])
    BY <1>10, WakeupWoke, Zenon DEF ExitWakeup
  <2>2. /\ pc[p] = "exit wakeup" /\ pc' = [pc EXCEPT ![p] = "exit zombie"]
        /\ UNCHANGED <<np, parent, k>>
    BY <1>10 DEF ExitWakeup
  <2> QED
    BY <1>1, <2>1, <2>2, Zenon DEF Forking, Place, Woke, TypeOK
<1>11. ASSUME NEW p \in Slots, ExitZombie(p) \/ WaitSleep(p) PROVE Forks'
  <2>1. /\ pc[p] \in Holding /\ pc' = [pc EXCEPT ![p] = "sched"]
        /\ \E a \in {"zombie exit", "wait"} : k' = [k EXCEPT ![p] = a]
        /\ UNCHANGED <<np, parent>> /\ state[p] = "RUNNING"
        /\ \E a \in {"ZOMBIE", "SLEEPING"} : state' = [state EXCEPT ![p] = a]
    BY <1>11, Zenon DEF ExitZombie, WaitSleep, EnterSched, Holding, Stacks
  <2>2. \A q \in Slots : state[q] = "USED" => state'[q] = "USED"
    BY <2>1 DEF TypeOK
  <2>3. \A q \in Slots : \/ Place(q)' = Place(q)
                         \/ ~Forking(q)'
    BY <2>1 DEF Place, Forking, TypeOK
  <2> QED
    BY <1>1, <2>1, <2>2, <2>3, Zenon DEF Forking
<1>12. ASSUME NEW p \in Slots, WaitReap(p) PROVE Forks'
  <2> DEFINE q == First(Zombies(p))
  <2>1. q \in Slots \ {p} /\ pc[q] = "zombie exit" /\ state[q] = "ZOMBIE"
    BY <1>12, Reaped
  <2>2. /\ state' = [state EXCEPT ![q] = "UNUSED"]
        /\ parent' = [parent EXCEPT ![q] = NoProc]
        /\ pc' = [pc EXCEPT ![p] = "return", ![q] = "user"]
        /\ UNCHANGED <<np, k>> /\ pc[p] = "wait scan"
    BY <1>12, Zenon DEF WaitReap
  <2> HIDE DEF q
  <2>3. \A r \in Slots : state[r] = "USED" => state'[r] = "USED"
                                              /\ parent'[r] = parent[r]
    BY <2>1, <2>2, Zenon DEF TypeOK
  <2>4. \A r \in Slots : Forking(r)' => Place(r)' = Place(r) /\ Forking(r)
    BY <2>1, <2>2 DEF Place, Forking, TypeOK
  <2> QED
    BY <1>1, <2>2, <2>3, <2>4, Zenon
<1>13. CASE UNCHANGED vars
  BY <1>1, <1>13 DEF vars, Forking, Place
<1> QED
  BY <1>2, <1>3, <1>4, <1>5, <1>6, <1>7, <1>8, <1>9, <1>10, <1>11,
     <1>12, <1>13 DEF Next, Kernel

LEMMA NextFamilies ==
  TypeOK /\ Stacks /\ Threads /\ Forks /\ Families /\ [Next]_vars => Families'
<1> SUFFICES ASSUME TypeOK, Stacks, Threads, Forks, Families, [Next]_vars
             PROVE  Families'
  OBVIOUS
<1> USE DEF table, locks, Goto, At
<1>0. initproc \in Slots /\ NoProc \notin Slots /\ initproc # NoProc
  BY ProcAssumption DEF Slots, initproc, NoProc
(* Steps that change no parent, make no one Dead and start no exit. *)
<1>1. ASSUME parent' = parent,
             \A p \in Slots : state[p] \notin Dead => state'[p] \notin Dead,
             \A p \in Slots : state[p] \in {"UNUSED", "USED"} =>
                                state'[p] \in {"UNUSED", "USED"},
             \A p \in Slots : pc'[p] \in {"exit wakeup", "exit zombie"} =>
                                pc[p] \in {"exit wakeup", "exit zombie"}
      PROVE  Families'
  <2>1. state'[initproc] \notin Dead
    BY <1>0, <1>1, Zenon DEF Families
  <2>2. \A p \in Slots : parent'[p] # NoProc => state'[parent'[p]] \notin Dead
    BY <1>1 DEF Families, TypeOK
  <2>3. \A p \in Slots : /\ parent'[p] = NoProc =>
                              p = initproc \/ state'[p] \in {"UNUSED", "USED"}
    BY <1>1, Zenon DEF Families
  <2>4. \A p \in Slots : pc'[p] \in {"exit wakeup", "exit zombie"} =>
                            p # initproc /\ Children(p)' = {}
    BY <1>1, Zenon DEF Families, Children
  <2> QED
    BY <2>1, <2>2, <2>3, <2>4, Zenon DEF Families
<1>2. ASSUME NEW p \in Slots, Dispatch(p) \/ Sched(p) \/ Yield(p)
      PROVE  Families'
  <2>1. parent' = parent
    BY <1>2, Zenon DEF Dispatch, Sched, Yield
  <2>2. \A q \in Slots : \/ state'[q] = state[q]
                         \/ /\ state[q] \in {"RUNNABLE", "RUNNING"}
                            /\ state'[q] \in {"RUNNABLE", "RUNNING"}
    BY <1>2 DEF Dispatch, Sched, Yield, EnterSched, TypeOK
  <2>3. \A q \in Slots : pc'[q] = pc[q] \/ pc'[q] \in Places \cup {"sched"}
    BY <1>2 DEF Dispatch, Sched, Yield, EnterSched, TypeOK
  <2> QED
    BY <1>1, <2>1, <2>2, <2>3, Zenon DEF Dead, Places
<1>3. ASSUME NEW p \in Slots,
             \/ UserTrap(p) \/ Return(p) \/ InitExits(p) \/ ForkFails(p) \/ Kill(p)
             \/ WaitLock(p) \/ WaitFails(p) \/ WaitNothing(p) \/ WaitSleep(p)
      PROVE  Families'
  <2>1. parent' = parent /\ state[p] = "RUNNING"
    BY <1>3 DEF UserTrap, Return, InitExits, ForkFails, Kill, WaitLock, WaitFails,
       WaitNothing, WaitSleep, Stacks
  <2>2. \A q \in Slots : \/ state'[q] = state[q]
                         \/ /\ state[q] \in {"RUNNING", "SLEEPING"}
                            /\ state'[q] \in {"RUNNABLE", "SLEEPING"}
    <3>1. CASE WaitSleep(p)
      BY <2>1, <3>1 DEF WaitSleep, EnterSched, TypeOK
    <3>2. CASE Kill(p)
      BY <3>2, Zenon DEF Kill, TypeOK
    <3> QED
      BY <1>3, <3>1, <3>2, Zenon DEF UserTrap, Return, InitExits, ForkFails,
         WaitLock, WaitFails,
         WaitNothing
  <2>3. \A q \in Slots : \/ pc'[q] = pc[q]
                         \/ pc'[q] \notin {"exit wakeup", "exit zombie"}
    BY <1>3 DEF UserTrap, Calls, Return, InitExits, ForkFails, Kill, WaitLock,
       WaitFails,
       WaitNothing, WaitSleep, EnterSched, TypeOK
  <2> QED
    BY <1>1, <2>1, <2>2, <2>3, Zenon DEF Dead
<1>4. ASSUME NEW p \in Slots, Fork(p) PROVE Families'
  <2>1. PICK q \in Slots : /\ state[q] = "UNUSED"
                           /\ state' = [state EXCEPT ![q] = "USED"]
                           /\ pc' = [pc EXCEPT ![p] = "fork parent"]
    BY <1>4, Zenon DEF Fork, Unused
  <2>2. parent' = parent
    BY <1>4, Zenon DEF Fork
  <2> QED
    BY <1>1, <2>1, <2>2, Zenon DEF Dead, TypeOK
<1>5. ASSUME NEW p \in Slots, ForkParent(p) PROVE Families'
  <2>1. /\ parent' = [parent EXCEPT ![np[p]] = p] /\ wait_lock = NoProc
        /\ pc' = [pc EXCEPT ![p] = "fork run"] /\ state' = state
        /\ state[p] = "RUNNING" /\ np[p] \in Slots
    BY <1>5, Zenon DEF ForkParent, Stacks, Forks, Forking, Place
  <2>2. \A q \in Slots : pc'[q] \notin {"exit wakeup", "exit zombie"}
    BY <1>0, <2>1, Zenon DEF Threads, Holding, TypeOK
  <2> QED
    BY <1>0, <2>1, <2>2 DEF Families, Dead, TypeOK
<1>6. ASSUME NEW p \in Slots, ForkRun(p) PROVE Families'
  <2>1. /\ np[p] \in Slots /\ state[np[p]] = "USED" /\ parent[np[p]] = p
        /\ state' = [state EXCEPT ![np[p]] = "RUNNABLE"]
        /\ pc' = [pc EXCEPT ![p] = "return"] /\ parent' = parent
    BY <1>6, Zenon DEF ForkRun, Forks, Forking, Place
  <2>2. state'[initproc] \notin Dead
    BY <1>0, <2>1, Zenon DEF Families, Dead, TypeOK
  <2>3. \A q \in Slots :
          /\ parent'[q] # NoProc => state'[parent'[q]] \notin Dead
          /\ parent'[q] = NoProc => q = initproc \/ state'[q] \in {"UNUSED", "USED"}
    <3> TAKE q \in Slots
    <3>1. parent'[q] # NoProc => state'[parent'[q]] \notin Dead
      BY <2>1 DEF Families, Dead, TypeOK
    <3>2. parent'[q] = NoProc => q = initproc \/ state'[q] \in {"UNUSED", "USED"}
      BY <1>0, <2>1 DEF Families, TypeOK
    <3> QED
      BY <3>1, <3>2, Zenon
  <2>4. \A q \in Slots : pc'[q] \in {"exit wakeup", "exit zombie"} =>
                            q # initproc /\ Children(q)' = {}
    BY <2>1 DEF Families, Children, TypeOK
  <2> QED
    BY <2>2, <2>3, <2>4 DEF Families
<1>7. ASSUME NEW p \in Slots, ExitReparent(p) PROVE Families'
  <2>0. p # initproc
    BY <1>7, Reparented, Zenon
  <2>1. /\ pc' = [pc EXCEPT ![p] = "exit wakeup"] /\ wait_lock = NoProc
        /\ state' = state \/ Woke(initproc)
        /\ parent' = [q \in Slots |-> IF parent[q] = p THEN initproc ELSE parent[q]]
    BY <1>7, Reparented, Zenon
  <2>2. \A q \in Slots \ {p} : pc'[q] \notin {"exit wakeup", "exit zombie"}
    BY <1>0, <2>1 DEF Threads, Holding, TypeOK
  <2>3. \A q \in Slots : \/ state'[q] = state[q]
                         \/ state[q] = "SLEEPING" /\ state'[q] = "RUNNABLE"
    BY <2>1, Zenon DEF Woke
  <2>4. Children(p)' = {}
    BY <2>0, <2>1, Zenon DEF Children
  <2>5. \A q \in Slots : parent'[q] \in {initproc, parent[q]}
                         /\ (parent'[q] = NoProc <=> parent[q] = NoProc)
    BY <1>0, <2>1 DEF TypeOK
  <2>6. state'[initproc] \notin Dead
    BY <1>0, <2>3 DEF Families, Dead
  <2>7. \A q \in Slots :
          /\ parent'[q] # NoProc => state'[parent'[q]] \notin Dead
          /\ parent'[q] = NoProc => q = initproc \/ state'[q] \in {"UNUSED", "USED"}
    <3> TAKE q \in Slots
    <3>1. parent'[q] # NoProc => state'[parent'[q]] \notin Dead
      <4>1. parent[q] # NoProc => parent[q] \in Slots /\ state[parent[q]] \notin Dead
        BY Zenon DEF Families, TypeOK
      <4> QED
        BY <2>3, <2>5, <2>6, <4>1 DEF Dead
    <3>2. parent'[q] = NoProc => q = initproc \/ state'[q] \in {"UNUSED", "USED"}
      BY <2>3, <2>5 DEF Families
    <3> QED
      BY <3>1, <3>2, Zenon
  <2> QED
    BY <2>0, <2>2, <2>4, <2>6, <2>7, Zenon DEF Families
<1>8. ASSUME NEW p \in Slots, ExitWakeup(p) PROVE Families'
  <2>1. Woke(parent[p])
    BY <1>8, WakeupWoke, Zenon DEF ExitWakeup
  <2>2. /\ pc[p] = "exit wakeup" /\ pc' = [pc EXCEPT ![p] = "exit zombie"]
        /\ parent' = parent
    BY <1>8 DEF ExitWakeup
  <2> QED
    BY <1>1, <2>1, <2>2 DEF Woke, TypeOK, Dead
<1>9. ASSUME NEW p \in Slots, ExitZombie(p) PROVE Families'
  <2>1. /\ pc[p] = "exit zombie" /\ pc' = [pc EXCEPT ![p] = "sched"]
        /\ state' = [state EXCEPT ![p] = "ZOMBIE"] /\ parent' = parent
        /\ state[p] = "RUNNING"
    BY <1>9, Zenon DEF ExitZombie, EnterSched, Stacks
  <2>2. p # initproc /\ \A q \in Slots : parent[q] # p
    BY <2>1, Zenon DEF Families, Children
  <2> QED
    BY <1>0, <2>1, <2>2 DEF Families, Children, Dead, TypeOK
<1>10. ASSUME NEW p \in Slots, WaitReap(p) PROVE Families'
  <2> DEFINE q == First(Zombies(p))
  <2>1. q \in Slots \ {p} /\ state[q] = "ZOMBIE"
    BY <1>10, Reaped, Zenon
  <2>2. /\ state' = [state EXCEPT ![q] = "UNUSED"]
        /\ parent' = [parent EXCEPT ![q] = NoProc]
        /\ pc' = [pc EXCEPT ![p] = "return", ![q] = "user"]
    BY <1>10, Zenon DEF WaitReap
  <2> HIDE DEF q
  <2>3. \A r \in Slots : pc'[r] \in {"exit wakeup", "exit zombie"} =>
                           r # initproc /\ Children(r)' = {}
    <3>1. \A r \in Slots : Children(r)' \subseteq Children(r)
      BY <1>0, <2>1, <2>2, Zenon DEF Children, TypeOK
    <3>2. \A r \in Slots : pc'[r] = pc[r] \/ pc'[r] \in {"return", "user"}
      BY <2>1, <2>2, Zenon DEF TypeOK
    <3> QED
      BY <3>1, <3>2, Zenon DEF Families
  <2> QED
    BY <1>0, <2>1, <2>2, <2>3 DEF Families, Dead, TypeOK
<1>11. CASE UNCHANGED vars
  BY <1>1, <1>11, Zenon DEF vars
<1> QED
  BY <1>2, <1>3, <1>4, <1>5, <1>6, <1>7, <1>8, <1>9, <1>10, <1>11
  DEF Next, Kernel

(* No wakeup is lost between the scan of wait and its sleep, or between    *)
(* the wakeup of exit and its ZOMBIE: wait_lock is held from one to the    *)
(* other.                                                                  *)
LEMMA NextWakeups ==
  TypeOK /\ Stacks /\ Threads /\ Forks /\ Families /\ Wakeups /\ [Next]_vars
    => Wakeups'
<1> SUFFICES ASSUME TypeOK, Stacks, Threads, Forks, Families, Wakeups, [Next]_vars
             PROVE  Wakeups'
  BY Zenon
<1> USE DEF table, locks, Goto, At
<1>0. initproc \in Slots /\ NoProc \notin Slots
  BY ProcAssumption DEF Slots, initproc, NoProc
<1>1. \A p, q \in Slots : pc[p] \in Holding /\ pc[q] \in Holding => p = q
  BY Zenon DEF Threads
(* Steps that change no parent, put no one to sleep and make no zombie. *)
<1>2. ASSUME parent' = parent,
             \A p \in Slots : state'[p] = "SLEEPING" => state[p] = "SLEEPING",
             \A p \in Slots : state'[p] = "ZOMBIE" => state[p] = "ZOMBIE",
             \A p \in Slots :
               pc'[p] \in {"wait sleep", "exit zombie"} => pc'[p] = pc[p]
      PROVE  Wakeups'
  <2>1. \A p \in Slots : Zombies(p)' \subseteq Zombies(p)
    BY <1>2, Zenon DEF Zombies, Children
  <2>2. NoMissedZombie'
    BY <1>2, <2>1, Zenon DEF Wakeups, NoMissedZombie
  <2>3. \A p \in Slots : pc'[p] = "wait sleep" => Zombies(p)' = {}
    BY <1>2, <2>1, Zenon DEF Wakeups
  <2>4. \A p \in Slots : pc'[p] = "exit zombie" /\ parent'[p] # NoProc =>
                           state'[parent'[p]] # "SLEEPING"
    BY <1>2 DEF Wakeups, TypeOK
  <2> QED
    BY <2>2, <2>3, <2>4, Zenon DEF Wakeups
<1>3. ASSUME NEW p \in Slots, Dispatch(p) \/ Sched(p) \/ Yield(p)
      PROVE  Wakeups'
  <2>1. parent' = parent
    BY <1>3, Zenon DEF Dispatch, Sched, Yield
  <2>2. \A q \in Slots : state'[q] = state[q] \/ state'[q] \in {"RUNNABLE", "RUNNING"}
    BY <1>3, Zenon DEF Dispatch, Sched, Yield, EnterSched, TypeOK
  <2>3. \A q \in Slots : pc'[q] = pc[q] \/ pc'[q] \in Places \cup {"sched"}
    BY <1>3 DEF Dispatch, Sched, Yield, EnterSched, TypeOK
  <2> QED
    BY <1>2, <2>1, <2>2, <2>3, Zenon DEF Places
<1>4. ASSUME NEW p \in Slots,
             \/ UserTrap(p) \/ Return(p) \/ InitExits(p) \/ ForkFails(p) \/ Kill(p)
             \/ WaitLock(p) \/ WaitFails(p)
      PROVE  Wakeups'
  <2>1. parent' = parent
    BY <1>4, Zenon DEF UserTrap, Return, InitExits, ForkFails, Kill, WaitLock,
       WaitFails
  <2>2. \A q \in Slots : state'[q] = state[q] \/ state'[q] = "RUNNABLE"
    BY <1>4 DEF UserTrap, Return, InitExits, ForkFails, Kill, WaitLock,
       WaitFails, TypeOK
  <2>3. \A q \in Slots : \/ pc'[q] = pc[q]
                         \/ pc'[q] \notin {"wait sleep", "exit zombie"}
    BY <1>4 DEF UserTrap, Calls, Return, InitExits, ForkFails, Kill, WaitLock,
       WaitFails,
       TypeOK
  <2> QED
    BY <1>2, <2>1, <2>2, <2>3, Zenon
<1>5. ASSUME NEW p \in Slots, Fork(p) PROVE Wakeups'
  <2>1. PICK q \in Slots : /\ state' = [state EXCEPT ![q] = "USED"]
                           /\ pc' = [pc EXCEPT ![p] = "fork parent"]
    BY <1>5, Zenon DEF Fork, Unused
  <2>2. parent' = parent
    BY <1>5, Zenon DEF Fork
  <2> QED
    BY <1>2, <2>1, <2>2, Zenon DEF TypeOK
<1>6. ASSUME NEW p \in Slots, ForkParent(p) PROVE Wakeups'
  <2>1. /\ parent' = [parent EXCEPT ![np[p]] = p] /\ wait_lock = NoProc
        /\ pc' = [pc EXCEPT ![p] = "fork run"] /\ state' = state
        /\ np[p] \in Slots /\ state[np[p]] = "USED"
    BY <1>6, Zenon DEF ForkParent, Forks, Forking, Place
  <2>2. \A q \in Slots : pc'[q] \notin {"wait sleep", "exit zombie"}
    BY <1>0, <2>1, Zenon DEF Threads, Holding, TypeOK
  <2>3. \A q \in Slots : Zombies(q)' \subseteq Zombies(q)
    BY <2>1, Zenon DEF Zombies, Children, TypeOK
  <2> QED
    BY <2>1, <2>2, <2>3, Zenon DEF Wakeups, NoMissedZombie
<1>7. ASSUME NEW p \in Slots, ForkRun(p) PROVE Wakeups'
  <2>1. /\ state' = [state EXCEPT ![np[p]] = "RUNNABLE"]
        /\ pc' = [pc EXCEPT ![p] = "return"] /\ parent' = parent
    BY <1>7 DEF ForkRun
  <2> QED
    BY <1>2, <2>1, Zenon DEF TypeOK
<1>8. ASSUME NEW p \in Slots, ExitReparent(p) PROVE Wakeups'
  <2>1. /\ pc' = [pc EXCEPT ![p] = "exit wakeup"] /\ wait_lock = NoProc
        /\ \/ state' = state /\ Children(p) = {}
           \/ Woke(initproc)
        /\ parent' = [q \in Slots |-> IF parent[q] = p THEN initproc ELSE parent[q]]
    BY <1>8, Reparented, Zenon
  <2>2. \A q \in Slots : pc'[q] \notin {"wait sleep", "exit zombie"}
    BY <1>0, <2>1, Zenon DEF Threads, Holding, TypeOK
  <2>3. CASE state' = state /\ Children(p) = {}
    <3>1. \A q \in Slots : parent'[q] = parent[q]
      BY <2>1, <2>3, Zenon DEF Children
    <3>2. \A q \in Slots : Zombies(q)' \subseteq Zombies(q)
      BY <2>3, <3>1, Zenon DEF Zombies, Children
    <3>3. NoMissedZombie'
      BY <2>3, <3>2 DEF Wakeups, NoMissedZombie
    <3> QED
      BY <2>2, <3>3 DEF Wakeups
  <2>4. CASE Woke(initproc)
    <3>1. \A q \in Slots : /\ state'[q] = "SLEEPING" => q # initproc
                                                        /\ state[q] = "SLEEPING"
                           /\ state'[q] = "ZOMBIE" => state[q] = "ZOMBIE"
      BY <2>4, Zenon DEF Woke
    <3>2. \A q \in Slots \ {initproc} : Zombies(q)' \subseteq Zombies(q)
      BY <2>1, <3>1 DEF Zombies, Children
    <3>3. NoMissedZombie'
      BY <3>1, <3>2, Zenon DEF Wakeups, NoMissedZombie
    <3> QED
      BY <2>2, <3>3, Zenon DEF Wakeups
  <2> QED
    BY <2>1, <2>3, <2>4
<1>9. ASSUME NEW p \in Slots, ExitWakeup(p) PROVE Wakeups'
  <2>1. Woke(parent[p])
    BY <1>9, WakeupWoke, Zenon DEF ExitWakeup
  <2>2. /\ pc[p] = "exit wakeup" /\ pc' = [pc EXCEPT ![p] = "exit zombie"]
        /\ parent' = parent
    BY <1>9, Zenon DEF ExitWakeup
  <2>3. \A q \in Slots \ {p} : pc'[q] \notin {"wait sleep", "exit zombie"}
    BY <1>1, <2>2, Zenon DEF Holding, TypeOK
  <2>4. parent[p] # NoProc => state'[parent[p]] # "SLEEPING"
    BY <2>1 DEF Woke, TypeOK
  <2>5. NoMissedZombie'
    <3>1. \A q \in Slots : /\ state'[q] = "SLEEPING" => state[q] = "SLEEPING"
                           /\ state'[q] = "ZOMBIE" => state[q] = "ZOMBIE"
      BY <2>1, Zenon DEF Woke
    <3>2. \A q \in Slots : Zombies(q)' \subseteq Zombies(q)
      BY <2>2, <3>1 DEF Zombies, Children
    <3> QED
      BY <3>1, <3>2, Zenon DEF Wakeups, NoMissedZombie
  <2> QED
    BY <2>2, <2>3, <2>4, <2>5, Zenon DEF Wakeups, TypeOK
<1>10. ASSUME NEW p \in Slots, ExitZombie(p) PROVE Wakeups'
  <2>1. /\ pc[p] = "exit zombie" /\ pc' = [pc EXCEPT ![p] = "sched"]
        /\ state' = [state EXCEPT ![p] = "ZOMBIE"] /\ parent' = parent
    BY <1>10, Zenon DEF ExitZombie, EnterSched
  <2>2. \A q \in Slots : pc'[q] \notin {"wait sleep", "exit zombie"}
    BY <1>1, <2>1 DEF Holding, TypeOK
  <2>3. \A q \in Slots : state'[q] = "SLEEPING" =>
          /\ state[q] = "SLEEPING" /\ q # parent[p]
    BY <1>0, <2>1, Zenon DEF Wakeups, TypeOK
  <2>4. NoMissedZombie'
    BY <2>1, <2>3 DEF Wakeups, NoMissedZombie, Zombies, Children, TypeOK
  <2> QED
    BY <2>2, <2>4, Zenon DEF Wakeups
<1>11. ASSUME NEW p \in Slots, WaitNothing(p) PROVE Wakeups'
  <2>1. /\ pc[p] = "wait scan" /\ pc' = [pc EXCEPT ![p] = "wait sleep"]
        /\ UNCHANGED <<state, parent>> /\ Zombies(p) = {}
    BY <1>11, Zenon DEF WaitNothing
  <2>2. \A q \in Slots : Zombies(q)' = Zombies(q)
    BY <2>1, Zenon DEF Zombies, Children
  <2>3. NoMissedZombie'
    BY <2>1, <2>2, Zenon DEF Wakeups, NoMissedZombie
  <2> QED
    BY <2>1, <2>2, <2>3, Zenon DEF Wakeups, TypeOK
<1>12. ASSUME NEW p \in Slots, WaitSleep(p) PROVE Wakeups'
  <2>1. /\ pc[p] = "wait sleep" /\ pc' = [pc EXCEPT ![p] = "sched"]
        /\ state' = [state EXCEPT ![p] = "SLEEPING"] /\ parent' = parent
    BY <1>12, Zenon DEF WaitSleep, EnterSched
  <2>2. \A q \in Slots : pc'[q] \notin {"wait sleep", "exit zombie"}
    BY <1>1, <2>1, Zenon DEF Holding, TypeOK
  <2>3. \A q \in Slots : Zombies(q)' \subseteq Zombies(q)
    BY <2>1 DEF Zombies, Children, TypeOK
  <2>4. \A q \in Slots : state'[q] = "SLEEPING" => Zombies(q) = {}
    BY <2>1 DEF Wakeups, NoMissedZombie, TypeOK
  <2> QED
    BY <2>2, <2>3, <2>4 DEF Wakeups, NoMissedZombie
<1>13. ASSUME NEW p \in Slots, WaitReap(p) PROVE Wakeups'
  <2> DEFINE q == First(Zombies(p))
  <2>1. q \in Slots \ {p} /\ state[q] = "ZOMBIE"
    BY <1>13, Reaped
  <2>2. /\ state' = [state EXCEPT ![q] = "UNUSED"]
        /\ parent' = [parent EXCEPT ![q] = NoProc]
        /\ pc' = [pc EXCEPT ![p] = "return", ![q] = "user"]
        /\ pc[p] = "wait scan"
    BY <1>13, Zenon DEF WaitReap
  <2> HIDE DEF q
  <2>3. \A r \in Slots : Zombies(r)' \subseteq Zombies(r)
    BY <1>0, <2>1, <2>2, Zenon DEF Zombies, Children, TypeOK
  <2>4. \A r \in Slots : state'[r] = "SLEEPING" => state[r] = "SLEEPING"
    BY <2>1, <2>2 DEF TypeOK
  <2>5. \A r \in Slots : pc'[r] \notin {"wait sleep", "exit zombie"}
    BY <1>1, <2>1, <2>2, Zenon DEF Holding, TypeOK
  <2> QED
    BY <2>3, <2>4, <2>5, Zenon DEF Wakeups, NoMissedZombie
<1>14. CASE UNCHANGED vars
  BY <1>2, <1>14, Zenon DEF vars
<1> QED
  BY <1>3, <1>4, <1>5, <1>6, <1>7, <1>8, <1>9, <1>10, <1>11, <1>12, <1>13,
     <1>14 DEF Next, Kernel

LEMMA NextPids ==
  TypeOK /\ Stacks /\ Threads /\ Forks /\ Pids /\ [Next]_vars => Pids'
<1> SUFFICES ASSUME TypeOK, Stacks, Threads, Forks, Pids, [Next]_vars
             PROVE  Pids'
  BY Zenon
<1> USE DEF table, locks, Goto, At
<1>1. ASSUME pid' = pid,
             \A q \in Slots : state'[q] = "UNUSED" <=> state[q] = "UNUSED"
      PROVE  Pids'
  BY <1>1, Zenon DEF Pids
<1>2. ASSUME NEW p \in Slots,
             Dispatch(p) \/ Sched(p) \/ Yield(p) \/ ExitZombie(p) \/ WaitSleep(p)
      PROVE  Pids'
  <2>1. /\ pid' = pid /\ state[p] # "UNUSED"
        /\ \/ state' = state
           \/ \E a \in States \ {"UNUSED"} : state' = [state EXCEPT ![p] = a]
    BY <1>2, Zenon DEF Dispatch, Sched, Yield, ExitZombie, WaitSleep, EnterSched,
       States, Stacks
  <2> QED
    BY <1>1, <2>1, Zenon DEF TypeOK
<1>3. ASSUME NEW p \in Slots, Quiet(p) \/ Kill(p) PROVE Pids'
  <2>1. \A q \in Slots : \/ state'[q] = state[q]
                         \/ state[q] = "SLEEPING" /\ state'[q] = "RUNNABLE"
    BY <1>3 DEF Quiet, UserTrap, Return, InitExits, ForkFails, ForkParent, WaitLock,
       WaitFails, WaitNothing, Kill, TypeOK
  <2>2. pid' = pid
    BY <1>3, Zenon DEF Quiet, UserTrap, Return, InitExits, ForkFails,
       ForkParent, WaitLock,
       WaitFails, WaitNothing, Kill
  <2> QED
    BY <1>1, <2>1, <2>2, Zenon
<1>4. ASSUME NEW p \in Slots, Fork(p) PROVE Pids'
  <2>1. PICK q \in Slots : /\ state' = [state EXCEPT ![q] = "USED"]
                           /\ pid' = [pid EXCEPT ![q] = q]
    BY <1>4, Zenon DEF Fork, Unused, allocpid
  <2> QED
    BY <2>1, Zenon DEF Pids, TypeOK
<1>5. ASSUME NEW p \in Slots, ForkRun(p) PROVE Pids'
  <2>1. /\ np[p] \in Slots /\ state[np[p]] = "USED" /\ pid' = pid
        /\ state' = [state EXCEPT ![np[p]] = "RUNNABLE"]
    BY <1>5 DEF ForkRun, Forks, Forking, Place
  <2> QED
    BY <1>1, <2>1, Zenon DEF TypeOK
<1>6. ASSUME NEW p \in Slots, ExitReparent(p) PROVE Pids'
  <2>1. pid' = pid /\ (state' = state \/ Woke(initproc))
    BY <1>6, Reparented, Zenon
  <2> QED
    BY <1>1, <2>1 DEF Woke
<1>7. ASSUME NEW p \in Slots, ExitWakeup(p) PROVE Pids'
  <2>1. Woke(parent[p]) /\ pid' = pid
    BY <1>7, WakeupWoke DEF ExitWakeup
  <2> QED
    BY <1>1, <2>1, Zenon DEF Woke
<1>8. ASSUME NEW p \in Slots, WaitReap(p) PROVE Pids'
  <2> DEFINE q == First(Zombies(p))
  <2>1. q \in Slots
    BY <1>8, Reaped, Zenon
  <2>2. /\ state' = [state EXCEPT ![q] = "UNUSED"]
        /\ pid' = [pid EXCEPT ![q] = 0]
    BY <1>8 DEF WaitReap
  <2> HIDE DEF q
  <2> QED
    BY <2>1, <2>2, Zenon DEF Pids, TypeOK
<1>9. CASE UNCHANGED vars
  BY <1>1, <1>9, Zenon DEF vars
<1> QED
  BY <1>2, <1>3, <1>4, <1>5, <1>6, <1>7, <1>8, <1>9 DEF Next, Kernel, Quiet
-----------------------------------------------------------------------------
LEMMA InitIInv == Init => IInv
<1> SUFFICES ASSUME Init PROVE IInv
  BY Zenon
<1>0. initproc \in Slots /\ NoProc \notin Slots
  BY ProcAssumption DEF Slots, initproc, NoProc
<1>1. TypeOK
  BY InitTypeOK, Zenon
<1>2. Stacks
  BY Zenon DEF Init, Stacks
<1>3. Threads
  BY <1>0, Zenon DEF Init, Threads, Place, Holding
<1>4. Forks
  BY Zenon DEF Init, Forks, Forking, Place
<1>5. Families
  BY <1>0, Zenon DEF Init, Families, Dead
<1>6. Wakeups
  BY Zenon DEF Init, Wakeups, NoMissedZombie
<1>7. Pids
  BY Zenon DEF Init, Pids, initproc
<1> QED
  BY <1>1, <1>2, <1>3, <1>4, <1>5, <1>6, <1>7, Zenon DEF IInv

LEMMA NextIInv == IInv /\ [Next]_vars => IInv'
  BY NextTypeOK, NextStacks, NextThreads, NextForks, NextFamilies,
     NextWakeups, NextPids, Zenon DEF IInv

LEMMA Invariant == Spec => []IInv
  BY InitIInv, NextIInv, PTL DEF Spec

(* The swtch protocol: a kernel stack that a CPU is using belongs to a     *)
(* RUNNING process, or to one whose p->lock is still held, so that neither *)
(* wait can free the process nor another CPU's scheduler run it.           *)
THEOREM StackSafe == Spec => []StackInUse
<1>1. IInv => StackInUse
  BY Zenon DEF IInv, Stacks, StackInUse
<1> QED
  BY Invariant, <1>1, PTL

(* exit, reparent and wait: no parent sleeps in wait while it has a child  *)
(* that is a ZOMBIE, whatever the order of exits, forks and kills.         *)
THEOREM NoWakeupLost == Spec => []NoMissedZombie
<1>1. IInv => NoMissedZombie
  BY DEF IInv, Wakeups
<1> QED
  BY Invariant, <1>1, PTL
-----------------------------------------------------------------------------
(* kill finds a slot by its pid, and freeproc clears killed with it. *)
LEMMA NextBornAlive ==
  ASSUME 0 \notin KillPids
  PROVE  IInv /\ BornAlive /\ [Next]_vars => BornAlive'
<1> SUFFICES ASSUME IInv, BornAlive, [Next]_vars PROVE BornAlive'
  BY Zenon
<1> USE DEF IInv, table, locks, At
<1>1. ASSUME killed' = killed,
             \A q \in Slots : state'[q] = "UNUSED" => state[q] = "UNUSED"
      PROVE  BornAlive'
  BY <1>1 DEF BornAlive
<1>2. ASSUME NEW p \in Slots,
             Dispatch(p) \/ Sched(p) \/ Yield(p) \/ ExitZombie(p) \/ WaitSleep(p)
      PROVE  BornAlive'
  <2>1. /\ killed' = killed
        /\ \/ state' = state
           \/ \E a \in States \ {"UNUSED"} : state' = [state EXCEPT ![p] = a]
    BY <1>2, Zenon DEF Dispatch, Sched, Yield, ExitZombie, WaitSleep,
       EnterSched, States
  <2> QED
    BY <1>1, <2>1, Zenon DEF TypeOK
<1>3. ASSUME NEW p \in Slots, Quiet(p) PROVE BornAlive'
  BY <1>1, <1>3 DEF Quiet, UserTrap, Return, InitExits, ForkFails, ForkParent,
     WaitLock,
     WaitFails, WaitNothing
<1>4. ASSUME NEW p \in Slots, Fork(p) \/ ForkRun(p) PROVE BornAlive'
  <2>1. /\ killed' = killed
        /\ \E q, a : /\ a \in {"USED", "RUNNABLE"}
                     /\ state' = [state EXCEPT ![q] = a]
    BY <1>4, Zenon DEF Fork, ForkRun
  <2> QED
    BY <1>1, <2>1, Zenon DEF TypeOK
<1>5. ASSUME NEW p \in Slots, ExitReparent(p) PROVE BornAlive'
  <2>1. killed' = killed /\ (state' = state \/ Woke(initproc))
    BY <1>5, Reparented, Zenon
  <2> QED
    BY <1>1, <2>1, Zenon DEF Woke
<1>6. ASSUME NEW p \in Slots, ExitWakeup(p) PROVE BornAlive'
  <2>1. Woke(parent[p]) /\ killed' = killed
    BY <1>6, WakeupWoke, Zenon DEF ExitWakeup
  <2> QED
    BY <1>1, <2>1, Zenon DEF Woke
<1>7. ASSUME NEW p \in Slots, WaitReap(p) PROVE BornAlive'
  <2> DEFINE q == First(Zombies(p))
  <2>1. q \in Slots
    BY <1>7, Reaped, Zenon
  <2>2. /\ state' = [state EXCEPT ![q] = "UNUSED"]
        /\ killed' = [killed EXCEPT ![q] = FALSE]
    BY <1>7, Zenon DEF WaitReap
  <2> HIDE DEF q
  <2> QED
    BY <2>1, <2>2, Zenon DEF BornAlive, TypeOK
<1>8. ASSUME NEW p \in Slots, Kill(p) PROVE BornAlive'
  <2>1. PICK n \in KillPids :
          \/ UNCHANGED <<state, killed>>
          \/ LET S == {q \in Slots : pid[q] = n}
                 q == First(S)
             IN /\ S # {}
                /\ killed' = [killed EXCEPT ![q] = TRUE]
                /\ state' = [state EXCEPT ![q] =
                               IF @ = "SLEEPING" THEN "RUNNABLE" ELSE @]
    BY <1>8, Zenon DEF Kill
  <2>2. CASE UNCHANGED <<state, killed>>
    BY <1>1, <2>2, Zenon
  <2>3. CASE ~UNCHANGED <<state, killed>>
    <3> DEFINE S == {q \in Slots : pid[q] = n}
               q == First(S)
    <3>1. q \in S
      BY <2>1, <2>3, FirstIn, Zenon
    <3>2. q \in Slots /\ pid[q] # 0
      BY <3>1, Zenon
    <3>3. /\ killed' = [killed EXCEPT ![q] = TRUE]
          /\ state' = [state EXCEPT ![q] =
                         IF @ = "SLEEPING" THEN "RUNNABLE" ELSE @]
      BY <2>1, <2>3, Zenon
    <3> HIDE DEF q
    <3>4. state[q] # "UNUSED"
      BY <3>2, Zenon DEF Pids
    <3> QED
      BY <3>2, <3>3, <3>4 DEF BornAlive, TypeOK
  <2> QED
    BY <2>2, <2>3, Zenon
<1>9. CASE UNCHANGED vars
  BY <1>1, <1>9, Zenon DEF vars
<1> QED
  BY <1>2, <1>3, <1>4, <1>5, <1>6, <1>7, <1>8, <1>9, Zenon DEF Next, Kernel, Quiet

(* kill and freeproc: unless someone calls kill(0), a slot that is not in  *)
(* use is not killed, so that the next process in it is not born killed.   *)
THEOREM BornUnkilled ==
  ASSUME 0 \notin KillPids
  PROVE  Spec => []BornAlive
<1>1. Init => BornAlive
  BY Zenon DEF Init, BornAlive
<1>2. IInv /\ BornAlive /\ [Next]_vars => BornAlive'
  BY NextBornAlive, Zenon
<1> QED
  BY Invariant, <1>1, <1>2, PTL DEF Spec
-----------------------------------------------------------------------------
LEMMA NextShell == IInv /\ Shell /\ [Next]_vars => Shell'
<1> SUFFICES ASSUME IInv, Shell, [Next]_vars PROVE Shell'
  BY Zenon
<1> USE DEF IInv, table, locks, Goto, At
<1>0. /\ initproc \in Slots /\ NoProc \notin Slots /\ 0 \notin Slots
      /\ state[initproc] \notin Dead
  <2>1. /\ initproc \in Slots /\ NoProc \notin Slots /\ 0 \notin Slots
    BY ProcAssumption DEF Slots, initproc, NoProc
  <2> QED
    BY <2>1, Zenon DEF Families
(* What a step of others may do. *)
<1>1. ASSUME sh' = sh, Place(initproc)' = Place(initproc),
             sh # 0 => state'[sh] \notin {"UNUSED", "USED"} /\ parent'[sh] = initproc
      PROVE  Shell'
  BY <1>1, Zenon DEF Shell, Forking
(* Steps that only move the thread of init, with the table as it is. *)
<1>2. ASSUME UNCHANGED <<sh, state, parent>>,
             \/ Place(initproc)' \in {"user", "exit", "panic"}
             \/ sh = 0 /\ Place(initproc)' = "fork"
             \/ sh # 0 /\ Place(initproc)' \in {"wait", "wait scan", "wait sleep"}
      PROVE  Shell'
  BY <1>2, Zenon DEF Shell, Forking
<1>3. ASSUME NEW p \in Slots,
             Dispatch(p) \/ Sched(p) \/ Yield(p)
      PROVE  Shell'
  <2>1. UNCHANGED <<sh, parent>>
    BY <1>3 DEF Dispatch, Sched, Yield
  <2>2. Place(initproc)' = Place(initproc)
    <3>1. CASE Dispatch(p)
      BY <3>1 DEF Dispatch, Place
    <3>2. CASE Sched(p)
      BY <1>0, <3>2 DEF Sched, Place, TypeOK, Places
    <3>3. CASE Yield(p)
      BY <1>0, <3>3, Zenon DEF Yield, EnterSched, Stacks, Place, TypeOK, Places
    <3> QED
      BY <1>3, <3>1, <3>2, <3>3, Zenon
  <2>3. \A q \in Slots : \/ state'[q] = state[q]
                         \/ state'[q] \in {"RUNNABLE", "RUNNING"}
    BY <1>3 DEF Dispatch, Sched, Yield, EnterSched, TypeOK
  <2> QED
    BY <1>1, <2>1, <2>2, <2>3 DEF Shell
<1>4. ASSUME \/ UserTrap(initproc) \/ Return(initproc)
             \/ InitExits(initproc) \/ ForkFails(initproc)
      PROVE  Shell'
  <2>1. UNCHANGED <<sh, state, parent>>
    BY <1>4 DEF UserTrap, Return, InitExits, ForkFails
  <2>2. \/ pc'[initproc] \in {"user", "exit", "panic"}
        \/ pc'[initproc] = IF sh = 0 THEN "fork" ELSE "wait"
    BY <1>0, <1>4, Zenon DEF UserTrap, Calls, Return, InitExits, ForkFails, TypeOK
  <2>3. Place(initproc)' = pc'[initproc]
    BY <2>2 DEF Place
  <2> QED
    BY <1>2, <2>1, <2>2, <2>3, Zenon
<1>5. ASSUME WaitFails(initproc) PROVE Shell'
  <2>1. UNCHANGED <<sh, state, parent>> /\ pc'[initproc] = "exit"
    BY <1>0, <1>5, Zenon DEF WaitFails, TypeOK
  <2> QED
    BY <1>2, <2>1, Zenon DEF Place
<1>6. ASSUME Fork(initproc) \/ ForkParent(initproc) PROVE Shell'
  <2>1. /\ Place(initproc) \in {"fork", "fork parent"}
        /\ sh' = sh
        /\ pc'[initproc] \in {"fork parent", "fork run"}
    BY <1>0, <1>6 DEF Fork, ForkParent, Place, TypeOK
  <2>2. sh = 0
    BY <2>1, Zenon DEF Shell, Forking
  <2> QED
    BY <2>1, <2>2 DEF Shell, Forking, Place
<1>7. ASSUME ForkRun(initproc) PROVE Shell'
  <2>1. /\ np[initproc] \in Slots /\ state[np[initproc]] = "USED"
        /\ parent[np[initproc]] = initproc
    BY <1>0, <1>7 DEF ForkRun, Forks, Forking, Place
  <2>2. /\ sh' = np[initproc] /\ state'[sh'] = "RUNNABLE"
        /\ parent' = parent /\ pc'[initproc] = "return"
    BY <1>0, <1>7, <2>1 DEF ForkRun, Pids, TypeOK
  <2> QED
    BY <1>0, <2>1, <2>2, Zenon DEF Shell, Forking, Place
<1>8. ASSUME \/ ExitReparent(initproc) \/ ExitWakeup(initproc)
             \/ ExitZombie(initproc) \/ Kill(initproc)
      PROVE  FALSE
  <2>1. \/ ExitReparent(initproc)
        \/ pc[initproc] \in {"exit wakeup", "exit zombie", "kill"}
    BY <1>8 DEF ExitWakeup, ExitZombie, Kill
  <2> QED
    BY <1>0, <2>1, Zenon DEF ExitReparent, Shell, Families, Place
<1>9. ASSUME WaitLock(initproc) \/ WaitNothing(initproc) PROVE Shell'
  <2>1. /\ UNCHANGED <<sh, state, parent>>
        /\ pc'[initproc] \in {"wait scan", "wait sleep"}
        /\ pc[initproc] \in {"wait", "wait scan"}
    BY <1>0, <1>9, Zenon DEF WaitLock, WaitNothing, TypeOK
  <2>2. sh # 0 /\ Place(initproc)' = pc'[initproc]
    BY <2>1 DEF Shell, Place
  <2> QED
    BY <1>2, <2>1, <2>2
<1>10. ASSUME WaitSleep(initproc) PROVE Shell'
  <2>1. /\ UNCHANGED <<sh, parent>>
        /\ pc'[initproc] = "sched" /\ k'[initproc] = "wait"
        /\ pc[initproc] = "wait sleep"
        /\ state' = [state EXCEPT ![initproc] = "SLEEPING"]
    BY <1>0, <1>10, Zenon DEF WaitSleep, EnterSched, TypeOK
  <2>2. sh # 0 /\ Place(initproc)' = "wait"
    BY <2>1 DEF Shell, Place
  <2>3. state'[sh] \notin {"UNUSED", "USED"}
    BY <2>1, <2>2 DEF Shell, TypeOK
  <2> QED
    BY <2>1, <2>2, <2>3 DEF Shell, Forking
<1>11. ASSUME NEW p \in Slots, WaitReap(p) PROVE Shell'
  <2> DEFINE q == First(Zombies(p))
  <2>1. /\ q \in Slots \ {p} /\ state[q] = "ZOMBIE" /\ parent[q] = p
    BY <1>11, Reaped
  <2>2. /\ state' = [state EXCEPT ![q] = "UNUSED"]
        /\ parent' = [parent EXCEPT ![q] = NoProc]
        /\ sh' = IF p = initproc /\ pid[q] = sh THEN 0 ELSE sh
        /\ pc' = [pc EXCEPT ![p] = "return", ![q] = "user"]
        /\ k' = k /\ pc[p] = "wait scan"
    BY <1>11, Zenon DEF WaitReap
  <2> HIDE DEF q
  <2>3. q # initproc /\ pid[q] = q
    BY <1>0, <2>1, Zenon DEF Dead, Pids
  <2>5. sh # q => sh' = sh
    BY <2>2, <2>3, Zenon
  <2>6. sh \in Slots \ {q} =>
          /\ state'[sh] = state[sh] /\ parent'[sh] = parent[sh]
    BY <2>2, Zenon DEF TypeOK
  <2>7. CASE p = initproc
    <3>1. sh # 0 /\ Place(initproc)' = "return"
      BY <1>0, <2>1, <2>2, <2>3, <2>7 DEF Shell, Place, TypeOK
    <3>2. CASE sh = q
      <4>1. sh' = 0
        BY <2>2, <2>3, <2>7, <3>2
      <4> QED
        BY <3>1, <4>1, Zenon DEF Shell, Forking
    <3>3. CASE sh # q
      BY <2>5, <2>6, <3>1, <3>3 DEF Shell, Forking
    <3> QED
      BY <3>2, <3>3
  <2>8. CASE p # initproc
    <3>1. sh # q
      BY <1>0, <2>1, <2>8 DEF Shell
    <3>2. Place(initproc)' = Place(initproc)
      BY <1>0, <2>1, <2>2, <2>3, <2>8 DEF Place, TypeOK
    <3> QED
      BY <1>1, <2>5, <2>6, <3>1, <3>2, Zenon DEF Shell
  <2> QED
    BY <2>7, <2>8, Zenon
(* From here on the step is one of another process. *)
<1>13. ASSUME NEW p \in Slots \ {initproc}, Fork(p) PROVE Shell'
  <2>1. PICK q \in Unused : /\ state' = [state EXCEPT ![q] = "USED"]
                            /\ pc' = [pc EXCEPT ![p] = "fork parent"]
    BY <1>13 DEF Fork
  <2>2. UNCHANGED <<sh, parent, k>>
    BY <1>13, Zenon DEF Fork
  <2>3. Place(initproc)' = Place(initproc)
    BY <1>0, <2>1, <2>2, Zenon DEF Place, TypeOK
  <2>4. sh # 0 => state'[sh] \notin {"UNUSED", "USED"}
    BY <2>1, Zenon DEF Shell, Unused, TypeOK
  <2> QED
    BY <1>1, <2>2, <2>3, <2>4, Zenon DEF Shell
<1>14. ASSUME NEW p \in Slots \ {initproc},
              \/ UserTrap(p) \/ Return(p) \/ InitExits(p) \/ ForkFails(p)
              \/ WaitLock(p) \/ WaitFails(p) \/ WaitNothing(p)
       PROVE  Shell'
  <2>1. UNCHANGED <<sh, state, parent, k>>
    BY <1>14 DEF UserTrap, Return, InitExits, ForkFails, WaitLock, WaitFails,
       WaitNothing
  <2>2. pc'[initproc] = pc[initproc]
    BY <1>0, <1>14 DEF UserTrap, Return, InitExits, ForkFails, WaitLock,
       WaitFails, WaitNothing, TypeOK
  <2> QED
    BY <1>1, <2>1, <2>2, Zenon DEF Shell, Place
<1>15. ASSUME NEW p \in Slots \ {initproc}, ForkParent(p) PROVE Shell'
  <2>1. /\ UNCHANGED <<sh, state, k>>
        /\ parent' = [parent EXCEPT ![np[p]] = p]
        /\ np[p] \in Slots /\ state[np[p]] = "USED"
        /\ pc'[initproc] = pc[initproc]
    BY <1>0, <1>15 DEF ForkParent, Forks, Forking, Place, TypeOK
  <2>2. sh # 0 => parent'[sh] = initproc
    BY <2>1 DEF Shell, TypeOK
  <2> QED
    BY <1>1, <2>1, <2>2, Zenon DEF Shell, Place
<1>16. ASSUME NEW p \in Slots \ {initproc}, ForkRun(p) PROVE Shell'
  <2>1. /\ UNCHANGED <<sh, parent, k>>
        /\ state' = [state EXCEPT ![np[p]] = "RUNNABLE"]
        /\ np[p] \in Slots /\ pc'[initproc] = pc[initproc]
    BY <1>0, <1>16 DEF ForkRun, Forks, Forking, Place, TypeOK
  <2>2. sh # 0 => state'[sh] \notin {"UNUSED", "USED"}
    BY <2>1, Zenon DEF Shell, TypeOK
  <2> QED
    BY <1>1, <2>1, <2>2, Zenon DEF Shell, Place
<1>17. ASSUME NEW p \in Slots \ {initproc}, ExitReparent(p) PROVE Shell'
  <2>1. /\ UNCHANGED <<sh, k>>
        /\ parent' = [q \in Slots |-> IF parent[q] = p THEN initproc ELSE parent[q]]
        /\ state' = state \/ Woke(initproc)
        /\ pc' = [pc EXCEPT ![p] = "exit wakeup"]
    BY <1>17, Reparented, Zenon
  <2>2. \A q \in Slots : \/ state'[q] = state[q]
                         \/ state[q] = "SLEEPING" /\ state'[q] = "RUNNABLE"
    BY <2>1, Zenon DEF Woke
  <2>3. sh # 0 => state'[sh] \notin {"UNUSED", "USED"} /\ parent'[sh] = initproc
    BY <2>1, <2>2, Zenon DEF Shell
  <2>4. Place(initproc)' = Place(initproc)
    BY <1>0, <2>1, Zenon DEF Place, TypeOK
  <2> QED
    BY <1>1, <2>1, <2>3, <2>4 DEF Shell
<1>18. ASSUME NEW p \in Slots \ {initproc}, ExitWakeup(p) PROVE Shell'
  <2>1. Woke(parent[p])
    BY <1>18, WakeupWoke DEF ExitWakeup
  <2>2. /\ UNCHANGED <<sh, parent, k>>
        /\ pc'[initproc] = pc[initproc]
    BY <1>0, <1>18, Zenon DEF ExitWakeup, TypeOK
  <2>3. sh # 0 => state'[sh] \notin {"UNUSED", "USED"}
    BY <2>1 DEF Shell, Woke
  <2> QED
    BY <1>1, <2>2, <2>3 DEF Shell, Place
<1>19. ASSUME NEW p \in Slots \ {initproc}, ExitZombie(p) \/ WaitSleep(p)
       PROVE  Shell'
  <2>1. /\ UNCHANGED <<sh, parent>>
        /\ \E a \in {"ZOMBIE", "SLEEPING"} : state' = [state EXCEPT ![p] = a]
        /\ pc'[initproc] = pc[initproc] /\ k'[initproc] = k[initproc]
    BY <1>0, <1>19 DEF ExitZombie, WaitSleep, EnterSched, TypeOK
  <2>2. sh # 0 => state'[sh] \notin {"UNUSED", "USED"}
    BY <2>1, Zenon DEF Shell, TypeOK
  <2> QED
    BY <1>1, <2>1, <2>2, Zenon DEF Shell, Place
<1>20. ASSUME NEW p \in Slots \ {initproc}, Kill(p) PROVE Shell'
  <2>1. UNCHANGED <<sh, parent, k>> /\ pc'[initproc] = pc[initproc]
    BY <1>0, <1>20, Zenon DEF Kill, TypeOK
  <2>2. \A q \in Slots : \/ state'[q] = state[q]
                         \/ state[q] = "SLEEPING" /\ state'[q] = "RUNNABLE"
    BY <1>20 DEF Kill, TypeOK
  <2>3. sh # 0 => state'[sh] \notin {"UNUSED", "USED"}
    BY <2>2, Zenon DEF Shell
  <2> QED
    BY <1>1, <2>1, <2>3 DEF Shell, Place
<1>21. CASE UNCHANGED vars
  BY <1>1, <1>21, Zenon DEF vars, Shell, Place
<1>22. ASSUME NEW p \in Slots, Next,
              Dispatch(p) \/ Sched(p) \/ Yield(p) \/ UserTrap(p) \/ Kernel(p)
       PROVE  Shell'
  <2>1. CASE p = initproc
    BY <1>3, <1>4, <1>5, <1>6, <1>7, <1>8, <1>9, <1>10, <1>11, <1>22, <2>1
       DEF Kernel
  <2>2. CASE p # initproc
    BY <1>3, <1>11, <1>13, <1>14, <1>15, <1>16, <1>17, <1>18, <1>19, <1>20,
       <1>22, <2>2 DEF Kernel
  <2> QED
    BY <2>1, <2>2, Zenon
<1> QED
  BY <1>21, <1>22, Zenon DEF Next

(* fork, exit, reparent and wait: the parent of a process is alive, only   *)
(* init is without one, and init's wait always finds a child (its shell at *)
(* least), whoever is killed and whichever forks fail.                     *)
THEOREM ParentsAlive == Spec => []LiveParent
<1>1. Init => Shell
  <2> SUFFICES ASSUME Init PROVE Shell
    BY Zenon
  <2>1. initproc \in Slots
    BY ProcAssumption DEF Slots, initproc
  <2> QED
    BY <2>1, Zenon DEF Init, Shell, Forking, Place
<1>2. IInv /\ Shell /\ [Next]_vars => Shell'
  BY NextShell, Zenon
<1>3. IInv /\ Shell => LiveParent
  <2> SUFFICES ASSUME IInv, Shell PROVE LiveParent
    BY Zenon
  <2>1. pc[initproc] = "wait scan" => sh \in Children(initproc)
    BY Zenon DEF Shell, Place, Children
  <2> QED
    BY <2>1, Zenon DEF IInv, Families, LiveParent, Dead
<1> QED
  BY Invariant, <1>1, <1>2, <1>3, PTL DEF Spec
=============================================================================
