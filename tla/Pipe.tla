--------------------------------- MODULE Pipe ---------------------------------
(***************************************************************************)
(* One pipe of kernel/pipe.c shared by processes that write and processes  *)
(* that read it: pipewrite and piperead byte by byte under pi->lock, their *)
(* sleeps, copyin and copyout that may fail, fileclose and pipeclose, and  *)
(* kill, which does not take pi->lock and may come at any point.           *)
(*                                                                         *)
(* A byte is the number of its position in the stream of all bytes put     *)
(* into the pipe.                                                          *)
(***************************************************************************)
EXTENDS Integers, FiniteSets

CONSTANTS
  Writers, Readers,  \* processes that hold the write end and the read end
  PIPESIZE,
  Word,              \* modulus of uint
  Counts,            \* byte counts asked for
  MaxBytes,          \* bound: bytes put into the pipe
  Killable,          \* processes that may be killed
  NIL

Procs == Writers \cup Readers

ASSUME PipeAssumption ==
  /\ Writers \cap Readers = {} /\ NIL \notin Procs
  /\ PIPESIZE \in Nat \ {0} /\ Word \in Nat
  /\ Word % PIPESIZE = 0 /\ Word > PIPESIZE
  /\ Counts \subseteq Nat /\ MaxBytes \in Nat /\ Killable \subseteq Procs

VARIABLES
  data, nread, nwrite, readopen, writeopen,   \* struct pipe
  lock,         \* holder of pi->lock
  freed,        \* kfree(pi) was called
  pc, i, n,     \* each process: where it is, bytes moved, bytes asked for
  killed,
  sent, taken   \* bytes put into and taken out of the pipe

pipe == <<data, nread, nwrite, readopen, writeopen, freed>>
hist == <<sent, taken>>
vars == <<pipe, lock, pc, i, n, killed, hist>>

Init ==
  /\ data = [x \in 0 .. PIPESIZE - 1 |-> 0]
  /\ nread = 0 /\ nwrite = 0
  /\ readopen = TRUE /\ writeopen = TRUE
  /\ lock = NIL /\ freed = FALSE
  /\ pc = [p \in Procs |-> "user"]
  /\ i = [p \in Procs |-> 0] /\ n = [p \in Procs |-> 0]
  /\ killed = [p \in Procs |-> FALSE]
  /\ sent = 0 /\ taken = 0

Goto(p, a) == pc' = [pc EXCEPT ![p] = a]

(* p runs at pc a with pi->lock held. *)
In(p, a) == lock = p /\ pc[p] = a

Asleep(p) == pc[p] = "asleep"

(* pc after a wakeup of the processes S while p goes to a. *)
WakeupGoto(S, p, a) ==
  pc' = [q \in Procs |-> IF q = p THEN a
                         ELSE IF q \in S /\ Asleep(q) THEN "woken" ELSE pc[q]]

(* The lock is let go and p goes to a. *)
Leave(p, a) == lock' = NIL /\ Goto(p, a)

Empty == nread = nwrite

(* Mutated form: one byte too many. *)
FullLate == nwrite = (nread + PIPESIZE + 1) % Word

Full == nwrite = (nread + PIPESIZE) % Word
-----------------------------------------------------------------------------
(* pipewrite and piperead take pi->lock. *)
Call(p) ==
  /\ pc[p] = "user" /\ lock = NIL /\ ~killed[p]
  /\ \E c \in Counts : n' = [n EXCEPT ![p] = c]
  /\ i' = [i EXCEPT ![p] = 0]
  /\ lock' = p
  /\ Goto(p, "loop")
  /\ UNCHANGED <<pipe, killed, hist>>

(* sleep returns: pi->lock again, and back to the head of the loop. *)
Resume(p) ==
  /\ pc[p] = "woken" /\ lock = NIL
  /\ lock' = p
  /\ Goto(p, "loop")
  /\ UNCHANGED <<pipe, i, n, killed, hist>>

(* The head of pipewrite's loop. *)
WriteLoop(p) ==
  /\ p \in Writers /\ In(p, "loop")
  /\ IF i[p] = n[p] THEN lock' = NIL /\ WakeupGoto(Readers, p, "user")
     ELSE IF ~readopen \/ killed[p] THEN Leave(p, "user")
     ELSE Goto(p, "body") /\ UNCHANGED lock
  /\ UNCHANGED <<pipe, i, n, killed, hist>>

(* The pipe is full: wakeup(&pi->nread), sleep(&pi->nwrite, &pi->lock). *)
WriteFull(p) ==
  /\ p \in Writers /\ In(p, "body") /\ Full
  /\ lock' = NIL
  /\ WakeupGoto(Readers, p, "asleep")
  /\ UNCHANGED <<pipe, i, n, killed, hist>>

(* pi->data[pi->nwrite++ % PIPESIZE] = ch *)
WritePut(p) ==
  /\ p \in Writers /\ In(p, "body") /\ ~Full
  /\ sent < MaxBytes
  /\ data' = [data EXCEPT ![nwrite % PIPESIZE] = sent + 1]
  /\ nwrite' = (nwrite + 1) % Word
  /\ i' = [i EXCEPT ![p] = @ + 1]
  /\ sent' = sent + 1
  /\ Goto(p, "loop")
  /\ UNCHANGED <<nread, readopen, writeopen, freed, lock, n, killed, taken>>

(* copyin fails: break, wakeup(&pi->nread). *)
WriteFault(p) ==
  /\ p \in Writers /\ In(p, "body") /\ ~Full
  /\ lock' = NIL
  /\ WakeupGoto(Readers, p, "user")
  /\ UNCHANGED <<pipe, i, n, killed, hist>>
-----------------------------------------------------------------------------
(* The head of piperead's first loop. *)
ReadLoop(p) ==
  /\ p \in Readers /\ In(p, "loop")
  /\ IF ~Empty \/ ~writeopen THEN Goto(p, "copy") /\ UNCHANGED lock
     ELSE IF killed[p] THEN Leave(p, "user")
     ELSE Goto(p, "sleep") /\ UNCHANGED lock
  /\ UNCHANGED <<pipe, i, n, killed, hist>>

(* sleep(&pi->nread, &pi->lock) *)
ReadSleep(p) ==
  /\ p \in Readers /\ In(p, "sleep")
  /\ Leave(p, "asleep")
  /\ UNCHANGED <<pipe, i, n, killed, hist>>

(* One byte is taken out; when copyout fails it is gone. *)
ReadTake(p) ==
  /\ p \in Readers /\ In(p, "copy") /\ i[p] < n[p] /\ ~Empty
  /\ nread' = (nread + 1) % Word
  /\ taken' = taken + 1
  /\ \/ i' = [i EXCEPT ![p] = @ + 1] /\ UNCHANGED <<lock, pc>>
     \/ lock' = NIL /\ WakeupGoto(Writers, p, "user") /\ UNCHANGED i
  /\ UNCHANGED <<data, nwrite, readopen, writeopen, freed, n, killed, sent>>

(* Mutated form: the writers are not woken. *)
ReadDoneQuiet(p) ==
  /\ p \in Readers /\ In(p, "copy") /\ (i[p] = n[p] \/ Empty)
  /\ Leave(p, "user")
  /\ UNCHANGED <<pipe, i, n, killed, hist>>

(* wakeup(&pi->nwrite) and return. *)
ReadDone(p) ==
  /\ p \in Readers /\ In(p, "copy") /\ (i[p] = n[p] \/ Empty)
  /\ lock' = NIL
  /\ WakeupGoto(Writers, p, "user")
  /\ UNCHANGED <<pipe, i, n, killed, hist>>
-----------------------------------------------------------------------------
Side(p) == IF p \in Writers THEN Writers ELSE Readers

HoldsEnd(p) == pc[p] \notin {"closing", "closed"}

(* close, or exit of a killed process: fileclose drops p's reference, and  *)
(* the last one of its side goes on to pipeclose.                          *)
Close(p) ==
  /\ pc[p] = "user"
  /\ Goto(p, IF \E q \in Side(p) \ {p} : HoldsEnd(q) THEN "closed" ELSE "closing")
  /\ UNCHANGED <<pipe, lock, i, n, killed, hist>>

(* Mutated form: the memory is freed with the first end. *)
GoneEarly(p) == TRUE

(* After p's end is closed the other one is closed, too. *)
Gone(p) == IF p \in Writers THEN ~readopen ELSE ~writeopen

PipeClose(p) ==
  /\ pc[p] = "closing" /\ lock = NIL
  /\ IF p \in Writers
     THEN writeopen' = FALSE /\ WakeupGoto(Readers, p, "closed") /\ UNCHANGED readopen
     ELSE readopen' = FALSE /\ WakeupGoto(Writers, p, "closed") /\ UNCHANGED writeopen
  /\ freed' = Gone(p)
  /\ UNCHANGED <<data, nread, nwrite, lock, i, n, killed, hist>>

(* kill: a sleeping process is made RUNNABLE. *)
Kill(p) ==
  /\ p \in Killable /\ ~killed[p] /\ HoldsEnd(p)
  /\ killed' = [killed EXCEPT ![p] = TRUE]
  /\ Goto(p, IF Asleep(p) THEN "woken" ELSE pc[p])
  /\ UNCHANGED <<pipe, lock, i, n, hist>>

Next ==
  \E p \in Procs :
    \/ Call(p) \/ Resume(p)
    \/ WriteLoop(p) \/ WriteFull(p) \/ WritePut(p) \/ WriteFault(p)
    \/ ReadLoop(p) \/ ReadSleep(p) \/ ReadTake(p) \/ ReadDone(p)
    \/ Close(p) \/ PipeClose(p) \/ Kill(p)

Spec == Init /\ [][Next]_vars
-----------------------------------------------------------------------------
Unread == (nwrite - nread) % Word

(* The ring holds the bytes that were put in and not yet taken out, all of *)
(* them, in order and never more than PIPESIZE, also when the counters     *)
(* wrap.                                                                   *)
InOrder ==
  /\ Unread <= PIPESIZE /\ Unread = sent - taken
  /\ \A j \in 0 .. Unread - 1 : data[(nread + j) % PIPESIZE] = taken + j + 1

(* The memory of the pipe is freed only when no process is in, or asleep   *)
(* in, pipewrite or piperead or can get there.                             *)
FreedUnused == freed => \A p \in Procs : pc[p] = "closed"

(* pipe-empty, pipewrite-full: with the lock free, a reader sleeps only    *)
(* while the pipe is empty and has a writer, and a writer only while it is *)
(* full and has a reader, so that they never wait for one another.         *)
SleepsForCause ==
  lock = NIL =>
    /\ \A p \in Readers : Asleep(p) => Empty /\ writeopen
    /\ \A p \in Writers : Asleep(p) => Full /\ readopen

(* The same as long as no writer has been killed. *)
SleepsUnlessKilled == (\A p \in Writers : ~killed[p]) => SleepsForCause
=============================================================================
