------------------------------- MODULE Console -------------------------------
(***************************************************************************)
(* Console input: consoleintr, called by uartintr for every character that *)
(* arrives, and consoleread, in the processes that read the console.       *)
(*                                                                         *)
(* consoleintr runs under cons.lock from start to end, and is one action;  *)
(* what it echoes is the subject of Uart.  consoleread holds the lock too  *)
(* (reader = p), and gives it up only in sleep; kill() takes no lock, and  *)
(* comes between any two of its steps.                                     *)
(*                                                                         *)
(* The indices r, w, e are 32-bit numbers in the code and numbers modulo   *)
(* UINT here.                                                              *)
(***************************************************************************)
EXTENDS Integers, FiniteSets, Sequences, SequencesExt

CONSTANTS
  ConsoleUsers,     \* processes that read the console
  Faulty,           \* those whose buffer is not mapped in full
  INPUT_BUF_SIZE,
  UINT,             \* 2^32
  ReadSizes,        \* the n of read()
  MaxTyped,         \* bound on the characters that arrive
  MaxReads          \* bound on the reads that start

ASSUME ConsoleAssumption ==
  /\ INPUT_BUF_SIZE \in Nat \ {0}
  /\ UINT \in {k * INPUT_BUF_SIZE : k \in 2 .. 8}
  /\ ReadSizes \subseteq 0 .. UINT - 1
  /\ Faulty \subseteq ConsoleUsers

VARIABLES
  cons,         \* buf, r, w, e
  reader,       \* who holds cons.lock between steps, 0 for nobody
  rd,           \* each process in consoleread: pc, n, target, killed
  typed,        \* number of characters that have arrived
  reads,        \* number of reads that have started
  delivered     \* ghost: what each process's last read stored and returned

cvars == <<cons, reader, rd, typed, reads, delivered>>

(* Newline (or '\r'), ^D, a letter, ^H (or delete), ^U.  ^P only prints,   *)
(* and NUL is ignored.                                                     *)
Stored == {"\n", "^D", "a"}
Keys == Stored \cup {"^H", "^U"}

Minus(a, b) == (a - b) % UINT
CharAt(i) == cons.buf[i % INPUT_BUF_SIZE]

ConsoleInit ==
  /\ cons = [buf |-> [k \in 0 .. INPUT_BUF_SIZE - 1 |-> ""],
             r |-> UINT - 1, w |-> UINT - 1, e |-> UINT - 1]
  /\ reader = 0
  /\ rd = [p \in ConsoleUsers |->
             [pc |-> "idle", n |-> 0, target |-> 0, killed |-> FALSE]]
  /\ typed = 0
  /\ reads = 0
  /\ delivered = [p \in ConsoleUsers |-> [text |-> <<>>, answer |-> 0]]

-----------------------------------------------------------------------------
(* The interrupt side *)

(* wakeup(&cons.r) *)
WakeReaders == [p \in ConsoleUsers |->
             IF rd[p].pc = "asleep" THEN [rd[p] EXCEPT !.pc = "loop"] ELSE rd[p]]

(* How many characters ^U takes back: to w or to the last newline. *)
Eraseable ==
  LET len == Minus(cons.e, cons.w)
      lines == {k \in 1 .. len : CharAt(Minus(cons.e, k)) = "\n"}
  IN  CHOOSE k \in 0 .. len : /\ k = len \/ k + 1 \in lines
                              /\ \A j \in lines : k < j

(* The default case: store, and enter the line when it is complete. *)
Store(c) ==
  LET e == (cons.e + 1) % UINT
      full == Minus(e, cons.r) = INPUT_BUF_SIZE
  IN  /\ Minus(cons.e, cons.r) < INPUT_BUF_SIZE
      /\ cons' = [cons EXCEPT !.buf[cons.e % INPUT_BUF_SIZE] = c, !.e = e,
                    !.w = IF c \in {"\n", "^D"} \/ full THEN e ELSE @]
      /\ rd' = IF c \in {"\n", "^D"} \/ full THEN WakeReaders ELSE rd

EraseBy(k) == cons' = [cons EXCEPT !.e = Minus(@, k)] /\ UNCHANGED rd

Consoleintr == \E c \in Keys :
  /\ reader = 0
  /\ typed < MaxTyped
  /\ typed' = typed + 1
  /\ \/ c = "^U" /\ EraseBy(Eraseable)
     \/ c = "^H" /\ EraseBy(IF cons.e # cons.w THEN 1 ELSE 0)
     \/ c \in Stored /\ Store(c)
     \/ /\ c \in Stored
        /\ Minus(cons.e, cons.r) >= INPUT_BUF_SIZE
        /\ UNCHANGED <<cons, rd>>
  /\ UNCHANGED <<reader, reads, delivered>>

-----------------------------------------------------------------------------
(* The reading side *)

ReadGoto(p, pc) == rd' = [rd EXCEPT ![p].pc = pc]
ReadReturn(p, value) ==
  /\ ReadGoto(p, "idle")
  /\ reader' = 0
  /\ delivered' = [delivered EXCEPT ![p].answer = value]

ReadStart(p) == \E n \in ReadSizes :
  /\ rd[p].pc = "idle" /\ ~ rd[p].killed
  /\ reads < MaxReads
  /\ reads' = reads + 1
  /\ rd' = [rd EXCEPT ![p].pc = "loop", ![p].n = n, ![p].target = n]
  /\ delivered' = [delivered EXCEPT ![p] = [text |-> <<>>, answer |-> 0]]
  /\ UNCHANGED <<cons, reader, typed>>

(* acquire(), first or after sleep(); then the test of the outer loop. *)
ReadAcquire(p) ==
  /\ rd[p].pc = "loop" /\ reader = 0
  /\ reader' = p
  /\ ReadGoto(p, "test")
  /\ UNCHANGED <<cons, typed, reads, delivered>>

ReadTest(p) ==
  /\ rd[p].pc = "test" /\ reader = p
  /\ \/ rd[p].n = 0 /\ ReadReturn(p, rd[p].target)
     \/ /\ rd[p].n > 0 /\ cons.r # cons.w
        /\ ReadGoto(p, "take") /\ UNCHANGED <<reader, delivered>>
     \/ /\ rd[p].n > 0 /\ cons.r = cons.w
        /\ IF rd[p].killed THEN ReadReturn(p, -1)
           ELSE ReadGoto(p, "sleep") /\ UNCHANGED <<reader, delivered>>
  /\ UNCHANGED <<cons, typed, reads>>

ReadSleep(p) ==
  /\ rd[p].pc = "sleep" /\ reader = p
  /\ ReadGoto(p, "asleep")
  /\ reader' = 0
  /\ UNCHANGED <<cons, typed, reads, delivered>>

(* Mutant: a ^D is always taken out of the buffer. *)
SaveNever(p) == FALSE

(* "Save ^D for next time, to make sure caller gets a 0-byte result." *)
SaveEof(p) == rd[p].n < rd[p].target

(* One character.  ^D ends the read: it is left for the next one when this *)
(* read has returned something; so do NL and a failing either_copyout.     *)
ReadTake(p) ==
  LET c == CharAt(cons.r)
      got == rd[p].target - rd[p].n
      Consume == cons' = [cons EXCEPT !.r = (@ + 1) % UINT]
      last == c = "\n"
  IN  /\ rd[p].pc = "take" /\ reader = p
      /\ \/ /\ c = "^D"
            /\ IF SaveEof(p) THEN UNCHANGED cons ELSE Consume
            /\ ReadReturn(p, got)
         \/ /\ c # "^D" /\ p \in Faulty
            /\ Consume
            /\ ReadReturn(p, got)
         \/ /\ c # "^D"
            /\ Consume
            /\ rd' = [rd EXCEPT ![p].n = @ - 1,
                                ![p].pc = IF last THEN "idle" ELSE "test"]
            /\ reader' = IF last THEN 0 ELSE reader
            /\ delivered' = [delivered EXCEPT
                               ![p].text = Append(@, c),
                               ![p].answer = IF last THEN got + 1 ELSE @]
      /\ UNCHANGED <<typed, reads>>

(* kill() by another process: sets killed and wakes a sleeper. *)
KillReader(p) ==
  /\ ~ rd[p].killed /\ rd[p].pc # "idle"
  /\ rd' = [rd EXCEPT ![p].killed = TRUE,
                      ![p].pc = IF @ = "asleep" THEN "loop" ELSE @]
  /\ UNCHANGED <<cons, reader, typed, reads, delivered>>

ConsoleNext ==
  \/ Consoleintr
  \/ \E p \in ConsoleUsers :
       \/ ReadStart(p)
       \/ ReadAcquire(p)
       \/ ReadTest(p)
       \/ ReadSleep(p)
       \/ ReadTake(p)
       \/ KillReader(p)

(* A process that runs goes on; nobody has to type, to read or to kill. *)
ConsoleFairness ==
  \A p \in ConsoleUsers :
    WF_cvars(ReadAcquire(p) \/ ReadTest(p) \/ ReadSleep(p) \/ ReadTake(p))

ConsoleSpec == ConsoleInit /\ [][ConsoleNext]_cvars /\ ConsoleFairness

-----------------------------------------------------------------------------
(* Properties *)

Slice(a, b) == [k \in 1 .. Minus(b, a) |-> CharAt((a + k - 1) % UINT)]

TTY == INSTANCE Terminal WITH
  Capacity <- INPUT_BUF_SIZE, Chars <- Stored, NL <- "\n", EOF <- "^D",
  Readers <- ConsoleUsers, Sizes <- ReadSizes,
  line <- Slice(cons.w, cons.e), queue <- Slice(cons.r, cons.w),
  read <- [p \in ConsoleUsers |->
             [open |-> rd[p].pc # "idle", want |-> rd[p].target,
              text |-> delivered[p].text, answer |-> delivered[p].answer]]

(* The ring of console.c, whose three indices wrap around and move under   *)
(* interrupts and readers, behaves as the line editor and queue of         *)
(* Terminal: erasing never reaches entered characters, nothing typed is    *)
(* lost (but by a failed copyout), repeated or overwritten, and a full     *)
(* buffer is entered rather than stuck.  Reads that overlap each get a     *)
(* part of the queue and return its length; a ^D ends the read that meets  *)
(* it, and is gone only when that read had nothing and so returns 0.       *)
ImplementsTerminal == TTY!TerminalSpec

(* With input entered and a reader in consoleread, somebody's read ends;   *)
(* in particular the wakeup that goes with w = e is never missed.          *)
ReaderServed ==
  \A p \in ConsoleUsers :
    []<>(rd[p].pc = "idle" \/ cons.r = cons.w)

=============================================================================
