-------------------------------- MODULE Uart --------------------------------
(***************************************************************************)
(* Console output: uart.c's transmit ring, filled by consolewrite through  *)
(* uartputc and emptied by uartstart from both halves of the driver, and   *)
(* uartputc_sync, by which printf and the echo of typed characters write   *)
(* to the same register without the ring's lock.                           *)
(*                                                                         *)
(* The UART (16550) is external: a FIFO that shifts its characters out,    *)
(* tells whether it is empty (LSR_TX_IDLE) and interrupts when it becomes  *)
(* empty.  Characters of the ring are numbered; 0 is one sent by           *)
(* uartputc_sync.                                                          *)
(***************************************************************************)
EXTENDS Integers, FiniteSets, Sequences, SequencesExt

CONSTANTS
  TtyWriters,           \* processes in consolewrite
  Echoers,              \* CPUs that echo or print
  UART_TX_BUF_SIZE,
  FifoDepth,            \* 16
  MaxPuts, MaxEchoes,   \* bounds on the characters of a behaviour
  MaxWakes              \* bound on the sleepers that kill() wakes

ASSUME UartAssumption ==
  /\ UART_TX_BUF_SIZE \in Nat \ {0}
  /\ FifoDepth > Cardinality(Echoers)

VARIABLES
  tx,           \* uart_tx_buf, uart_tx_w, uart_tx_r
  txlock,       \* who holds uart_tx_lock, 0 for nobody
  put,          \* where each writer, and the interrupt handler, is
  echo,         \* where each echoing CPU is
  thr,          \* the character uartstart is about to write
  fifo, wire,   \* characters in the UART, and those of the ring it has sent
  txirq,        \* the UART asks for attention
  panicked,     \* panic() on some CPU has frozen the output of the others
  puts, echoes, wakes

uvars == <<tx, txlock, put, echo, thr, fifo, wire, txirq, puts, echoes,
           wakes, panicked>>

Intr == "intr"
Threads == TtyWriters \cup {Intr}

UartInit ==
  /\ tx = [buf |-> [k \in 0 .. UART_TX_BUF_SIZE - 1 |-> 0], w |-> 0, r |-> 0]
  /\ txlock = {}
  /\ put = [t \in Threads |-> "idle"]
  /\ echo = [k \in Echoers |-> "idle"]
  /\ thr = 0
  /\ fifo = <<>>
  /\ wire = <<>>
  /\ txirq = FALSE
  /\ panicked = FALSE
  /\ puts = 0
  /\ echoes = 0
  /\ wakes = 0

-----------------------------------------------------------------------------
(* consolewrite calls uartputc once for every character. *)
Uartputc(p) ==
  /\ put[p] = "idle" /\ puts < MaxPuts
  /\ puts' = puts + 1
  /\ put' = [put EXCEPT ![p] = "acquire"]
  /\ UNCHANGED <<tx, txlock, echo, thr, fifo, wire, txirq, echoes, wakes, panicked>>

(* With the lock: spin for ever after a panic, which is looked at once;    *)
(* sleep while the ring is full, or store the character.                   *)
UartputcStore(p) ==
  /\ p \in TtyWriters /\ put[p] \in {"acquire", "woken"} /\ txlock = {}
  /\ \/ /\ put[p] = "acquire" /\ panicked
        /\ put' = [put EXCEPT ![p] = "frozen"]
        /\ txlock' = {p}
        /\ UNCHANGED tx
     \/ /\ put[p] = "woken" \/ ~ panicked
        /\ tx.w = tx.r + UART_TX_BUF_SIZE
        /\ put' = [put EXCEPT ![p] = "asleep"]
        /\ UNCHANGED <<tx, txlock>>
     \/ /\ put[p] = "woken" \/ ~ panicked
        /\ tx.w # tx.r + UART_TX_BUF_SIZE
        /\ tx' = [tx EXCEPT !.buf[tx.w % UART_TX_BUF_SIZE] = tx.w + 1,
                            !.w = @ + 1]
        /\ txlock' = {p}
        /\ put' = [put EXCEPT ![p] = "start"]
  /\ UNCHANGED <<echo, thr, fifo, wire, txirq, puts, echoes, wakes, panicked>>

(* kill() makes a sleeping writer run, whatever the ring is like. *)
KillWriter(p) ==
  /\ put[p] = "asleep" /\ wakes < MaxWakes
  /\ wakes' = wakes + 1
  /\ put' = [put EXCEPT ![p] = "woken"]
  /\ UNCHANGED <<tx, txlock, echo, thr, fifo, wire, txirq, puts, echoes, panicked>>

(* wakeup(&uart_tx_r) *)
WakeWriters(pcs) ==
  [t \in Threads |-> IF pcs[t] = "asleep" THEN "woken" ELSE pcs[t]]

(* Mutant: does not ask whether the UART is idle. *)
UartstartBlind(t) ==
  /\ put[t] = "start"
  /\ \/ /\ tx.w = tx.r
        /\ put' = [put EXCEPT ![t] = "idle"]
        /\ txlock' = {}
        /\ UNCHANGED <<tx, thr>>
     \/ /\ tx.w # tx.r
        /\ thr' = tx.buf[tx.r % UART_TX_BUF_SIZE]
        /\ tx' = [tx EXCEPT !.r = @ + 1]
        /\ put' = [WakeWriters(put) EXCEPT ![t] = "thr"]
        /\ UNCHANGED txlock
  /\ UNCHANGED <<echo, fifo, wire, txirq, puts, echoes, wakes, panicked>>

(* uartstart, up to the write: its two returns, or the next character. *)
Uartstart(t) ==
  /\ put[t] = "start"
  /\ \/ /\ tx.w = tx.r \/ fifo # <<>>
        /\ put' = [put EXCEPT ![t] = "idle"]
        /\ txlock' = {}
        /\ UNCHANGED <<tx, thr>>
     \/ /\ tx.w # tx.r /\ fifo = <<>>
        /\ thr' = tx.buf[tx.r % UART_TX_BUF_SIZE]
        /\ tx' = [tx EXCEPT !.r = @ + 1]
        /\ put' = [WakeWriters(put) EXCEPT ![t] = "thr"]
        /\ UNCHANGED txlock
  /\ UNCHANGED <<echo, fifo, wire, txirq, puts, echoes, wakes, panicked>>

UartstartWrite(t) ==
  /\ put[t] = "thr"
  /\ fifo' = Append(fifo, thr)
  /\ thr' = 0
  /\ put' = [put EXCEPT ![t] = "start"]
  /\ UNCHANGED <<tx, txlock, echo, wire, txirq, puts, echoes, wakes, panicked>>

(* uartintr: the PLIC delivers the interrupt once. *)
Uartintr ==
  /\ put[Intr] = "idle" /\ txirq
  /\ txirq' = FALSE
  /\ put' = [put EXCEPT ![Intr] = "acquire"]
  /\ UNCHANGED <<tx, txlock, echo, thr, fifo, wire, puts, echoes, wakes, panicked>>

UartintrLock ==
  /\ put[Intr] = "acquire" /\ txlock = {}
  /\ txlock' = {Intr}
  /\ put' = [put EXCEPT ![Intr] = "start"]
  /\ UNCHANGED <<tx, echo, thr, fifo, wire, txirq, puts, echoes, wakes, panicked>>

(* uartputc_sync: not after a panic; spin until the UART is idle, then     *)
(* write.                                                                  *)
EchoStart(k) ==
  /\ echo[k] = "idle" /\ echoes < MaxEchoes /\ ~ panicked
  /\ echo' = [echo EXCEPT ![k] = "spin"]
  /\ echoes' = echoes + 1
  /\ UNCHANGED <<tx, txlock, put, thr, fifo, wire, txirq, puts, wakes, panicked>>

EchoTest(k) ==
  /\ echo[k] = "spin" /\ fifo = <<>>
  /\ echo' = [echo EXCEPT ![k] = "thr"]
  /\ UNCHANGED <<tx, txlock, put, thr, fifo, wire, txirq, puts, echoes, wakes, panicked>>

(* The interrupt that brought a character to echo goes on to uartstart;    *)
(* printf does not.                                                        *)
EchoWrite(k) ==
  /\ echo[k] = "thr"
  /\ fifo' = Append(fifo, 0)
  /\ echo' = [echo EXCEPT ![k] = "idle"]
  /\ \/ UNCHANGED put
     \/ put[Intr] = "idle" /\ put' = [put EXCEPT ![Intr] = "acquire"]
  /\ UNCHANGED <<tx, txlock, thr, wire, txirq, puts, echoes, wakes, panicked>>

(* The UART sends a character. *)
Shift ==
  /\ fifo # <<>>
  /\ wire' = IF fifo[1] = 0 THEN wire ELSE Append(wire, fifo[1])
  /\ fifo' = Tail(fifo)
  /\ txirq' = (txirq \/ Len(fifo) = 1)
  /\ UNCHANGED <<tx, txlock, put, echo, thr, puts, echoes, wakes, panicked>>

(* The end of panic(), which has printed its message as above. *)
Freeze ==
  /\ ~ panicked
  /\ panicked' = TRUE
  /\ UNCHANGED <<tx, txlock, put, echo, thr, fifo, wire, txirq, puts, echoes, wakes>>

UartNext ==
  \/ \E p \in TtyWriters : Uartputc(p) \/ UartputcStore(p) \/ KillWriter(p)
  \/ \E t \in Threads : Uartstart(t) \/ UartstartWrite(t)
  \/ Uartintr
  \/ UartintrLock
  \/ \E k \in Echoers : EchoStart(k) \/ EchoTest(k) \/ EchoWrite(k)
  \/ Shift
  \/ Freeze

(* CPUs execute, and the UART sends. *)
UartFairness ==
  /\ \A p \in TtyWriters :
       WF_uvars(UartputcStore(p) \/ Uartstart(p) \/ UartstartWrite(p))
  /\ WF_uvars(Uartintr \/ UartintrLock \/ Uartstart(Intr) \/ UartstartWrite(Intr))
  /\ \A k \in Echoers : WF_uvars(EchoWrite(k))
  /\ WF_uvars(Shift)

UartSpec == UartInit /\ [][UartNext]_uvars /\ UartFairness

-----------------------------------------------------------------------------
(* Properties *)

(* The characters of write() go out once each and in the order uartputc    *)
(* stored them, although uartstart runs in processes and in interrupts and *)
(* although uartputc_sync takes the idle UART from under it; and the       *)
(* writers that saw it idle at the same time never fill its FIFO: there is *)
(* at most one of them on every CPU.                                       *)
OutputInOrder ==
  /\ wire = [k \in 1 .. Len(wire) |-> k]
  /\ wire \o SelectSeq(Append(fifo, thr), LAMBDA c : c # 0) =
       [k \in 1 .. tx.r |-> k]
  /\ Len(fifo) <= FifoDepth

(* Every writer returns and the ring empties: nobody sleeps on a full ring *)
(* that nobody will empty, and the last characters do not wait in the ring *)
(* for an interrupt that came before they were stored; unless some CPU     *)
(* panics, after which uartputc spins with the ring's lock.                *)
OutputDrains ==
  /\ \A p \in TtyWriters : []<>(put[p] = "idle" \/ panicked)
  /\ []<>(panicked \/ (tx.r = tx.w /\ fifo = <<>>))

=============================================================================
