----------------------------- MODULE MCProgress -----------------------------
(***************************************************************************)
(* What the kernel owes those who wait in it: the drivers and the log for  *)
(* TLC, with fairness.  They share no variables, so a behaviour runs one   *)
(* of them, which ProgressInit picks, and the others stay as they are.     *)
(***************************************************************************)
EXTENDS Virtio, Console, Uart, Ticks, Log

CONSTANT Parts
VARIABLE part

ProgressVars == <<vvars, cvars, uvars, tvars, vars, part>>

ProgressInit ==
  /\ part \in Parts
  /\ VirtioInit
  /\ ConsoleInit
  /\ UartInit
  /\ TicksInit
  /\ Init
  /\ part # "log" => booting = CHOOSE p \in Procs : TRUE

DiskOnly == UNCHANGED <<cvars, uvars, tvars, vars, part>>
InputOnly == UNCHANGED <<vvars, uvars, tvars, vars, part>>
OutputOnly == UNCHANGED <<vvars, cvars, tvars, vars, part>>
ClockOnly == UNCHANGED <<vvars, cvars, uvars, vars, part>>
LogOnly == UNCHANGED <<vvars, cvars, uvars, tvars, part>>

ProgressNext ==
  \/ \E p \in DiskUsers : part = "disk" /\ Rw(p) /\ DiskOnly
  \/ \E p \in DiskUsers : part = "disk" /\ RwRetry(p) /\ DiskOnly
  \/ \E p \in DiskUsers : part = "disk" /\ RwWoken(p) /\ DiskOnly
  \/ \E p \in DiskUsers : part = "disk" /\ KillUser(p) /\ DiskOnly
  \/ part = "disk" /\ IntrAck /\ DiskOnly
  \/ part = "disk" /\ IntrOne /\ DiskOnly
  \/ part = "disk" /\ IntrDone /\ DiskOnly
  \/ part = "disk" /\ DeviceTake /\ DiskOnly
  \/ \E id \in Desc : part = "disk" /\ DeviceDo(id) /\ DiskOnly
  \/ part = "disk" /\ DeviceRaise /\ DiskOnly
  \/ part = "input" /\ Consoleintr /\ InputOnly
  \/ \E p \in ConsoleUsers : part = "input" /\ ReadStart(p) /\ InputOnly
  \/ \E p \in ConsoleUsers : part = "input" /\ ReadAcquire(p) /\ InputOnly
  \/ \E p \in ConsoleUsers : part = "input" /\ ReadTest(p) /\ InputOnly
  \/ \E p \in ConsoleUsers : part = "input" /\ ReadSleep(p) /\ InputOnly
  \/ \E p \in ConsoleUsers : part = "input" /\ ReadTake(p) /\ InputOnly
  \/ \E p \in ConsoleUsers : part = "input" /\ KillReader(p) /\ InputOnly
  \/ \E p \in TtyWriters : part = "output" /\ Uartputc(p) /\ OutputOnly
  \/ \E p \in TtyWriters : part = "output" /\ UartputcStore(p) /\ OutputOnly
  \/ \E p \in TtyWriters : part = "output" /\ KillWriter(p) /\ OutputOnly
  \/ \E t \in Threads : part = "output" /\ Uartstart(t) /\ OutputOnly
  \/ \E t \in Threads : part = "output" /\ UartstartWrite(t) /\ OutputOnly
  \/ part = "output" /\ Uartintr /\ OutputOnly
  \/ part = "output" /\ UartintrLock /\ OutputOnly
  \/ \E k \in Echoers : part = "output" /\ EchoStart(k) /\ OutputOnly
  \/ \E k \in Echoers : part = "output" /\ EchoTest(k) /\ OutputOnly
  \/ \E k \in Echoers : part = "output" /\ EchoWrite(k) /\ OutputOnly
  \/ part = "output" /\ Shift /\ OutputOnly
  \/ part = "output" /\ Freeze /\ OutputOnly
  \/ part = "clock" /\ Clockintr /\ ClockOnly
  \/ \E p \in Sleepers : part = "clock" /\ SysSleep(p) /\ ClockOnly
  \/ \E p \in Sleepers : part = "clock" /\ SleepTest(p) /\ ClockOnly
  \/ \E p \in Sleepers : part = "clock" /\ SleepWait(p) /\ ClockOnly
  \/ \E p \in Sleepers : part = "clock" /\ KillSleeper(p) /\ ClockOnly
  \/ \E p \in Procs : part = "log" /\ Step(p) /\ LogOnly
  \/ \E p \in Procs : part = "log" /\ StartOp(p) /\ LogOnly
  \/ part = "log" /\ Crash /\ LogOnly

(* Recovery and the clock run although nobody has asked for them, so their *)
(* fairness is that of their part; all other steps answer a request.       *)
Fairness ==
  /\ VirtioFairness
  /\ ConsoleFairness
  /\ UartFairness
  /\ WF_ProgressVars(part = "clock" /\ Clockintr /\ ClockOnly)
  /\ \A p \in Sleepers : WF_tvars(SleepTest(p) \/ SleepWait(p))
  /\ \A p \in Procs : WF_ProgressVars(part = "log" /\ Step(p) /\ LogOnly)

ProgressSpec == ProgressInit /\ [][ProgressNext]_ProgressVars /\ Fairness

(* Whoever sleeps in the kernel for something that must happen is woken    *)
(* for it: virtio_disk_rw returns, a reader of the console gets the input  *)
(* that has been entered, what write() puts into the transmit ring leaves  *)
(* it, and sleep() returns; each waits for a wakeup by an interrupt        *)
(* handler, which may come between any two of its steps.  And no process   *)
(* sleeps in begin_op for ever, a commit ends (it never waits for a buffer *)
(* that it holds itself or that nobody will release), and so does          *)
(* recovery, although power may be lost in it again.                       *)
SleepersAnswered ==
  /\ RequestsEnd
  /\ ReaderServed
  /\ OutputDrains
  /\ SleepReturns
  /\ part = "log" => SleeperWakes /\ CommitEnds /\ RecoveryEnds

=============================================================================
