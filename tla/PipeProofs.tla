----------------------------- MODULE PipeProofs -----------------------------
(***************************************************************************)
(* Proofs about Pipe, for any number of writers and readers, any size of   *)
(* the ring that divides the range of the counters, and kills at any time. *)
(***************************************************************************)
EXTENDS Pipe, TLAPS

(* First, % with a modulus that is not a number: the counters of a pipe    *)
(* wrap around, and index the ring modulo its size.                        *)

(* Division with remainder. *)
LEMMA ModDiv ==
  ASSUME NEW a \in Int, NEW m \in Nat \ {0}
  PROVE  /\ a % m \in 0 .. m - 1
         /\ a \div m \in Int
         /\ a = m * (a \div m) + (a % m)
  BY Z3

(* The only multiple of m strictly between -m and m is 0. *)
LEMMA SmallMultiple ==
  ASSUME NEW m \in Nat \ {0}, NEW q \in Int, m * q < m, m * q > -m
  PROVE  q = 0
<1>1. CASE q >= 1
  BY <1>1, Z3
<1>2. CASE q <= -1
  BY <1>2, Z3
<1> QED
  BY <1>1, <1>2

(* The remainder is unique. *)
LEMMA ModUnique ==
  ASSUME NEW a \in Int, NEW m \in Nat \ {0}, NEW q \in Int,
         NEW r \in 0 .. m - 1, a = m * q + r
  PROVE  a % m = r
<1> DEFINE d == (a \div m) - q
<1>1. /\ a % m \in 0 .. m - 1 /\ a \div m \in Int
      /\ a = m * (a \div m) + (a % m)
  BY ModDiv
<1>2. d \in Int /\ m * d = r - (a % m)
  BY <1>1, Z3
<1>3. m * d < m /\ m * d > -m
  BY <1>1, <1>2
<1>4. d = 0
  BY <1>2, <1>3, SmallMultiple
<1> QED
  BY <1>1, <1>2, <1>4

(* A number below the modulus is its own remainder. *)
LEMMA ModSmall ==
  ASSUME NEW m \in Nat \ {0}, NEW r \in 0 .. m - 1
  PROVE  r % m = r
<1>1. r \in Int /\ r = m * 0 + r
  BY Z3
<1> QED
  BY <1>1, ModUnique

(* Whether the remainder is taken before or after an addition is all one:  *)
(* a counter that wraps counts modulo its width.                           *)
LEMMA ModAdd ==
  ASSUME NEW a \in Int, NEW b \in Int, NEW m \in Nat \ {0}
  PROVE  ((a % m) + b) % m = (a + b) % m
<1> DEFINE r == ((a % m) + b) % m
           q == ((a % m) + b) \div m
           d == a \div m
<1>1. a % m \in 0 .. m - 1 /\ d \in Int /\ a = m * d + (a % m)
  BY ModDiv
<1>2. (a % m) + b \in Int
  BY <1>1
<1>3. r \in 0 .. m - 1 /\ q \in Int /\ (a % m) + b = m * q + r
  BY <1>2, ModDiv
<1> HIDE DEF r, q, d
<1>4. d + q \in Int /\ a + b \in Int /\ a + b = m * (d + q) + r
  BY <1>1, <1>3, Z3
<1>5. (a + b) % m = r
  BY <1>3, <1>4, ModUnique
<1> QED
  BY <1>5 DEF r

(* The difference of two wrapped counters is the distance between the      *)
(* counts, as long as that is less than a turn.                            *)
LEMMA ModDistance ==
  ASSUME NEW a \in Int, NEW b \in Int, NEW m \in Nat \ {0}, a - b \in 0 .. m - 1
  PROVE  ((a % m) - (b % m)) % m = a - b
<1> DEFINE c == a \div m
           d == b \div m
<1>1. a % m \in 0 .. m - 1 /\ c \in Int /\ a = m * c + (a % m)
  BY ModDiv
<1>2. b % m \in 0 .. m - 1 /\ d \in Int /\ b = m * d + (b % m)
  BY ModDiv
<1> HIDE DEF c, d
<1>3. (a % m) - (b % m) \in Int /\ d - c \in Int
  BY <1>1, <1>2
<1>4. (a % m) - (b % m) = m * (d - c) + (a - b)
  BY <1>1, <1>2, Z3
<1> QED
  BY <1>3, <1>4, ModUnique

(* Two counts less than a turn apart have different remainders. *)
LEMMA ModDistinct ==
  ASSUME NEW a \in Int, NEW b \in Int, NEW m \in Nat \ {0},
         a - b \in 1 .. m - 1
  PROVE  a % m # b % m
<1>1. ((a % m) - (b % m)) % m = a - b
  <2>1. a - b \in 0 .. m - 1
    OBVIOUS
  <2> QED
    BY <2>1, ModDistance
<1>2. 0 % m = 0
  BY ModSmall
<1>3. a % m \in Int /\ b % m \in Int
  BY ModDiv
<1>4. a % m = b % m => (a % m) - (b % m) = 0
  BY <1>3
<1> QED
  BY <1>1, <1>2, <1>4

(* With a width that is a multiple of the size of the ring, a wrapped      *)
(* counter indexes the ring as the count itself would.                     *)
LEMMA ModMod ==
  ASSUME NEW a \in Int, NEW m \in Nat \ {0}, NEW w \in Nat \ {0}, w % m = 0
  PROVE  (a % w) % m = a % m
<1> DEFINE c == w \div m
           d == a \div w
           r == a % m
           q == a \div m
           x == a % w
<1>1. c \in Int /\ w = m * c
  <2>1. c \in Int /\ w = m * c + (w % m)
    BY ModDiv
  <2> QED
    BY <2>1
<1>2. x \in 0 .. w - 1 /\ d \in Int /\ a = w * d + x
  BY ModDiv
<1>3. r \in 0 .. m - 1 /\ q \in Int /\ a = m * q + r
  BY ModDiv
<1> HIDE DEF c, d, r, q, x
<1>4. c * d \in Int /\ w * d = m * (c * d)
  BY <1>1, <1>2, Z3
<1>5. q - c * d \in Int /\ x \in Int
  BY <1>2, <1>3, <1>4
<1>6. x = m * (q - c * d) + r
  BY <1>2, <1>3, <1>4, Z3
<1>7. x % m = r
  BY <1>3, <1>5, <1>6, ModUnique
<1> QED
  BY <1>7 DEF r, x
-----------------------------------------------------------------------------
Running == {"loop", "body", "copy", "sleep"}

TypeOK ==
  /\ data \in [0 .. PIPESIZE - 1 -> Nat]
  /\ nread \in Nat /\ nwrite \in Nat
  /\ readopen \in BOOLEAN /\ writeopen \in BOOLEAN
  /\ lock \in Procs \cup {NIL} /\ freed \in BOOLEAN
  /\ pc \in [Procs -> Running \cup {"user", "asleep", "woken", "closing", "closed"}]
  /\ i \in [Procs -> Nat] /\ n \in [Procs -> Nat]
  /\ killed \in [Procs -> BOOLEAN]
  /\ sent \in Nat /\ taken \in Nat

(* The counters count modulo Word the bytes put in and taken out, and byte *)
(* j is where the j-th put of the history left it.                         *)
Ring ==
  /\ taken <= sent /\ sent - taken <= PIPESIZE
  /\ nwrite = sent % Word /\ nread = taken % Word
  /\ \A j \in taken + 1 .. sent : data[(j - 1) % PIPESIZE] = j

(* pi->lock is held by the process that runs between acquire and release.  *)
Locking == \A p \in Procs : lock = p <=> pc[p] \in Running

(* An end that is closed has no users left, and the last user of an end    *)
(* closes it alone.                                                        *)
Ends ==
  /\ ~writeopen => \A p \in Writers : pc[p] = "closed"
  /\ ~readopen => \A p \in Readers : pc[p] = "closed"
  /\ freed => ~writeopen /\ ~readopen
  /\ \A p \in Procs : pc[p] = "closing" =>
       \A q \in Side(p) \ {p} : pc[q] = "closed"

(* A reader that sleeps has a reason, or a writer that has the lock will   *)
(* wake it; a writer that sleeps has a reason, or a reader that is taking  *)
(* bytes will wake it.                                                     *)
Sleepers ==
  /\ \A p \in Readers : pc[p] = "sleep" => Empty /\ writeopen
  /\ \A p \in Writers : pc[p] = "body" => readopen
  /\ (\A p \in Writers : ~killed[p]) =>
       /\ \A p \in Readers : Asleep(p) => (Empty /\ writeopen) \/ lock \in Writers
       /\ \A p \in Writers :
            Asleep(p) => \/ Full /\ readopen
                         \/ lock \in Readers /\ pc[lock] = "copy"

IInv == TypeOK /\ Ring /\ Locking /\ Ends /\ Sleepers
-----------------------------------------------------------------------------
(* What the two counters say of the history of the pipe: the tests that    *)
(* pipewrite and piperead make are exact.                                  *)
LEMMA Counters ==
  ASSUME TypeOK, Ring
  PROVE  /\ Unread = sent - taken
         /\ Empty <=> sent = taken
         /\ Full <=> sent - taken = PIPESIZE
         /\ nwrite % PIPESIZE = sent % PIPESIZE
         /\ nread % PIPESIZE = taken % PIPESIZE
<1> USE PipeAssumption
<1>1. /\ Word \in Nat \ {0} /\ PIPESIZE \in Nat \ {0}
      /\ sent \in Int /\ taken \in Int
      /\ sent - taken \in 0 .. Word - 1
  BY DEF TypeOK, Ring
<1>2. Unread = sent - taken
  BY <1>1, ModDistance, Zenon DEF Unread, Ring
<1>3. Empty <=> sent = taken
  <2>1. CASE sent # taken
    <3>1. sent - taken \in 1 .. Word - 1
      BY <1>1, <2>1
    <3> QED
      BY <1>1, <2>1, <3>1, ModDistinct, Zenon DEF Empty, Ring
  <2> QED
    BY <2>1, Zenon DEF Empty, Ring
<1>4. Full <=> sent - taken = PIPESIZE
  <2>1. (nread + PIPESIZE) % Word = (taken + PIPESIZE) % Word
    <3>1. PIPESIZE \in Int
      OBVIOUS
    <3>2. ((taken % Word) + PIPESIZE) % Word = (taken + PIPESIZE) % Word
      BY <1>1, <3>1, ModAdd
    <3> QED
      BY <3>2, Zenon DEF Ring
  <2>2. CASE sent - taken = PIPESIZE
    BY <1>1, <2>1, <2>2 DEF Full, Ring
  <2>3. CASE sent - taken # PIPESIZE
    <3>1. taken + PIPESIZE \in Int /\ (taken + PIPESIZE) - sent \in 1 .. Word - 1
      BY <1>1, <2>3 DEF Ring
    <3>2. (taken + PIPESIZE) % Word # sent % Word
      BY <1>1, <3>1, ModDistinct, Zenon
    <3> QED
      BY <2>1, <2>3, <3>2, Zenon DEF Full, Ring
  <2> QED
    BY <2>2, <2>3, Zenon
<1>5. nwrite % PIPESIZE = sent % PIPESIZE /\ nread % PIPESIZE = taken % PIPESIZE
  BY <1>1, ModMod DEF Ring
<1> QED
  BY <1>2, <1>3, <1>4, <1>5, Zenon
-----------------------------------------------------------------------------
LEMMA InitIInv == Init => IInv
<1> SUFFICES ASSUME Init PROVE IInv
  BY Zenon
<1> USE PipeAssumption
<1>1. TypeOK
  BY Zenon DEF Init, TypeOK
<1>2. Ring
  <2>1. 0 % Word = 0
    BY ModSmall
  <2> QED
    BY <2>1 DEF Init, Ring
<1>3. Locking
  BY Zenon DEF Init, Locking, Running
<1>4. Ends
  BY Zenon DEF Init, Ends
<1>5. Sleepers
  BY Zenon DEF Init, Sleepers, Asleep, Procs
<1> QED
  BY <1>1, <1>2, <1>3, <1>4, <1>5, Zenon DEF IInv

LEMMA NextTypeOK == TypeOK /\ [Next]_vars => TypeOK'
<1> SUFFICES ASSUME TypeOK, [Next]_vars PROVE TypeOK'
  BY Zenon
<1> USE PipeAssumption DEF TypeOK, pipe, hist, Goto, WakeupGoto, Leave, Running
<1>1. ASSUME NEW p \in Procs, Call(p) PROVE TypeOK'
  BY <1>1, Zenon DEF Call
<1>2. ASSUME NEW p \in Procs, Resume(p) PROVE TypeOK'
  BY <1>2, Zenon DEF Resume
<1>3. ASSUME NEW p \in Procs, WriteLoop(p) PROVE TypeOK'
  BY <1>3 DEF WriteLoop
<1>4. ASSUME NEW p \in Procs, WriteFull(p) PROVE TypeOK'
  BY <1>4, Zenon DEF WriteFull
<1>5. ASSUME NEW p \in Procs, WritePut(p) PROVE TypeOK'
  <2>1. (nwrite + 1) % Word \in Nat
    <3>1. nwrite + 1 \in Int /\ Word \in Nat \ {0}
      OBVIOUS
    <3> QED
      BY <3>1, ModDiv
  <2> QED
    BY <1>5, <2>1 DEF WritePut
<1>6. ASSUME NEW p \in Procs, WriteFault(p) PROVE TypeOK'
  BY <1>6, Zenon DEF WriteFault
<1>7. ASSUME NEW p \in Procs, ReadLoop(p) PROVE TypeOK'
  BY <1>7, Zenon DEF ReadLoop
<1>8. ASSUME NEW p \in Procs, ReadSleep(p) PROVE TypeOK'
  BY <1>8, Zenon DEF ReadSleep
<1>9. ASSUME NEW p \in Procs, ReadTake(p) PROVE TypeOK'
  <2>1. (nread + 1) % Word \in Nat
    <3>1. nread + 1 \in Int /\ Word \in Nat \ {0}
      OBVIOUS
    <3> QED
      BY <3>1, ModDiv
  <2>2. /\ nread' \in Nat /\ taken' \in Nat
        /\ UNCHANGED <<data, nwrite, readopen, writeopen, freed, n, killed, sent>>
    BY <1>9, <2>1 DEF ReadTake
  <2>3. CASE i' = [i EXCEPT ![p] = @ + 1] /\ UNCHANGED <<lock, pc>>
    BY <2>2, <2>3
  <2>4. CASE lock' = NIL /\ WakeupGoto(Writers, p, "user") /\ UNCHANGED i
    BY <2>2, <2>4, Zenon
  <2> QED
    BY <1>9, <2>3, <2>4, Zenon DEF ReadTake
<1>10. ASSUME NEW p \in Procs, ReadDone(p) PROVE TypeOK'
  BY <1>10, Zenon DEF ReadDone
<1>11. ASSUME NEW p \in Procs, Close(p) PROVE TypeOK'
  BY <1>11, Zenon DEF Close
<1>12. ASSUME NEW p \in Procs, PipeClose(p) PROVE TypeOK'
  BY <1>12 DEF PipeClose, Gone
<1>13. ASSUME NEW p \in Procs, Kill(p) PROVE TypeOK'
  BY <1>13, Zenon DEF Kill
<1>14. CASE UNCHANGED vars
  BY <1>14, Zenon DEF vars
<1> QED
  BY <1>1, <1>2, <1>3, <1>4, <1>5, <1>6, <1>7, <1>8, <1>9, <1>10, <1>11,
     <1>12, <1>13, <1>14, Zenon DEF Next

(* Only a put and a take touch the ring, and a put never lands on a byte   *)
(* that is not taken yet.                                                  *)
LEMMA NextRing == TypeOK /\ TypeOK' /\ Ring /\ [Next]_vars => Ring'
<1> SUFFICES ASSUME TypeOK, TypeOK', Ring, [Next]_vars PROVE Ring'
  BY Zenon
<1> USE PipeAssumption
<1>1. ASSUME UNCHANGED <<data, nread, nwrite, hist>> PROVE Ring'
  BY <1>1, Zenon DEF Ring, hist
<1>2. ASSUME NEW p \in Procs, WritePut(p) PROVE Ring'
  <2>1. sent' = sent + 1 /\ taken' = taken /\ nread' = nread
    BY <1>2, Zenon DEF WritePut
  <2>2. sent - taken < PIPESIZE
    BY <1>2, Counters DEF WritePut, Ring, TypeOK
  <2>3. nwrite' = sent' % Word
    <3>1. sent \in Int /\ 1 \in Int /\ Word \in Nat \ {0}
      BY DEF TypeOK
    <3>2. ((sent % Word) + 1) % Word = (sent + 1) % Word
      BY <3>1, ModAdd
    <3> QED
      BY <1>2, <2>1, <3>2, Zenon DEF WritePut, Ring
  <2>4. ASSUME NEW j \in taken + 1 .. sent + 1
        PROVE  data'[(j - 1) % PIPESIZE] = j
    <3>1. data' = [data EXCEPT ![sent % PIPESIZE] = sent + 1]
      BY <1>2, Counters, Zenon DEF WritePut
    <3>2. /\ sent % PIPESIZE \in 0 .. PIPESIZE - 1
          /\ (j - 1) % PIPESIZE \in 0 .. PIPESIZE - 1
      <4>1. sent \in Int /\ j - 1 \in Int
        BY DEF TypeOK
      <4> QED
        BY <4>1, ModDiv, Zenon
    <3>3. CASE j = sent + 1
      <4>1. j - 1 = sent
        BY <3>3 DEF TypeOK
      <4> QED
        BY <3>1, <3>2, <3>3, <4>1, Zenon DEF TypeOK
    <3>4. CASE j # sent + 1
      <4>1. /\ j \in taken + 1 .. sent /\ sent \in Int /\ j - 1 \in Int
            /\ sent - (j - 1) \in 1 .. PIPESIZE - 1
        BY <2>2, <3>4 DEF TypeOK
      <4>2. sent % PIPESIZE # (j - 1) % PIPESIZE
        BY <4>1, ModDistinct, Zenon
      <4>3. data[(j - 1) % PIPESIZE] = j
        BY <4>1, Zenon DEF Ring
      <4> QED
        BY <3>1, <3>2, <4>2, <4>3, Zenon DEF TypeOK
    <3> QED
      BY <3>3, <3>4, Zenon
  <2> QED
    BY <2>1, <2>2, <2>3, <2>4 DEF Ring, TypeOK
<1>3. ASSUME NEW p \in Procs, ReadTake(p) PROVE Ring'
  <2>1. sent' = sent /\ taken' = taken + 1 /\ data' = data /\ nwrite' = nwrite
    BY <1>3, Zenon DEF ReadTake
  <2>2. taken < sent
    BY <1>3, Counters DEF ReadTake, Ring, TypeOK
  <2>3. nread' = taken' % Word
    <3>1. taken \in Int /\ 1 \in Int /\ Word \in Nat \ {0}
      BY DEF TypeOK
    <3>2. ((taken % Word) + 1) % Word = (taken + 1) % Word
      BY <3>1, ModAdd
    <3> QED
      BY <1>3, <2>1, <3>2, Zenon DEF ReadTake, Ring
  <2> QED
    BY <2>1, <2>2, <2>3 DEF Ring, TypeOK
<1>4. ASSUME NEW p \in Procs,
             \/ Call(p) \/ Resume(p) \/ WriteLoop(p) \/ WriteFull(p)
             \/ WriteFault(p) \/ ReadLoop(p) \/ ReadSleep(p) \/ ReadDone(p)
             \/ Close(p) \/ PipeClose(p) \/ Kill(p)
      PROVE  UNCHANGED <<data, nread, nwrite, hist>>
  BY <1>4, Zenon DEF Call, Resume, WriteLoop, WriteFull, WriteFault, ReadLoop,
     ReadSleep, ReadDone, Close, PipeClose, Kill, pipe
<1>5. CASE UNCHANGED vars
  BY <1>1, <1>5, Zenon DEF vars, pipe
<1> QED
  BY <1>1, <1>2, <1>3, <1>4, <1>5, Zenon DEF Next

LEMMA NextLocking == TypeOK /\ Locking /\ [Next]_vars => Locking'
<1> SUFFICES ASSUME TypeOK, Locking, [Next]_vars PROVE Locking'
  BY Zenon
<1> USE PipeAssumption DEF TypeOK, Locking, Running, In, Goto, WakeupGoto, Leave, Asleep
<1>1. ASSUME NEW p \in Procs, Call(p) PROVE Locking'
  BY <1>1, Zenon DEF Call
<1>2. ASSUME NEW p \in Procs, Resume(p) PROVE Locking'
  BY <1>2, Zenon DEF Resume
<1>3. ASSUME NEW p \in Procs, WriteLoop(p) PROVE Locking'
  BY <1>3 DEF WriteLoop
<1>4. ASSUME NEW p \in Procs, WriteFull(p) PROVE Locking'
  BY <1>4, Zenon DEF WriteFull
<1>5. ASSUME NEW p \in Procs, WritePut(p) PROVE Locking'
  BY <1>5, Zenon DEF WritePut
<1>6. ASSUME NEW p \in Procs, WriteFault(p) PROVE Locking'
  BY <1>6, Zenon DEF WriteFault
<1>7. ASSUME NEW p \in Procs, ReadLoop(p) PROVE Locking'
  BY <1>7 DEF ReadLoop
<1>8. ASSUME NEW p \in Procs, ReadSleep(p) PROVE Locking'
  BY <1>8, Zenon DEF ReadSleep
<1>9. ASSUME NEW p \in Procs, ReadTake(p) PROVE Locking'
  <2>1. CASE UNCHANGED <<lock, pc>>
    BY <2>1, Zenon
  <2>2. CASE lock' = NIL /\ WakeupGoto(Writers, p, "user")
    BY <1>9, <2>2, Zenon DEF ReadTake
  <2> QED
    BY <1>9, <2>1, <2>2, Zenon DEF ReadTake
<1>10. ASSUME NEW p \in Procs, ReadDone(p) PROVE Locking'
  BY <1>10, Zenon DEF ReadDone
<1>11. ASSUME NEW p \in Procs, Close(p) PROVE Locking'
  BY <1>11, Zenon DEF Close
<1>12. ASSUME NEW p \in Procs, PipeClose(p) PROVE Locking'
  BY <1>12 DEF PipeClose
<1>13. ASSUME NEW p \in Procs, Kill(p) PROVE Locking'
  BY <1>13, Zenon DEF Kill
<1>14. CASE UNCHANGED vars
  BY <1>14, Zenon DEF vars
<1> QED
  BY <1>1, <1>2, <1>3, <1>4, <1>5, <1>6, <1>7, <1>8, <1>9, <1>10, <1>11,
     <1>12, <1>13, <1>14, Zenon DEF Next

(* The last process of a side closes its end, and no one is left on that   *)
(* side to use it.                                                         *)
LEMMA NextEnds == TypeOK /\ Ends /\ [Next]_vars => Ends'
<1> SUFFICES ASSUME TypeOK, Ends, [Next]_vars PROVE Ends'
  BY Zenon
<1> USE PipeAssumption DEF Procs, Side
(* A step that changes pc of processes that are neither closed nor closing *)
(* and leaves the rest alone keeps Ends.                                   *)
<1>1. ASSUME UNCHANGED <<readopen, writeopen, freed>>,
             \A q \in Procs : \/ pc'[q] = pc[q]
                              \/ /\ pc[q] \notin {"closing", "closed"}
                                 /\ pc'[q] \notin {"closing", "closed"}
      PROVE  Ends'
  BY <1>1, Zenon DEF Ends
<1>2. ASSUME NEW p \in Procs,
             \/ Call(p) \/ Resume(p) \/ WriteLoop(p) \/ WriteFull(p)
             \/ WritePut(p) \/ WriteFault(p) \/ ReadLoop(p) \/ ReadSleep(p)
             \/ ReadDone(p)
      PROVE  Ends'
  <2>1. UNCHANGED <<readopen, writeopen, freed>>
    BY <1>2, Zenon DEF Call, Resume, WriteLoop, WriteFull, WritePut, WriteFault,
       ReadLoop, ReadSleep, ReadDone, pipe
  <2>2. \A q \in Procs : \/ pc'[q] = pc[q]
                         \/ /\ pc[q] \notin {"closing", "closed"}
                            /\ pc'[q] \notin {"closing", "closed"}
    <3> USE DEF TypeOK, In, Goto, WakeupGoto, Leave, Asleep
    <3>1. CASE Call(p)
      BY <3>1, Zenon DEF Call
    <3>2. CASE Resume(p)
      BY <3>2, Zenon DEF Resume
    <3>3. CASE WriteLoop(p)
      BY <3>3 DEF WriteLoop
    <3>4. CASE WriteFull(p)
      BY <3>4, Zenon DEF WriteFull
    <3>5. CASE WritePut(p)
      BY <3>5, Zenon DEF WritePut
    <3>6. CASE WriteFault(p)
      BY <3>6, Zenon DEF WriteFault
    <3>7. CASE ReadLoop(p)
      BY <3>7 DEF ReadLoop
    <3>8. CASE ReadSleep(p)
      BY <3>8, Zenon DEF ReadSleep
    <3>9. CASE ReadDone(p)
      BY <3>9, Zenon DEF ReadDone
    <3> QED
      BY <1>2, <3>1, <3>2, <3>3, <3>4, <3>5, <3>6, <3>7, <3>8, <3>9, Zenon
  <2> QED
    BY <1>1, <2>1, <2>2, Zenon
<1>3. ASSUME NEW p \in Procs, ReadTake(p) PROVE Ends'
  <2>1. UNCHANGED <<readopen, writeopen, freed>> /\ pc[p] = "copy"
    BY <1>3, Zenon DEF ReadTake, In
  <2>2. CASE UNCHANGED pc
    BY <1>1, <2>1, <2>2, Zenon
  <2>3. CASE WakeupGoto(Writers, p, "user")
    BY <1>1, <2>1, <2>3, Zenon DEF WakeupGoto, Asleep
  <2> QED
    BY <1>3, <2>2, <2>3, Zenon DEF ReadTake
<1>4. ASSUME NEW p \in Procs, Close(p) PROVE Ends'
  <2>1. /\ UNCHANGED <<readopen, writeopen, freed>> /\ pc[p] = "user"
        /\ \A q \in Procs \ {p} : pc'[q] = pc[q]
        /\ pc'[p] \in {"closing", "closed"}
    BY <1>4, Zenon DEF Close, Goto, TypeOK, pipe
  <2>2. ~(p \in Writers /\ ~writeopen) /\ ~(p \in Readers /\ ~readopen)
    BY <2>1, Zenon DEF Ends
  <2>3. \A q \in Side(p) \ {p} : pc[q] # "closing"
    BY <2>1 DEF Ends
  <2>4. pc'[p] = "closing" => \A q \in Side(p) \ {p} : pc[q] = "closed"
    <3>1. pc'[p] = "closing" => ~\E q \in Side(p) \ {p} : HoldsEnd(q)
      BY <1>4, <2>1, Zenon DEF Close, Goto, TypeOK
    <3> QED
      BY <2>3, <3>1, Zenon DEF HoldsEnd
  <2> QED
    BY <2>1, <2>2, <2>3, <2>4 DEF Ends
<1>5. ASSUME NEW p \in Procs, PipeClose(p) PROVE Ends'
  <2>1. pc[p] = "closing" /\ \A q \in Side(p) \ {p} : pc[q] = "closed"
    BY <1>5, Zenon DEF PipeClose, Ends
  <2>2. \A q \in Procs : /\ q = p => pc'[q] = "closed"
                         /\ pc[q] = "closed" => pc'[q] = "closed"
                         /\ q # p /\ pc'[q] = "closing" => pc[q] = "closing"
    BY <1>5, Zenon DEF PipeClose, WakeupGoto, Asleep
  <2>3. CASE p \in Writers
    <3>1. ~writeopen' /\ readopen' = readopen /\ freed' = ~readopen
      BY <1>5, <2>3, Zenon DEF PipeClose, Gone
    <3> QED
      BY <2>1, <2>2, <2>3, <3>1, Zenon DEF Ends
  <2>4. CASE p \in Readers
    <3>1. ~readopen' /\ writeopen' = writeopen /\ freed' = ~writeopen
      BY <1>5, <2>4, Zenon DEF PipeClose, Gone
    <3> QED
      BY <2>1, <2>2, <2>4, <3>1, Zenon DEF Ends
  <2> QED
    BY <2>3, <2>4, Zenon
<1>6. ASSUME NEW p \in Procs, Kill(p) PROVE Ends'
  BY <1>1, <1>6, Zenon DEF Kill, HoldsEnd, Goto, Asleep, TypeOK, pipe
<1>7. CASE UNCHANGED vars
  BY <1>1, <1>7, Zenon DEF vars, pipe
<1> QED
  BY <1>2, <1>3, <1>4, <1>5, <1>6, <1>7, Zenon DEF Next

(* Whoever changes what others sleep for wakes them before it lets the     *)
(* lock go, unless it is a writer that was killed.                         *)
LEMMA NextSleepers ==
  TypeOK /\ Locking /\ Ends /\ Sleepers /\ [Next]_vars => Sleepers'
<1> SUFFICES ASSUME TypeOK, Locking, Ends, Sleepers, [Next]_vars
             PROVE  Sleepers'
  BY Zenon
<1> USE PipeAssumption DEF Procs
<1> DEFINE NoneKilled == \A p \in Writers : ~killed[p]
<1>1. \A p \in Procs : pc[p] \in Running => lock = p
  BY Zenon DEF Locking
<1>2. ASSUME NEW p \in Procs, Call(p) PROVE Sleepers'
  <2>1. /\ lock = NIL /\ lock' = p /\ UNCHANGED <<pipe, killed>>
        /\ pc' = [pc EXCEPT ![p] = "loop"]
    BY <1>2, Zenon DEF Call, Goto
  <2> QED
    BY <2>1, Zenon DEF Sleepers, TypeOK, Asleep, Empty, Full, pipe
<1>3. ASSUME NEW p \in Procs, Resume(p) PROVE Sleepers'
  <2>1. /\ lock = NIL /\ lock' = p /\ UNCHANGED <<pipe, killed>>
        /\ pc' = [pc EXCEPT ![p] = "loop"]
    BY <1>3, Zenon DEF Resume, Goto
  <2> QED
    BY <2>1, Zenon DEF Sleepers, TypeOK, Asleep, Empty, Full, pipe
<1>4. ASSUME NEW p \in Writers, pc[p] \in Running, lock' = NIL,
             UNCHANGED <<pipe, killed>>,
             \/ WakeupGoto(Readers, p, "user")
             \/ WakeupGoto(Readers, p, "asleep") /\ Full /\ readopen
      PROVE  Sleepers'
  <2>1. \A q \in Readers : pc'[q] # "asleep" /\ pc'[q] # "sleep"
    BY <1>1, <1>4, Zenon DEF WakeupGoto, Asleep, Running
  <2>2. \A q \in Writers \ {p} : pc'[q] = pc[q]
    BY <1>4, Zenon DEF WakeupGoto
  <2>3. \/ pc'[p] = "user"
        \/ pc'[p] = "asleep" /\ Full /\ readopen
    BY <1>4, Zenon DEF WakeupGoto
  <2>4. lock = p /\ \A q \in Writers \ {p} : pc[q] # "body"
    BY <1>1, <1>4, Zenon DEF Running
  <2> QED
    BY <1>4, <2>1, <2>2, <2>3, <2>4, Zenon DEF Sleepers, Asleep, Empty, Full, pipe
<1>5. ASSUME NEW p \in Procs, WriteLoop(p) PROVE Sleepers'
  <2> USE DEF WriteLoop
  <2>1. p \in Writers /\ pc[p] = "loop" /\ lock = p /\ UNCHANGED <<pipe, killed>>
    BY <1>5, Zenon DEF In
  <2>2. CASE i[p] = n[p]
    BY <1>4, <1>5, <2>1, <2>2, Zenon DEF Running
  <2>3. CASE i[p] # n[p] /\ (~readopen \/ killed[p])
    <3>1. lock' = NIL /\ pc' = [pc EXCEPT ![p] = "user"]
      BY <1>5, <2>3, Zenon DEF Leave, Goto
    <3>2. ~readopen => \A q \in Readers : pc[q] = "closed"
      BY Zenon DEF Ends
    <3> QED
      BY <2>1, <2>3, <3>1, <3>2, Zenon
      DEF Sleepers, TypeOK, Asleep, Empty, Full, pipe
  <2>4. CASE i[p] # n[p] /\ ~(~readopen \/ killed[p])
    <3>1. lock' = lock /\ pc' = [pc EXCEPT ![p] = "body"]
      BY <1>5, <2>4, Zenon DEF Goto
    <3> QED
      BY <2>1, <2>4, <3>1, Zenon DEF Sleepers, TypeOK, Asleep, Empty, Full, pipe
  <2> QED
    BY <2>2, <2>3, <2>4, Zenon
<1>6. ASSUME NEW p \in Procs, WriteFull(p) PROVE Sleepers'
  <2>1. readopen
    BY <1>6, Zenon DEF WriteFull, In, Sleepers
  <2> QED
    BY <1>4, <1>6, <2>1, Zenon DEF WriteFull, In, Running
<1>7. ASSUME NEW p \in Procs, WritePut(p) PROVE Sleepers'
  <2>1. /\ p \in Writers /\ lock = p /\ lock' = p /\ ~Full
        /\ pc[p] = "body" /\ pc' = [pc EXCEPT ![p] = "loop"]
        /\ UNCHANGED <<killed, writeopen, readopen>>
    BY <1>7, Zenon DEF WritePut, In, Goto
  <2>2. \A q \in Readers : pc[q] # "sleep"
    BY <1>1, <2>1, Zenon DEF Running
  <2>3. NoneKilled => \A q \in Writers : ~Asleep(q)
    BY <2>1, Zenon DEF Sleepers
  <2> QED
    BY <2>1, <2>2, <2>3, Zenon DEF Sleepers, TypeOK, Asleep
<1>8. ASSUME NEW p \in Procs, WriteFault(p) PROVE Sleepers'
  BY <1>4, <1>8, Zenon DEF WriteFault, In, Running
<1>9. ASSUME NEW p \in Procs, ReadLoop(p) PROVE Sleepers'
  <2> USE DEF ReadLoop
  <2>1. /\ p \in Readers /\ pc[p] = "loop" /\ lock = p
        /\ UNCHANGED <<pipe, killed>>
    BY <1>9, Zenon DEF In
  <2>2. CASE ~Empty \/ ~writeopen
    <3>1. lock' = lock /\ pc' = [pc EXCEPT ![p] = "copy"]
      BY <1>9, <2>2, Zenon DEF Goto
    <3> QED
      BY <2>1, <3>1, Zenon DEF Sleepers, TypeOK, Asleep, Empty, Full, pipe
  <2>3. CASE Empty /\ writeopen /\ killed[p]
    <3>1. lock' = NIL /\ pc' = [pc EXCEPT ![p] = "user"]
      BY <1>9, <2>3, Zenon DEF Leave, Goto
    <3> QED
      BY <2>1, <3>1, Zenon DEF Sleepers, TypeOK, Asleep, Empty, Full, pipe
  <2>4. CASE Empty /\ writeopen /\ ~killed[p]
    <3>1. lock' = lock /\ pc' = [pc EXCEPT ![p] = "sleep"]
      BY <1>9, <2>4, Zenon DEF Goto
    <3> QED
      BY <2>1, <2>4, <3>1, Zenon DEF Sleepers, TypeOK, Asleep, Empty, Full, pipe
  <2> QED
    BY <2>2, <2>3, <2>4, Zenon DEF TypeOK
<1>10. ASSUME NEW p \in Procs, ReadSleep(p) PROVE Sleepers'
  <2>1. /\ p \in Readers /\ pc[p] = "sleep" /\ lock = p
        /\ UNCHANGED <<pipe, killed>>
        /\ lock' = NIL /\ pc' = [pc EXCEPT ![p] = "asleep"]
    BY <1>10, Zenon DEF ReadSleep, In, Leave, Goto
  <2>2. Empty /\ writeopen
    BY <2>1, Zenon DEF Sleepers
  <2> QED
    BY <2>1, <2>2, Zenon DEF Sleepers, TypeOK, Asleep, Empty, Full, pipe
<1>11. ASSUME NEW p \in Readers, lock = p, pc[p] = "copy", lock' = NIL,
              WakeupGoto(Writers, p, "user"),
              UNCHANGED <<writeopen, killed>>,
              \/ UNCHANGED <<nread, nwrite>>
              \/ ~Empty
       PROVE  Sleepers'
  <2>1. \A q \in Writers : pc'[q] # "asleep" /\ pc'[q] # "body"
    BY <1>1, <1>11, Zenon DEF WakeupGoto, Asleep, Running
  <2>2. \A q \in Readers \ {p} : pc'[q] = pc[q] /\ pc[q] # "sleep"
    BY <1>1, <1>11, Zenon DEF WakeupGoto, Running
  <2>3. pc'[p] = "user"
    BY <1>11, Zenon DEF WakeupGoto
  <2>4. NoneKilled => \A q \in Readers : Asleep(q) => Empty /\ writeopen
    BY <1>11, Zenon DEF Sleepers
  <2> QED
    BY <1>11, <2>1, <2>2, <2>3, <2>4, Zenon DEF Sleepers, Asleep, Empty
<1>12. ASSUME NEW p \in Procs, ReadTake(p) PROVE Sleepers'
  <2>1. /\ p \in Readers /\ lock = p /\ pc[p] = "copy" /\ ~Empty
        /\ UNCHANGED <<writeopen, readopen, killed>>
    BY <1>12, Zenon DEF ReadTake, In
  <2>2. CASE UNCHANGED <<lock, pc>>
    <3>1. \A q \in Readers : pc[q] # "sleep"
      BY <1>1, <2>1, Zenon DEF Running
    <3>2. NoneKilled => \A q \in Readers : ~Asleep(q)
      BY <2>1, Zenon DEF Sleepers
    <3> QED
      BY <2>1, <2>2, <3>1, <3>2, Zenon DEF Sleepers, Asleep
  <2>3. CASE lock' = NIL /\ WakeupGoto(Writers, p, "user")
    BY <1>11, <2>1, <2>3, Zenon
  <2> QED
    BY <1>12, <2>2, <2>3, Zenon DEF ReadTake
<1>13. ASSUME NEW p \in Procs, ReadDone(p) PROVE Sleepers'
  BY <1>11, <1>13, Zenon DEF ReadDone, In, pipe
<1>14. ASSUME NEW p \in Procs, Close(p) PROVE Sleepers'
  <2>1. /\ UNCHANGED <<pipe, lock, killed>> /\ pc[p] = "user"
        /\ \A q \in Procs \ {p} : pc'[q] = pc[q]
        /\ pc'[p] \in {"closing", "closed"}
    BY <1>14, Zenon DEF Close, Goto, TypeOK
  <2> QED
    BY <2>1, Zenon DEF Sleepers, Asleep, Empty, Full, pipe
<1>15. ASSUME NEW p \in Procs, PipeClose(p) PROVE Sleepers'
  <2>1. /\ lock = NIL /\ lock' = NIL /\ UNCHANGED <<nread, nwrite, killed>>
    BY <1>15, Zenon DEF PipeClose
  <2>2. \A q \in Procs : pc'[q] \notin {"sleep", "body"}
    BY <1>1, <1>15, <2>1, Zenon DEF PipeClose, WakeupGoto, Running
  <2>3. CASE p \in Writers
    <3>1. /\ readopen' = readopen
          /\ \A q \in Readers : pc'[q] # "asleep"
          /\ \A q \in Writers : pc'[q] = "asleep" => pc[q] = "asleep"
      BY <1>15, <2>3, Zenon DEF PipeClose, WakeupGoto, Asleep
    <3> QED
      BY <2>1, <2>2, <3>1, Zenon DEF Sleepers, Asleep, Full
  <2>4. CASE p \notin Writers
    <3>1. /\ writeopen' = writeopen
          /\ \A q \in Writers : pc'[q] # "asleep"
          /\ \A q \in Readers : pc'[q] = "asleep" => pc[q] = "asleep"
      BY <1>15, <2>4, Zenon DEF PipeClose, WakeupGoto, Asleep
    <3> QED
      BY <2>1, <2>2, <3>1, Zenon DEF Sleepers, Asleep, Empty
  <2> QED
    BY <2>3, <2>4, Zenon
<1>16. ASSUME NEW p \in Procs, Kill(p) PROVE Sleepers'
  <2>1. /\ UNCHANGED <<pipe, lock>>
        /\ \A q \in Procs : /\ killed[q] => killed'[q]
                            /\ pc'[q] = pc[q] \/ (pc[q] = "asleep" /\ pc'[q] = "woken")
    BY <1>16, Zenon DEF Kill, Goto, Asleep, TypeOK
  <2>2. lock \in Readers /\ pc[lock] = "copy" => pc'[lock] = "copy"
    BY <2>1, Zenon
  <2> QED
    BY <2>1, <2>2, Zenon DEF Sleepers, Asleep, Empty, Full, pipe
<1>17. CASE UNCHANGED vars
  BY <1>17, Zenon DEF Sleepers, Asleep, Empty, Full, vars, pipe
<1> QED
  BY <1>2, <1>3, <1>5, <1>6, <1>7, <1>8, <1>9, <1>10, <1>12, <1>13, <1>14,
     <1>15, <1>16, <1>17, Zenon DEF Next
-----------------------------------------------------------------------------
(* IInv implies the three safety properties. *)
LEMMA Invariant == Spec => []IInv
<1>1. IInv /\ [Next]_vars => IInv'
  BY NextTypeOK, NextRing, NextLocking, NextEnds, NextSleepers, Zenon DEF IInv
<1> QED
  BY InitIInv, <1>1, PTL DEF Spec

(* pipewrite and piperead: however the counters wrap and whoever is killed *)
(* or fails in the middle of a copy, the ring holds exactly the bytes that *)
(* were put in and not yet taken out, in order, and no more than PIPESIZE. *)
THEOREM BytesInOrder == Spec => []InOrder
<1>1. IInv => InOrder
  <2> SUFFICES ASSUME IInv PROVE InOrder
    BY Zenon
  <2> USE PipeAssumption DEF IInv
  <2>1. Unread = sent - taken /\ nread % PIPESIZE = taken % PIPESIZE
    BY Counters, Zenon
  <2>2. ASSUME NEW j \in 0 .. Unread - 1
        PROVE  data[(nread + j) % PIPESIZE] = taken + j + 1
    <3>1. /\ taken + j + 1 \in taken + 1 .. sent
          /\ (taken + j + 1) - 1 = taken + j
          /\ taken \in Int /\ nread \in Int /\ j \in Int
      BY <2>1 DEF TypeOK, Ring
    <3>2. data[(taken + j) % PIPESIZE] = taken + j + 1
      BY <3>1, Zenon DEF Ring
    <3>3. ((nread % PIPESIZE) + j) % PIPESIZE = (nread + j) % PIPESIZE
      BY <3>1, ModAdd
    <3>4. ((taken % PIPESIZE) + j) % PIPESIZE = (taken + j) % PIPESIZE
      BY <3>1, ModAdd
    <3> QED
      BY <2>1, <3>2, <3>3, <3>4, Zenon
  <2> QED
    BY <2>1, <2>2, Zenon DEF InOrder, Ring
<1> QED
  BY Invariant, <1>1, PTL

(* pipeclose: when kfree(pi) is called, no process is in or asleep in      *)
(* pipewrite or piperead, holds pi->lock or can still get there.           *)
THEOREM FreedWhenUnused == Spec => []FreedUnused
<1>1. IInv => FreedUnused
  BY Zenon DEF IInv, Ends, FreedUnused, Procs
<1> QED
  BY Invariant, <1>1, PTL

(* pipewrite, piperead and pipeclose: unless a writer was killed, a reader *)
(* sleeps only on an empty pipe that has a writer and a writer only on a   *)
(* full one that has a reader, whenever pi->lock is free.                  *)
THEOREM NoLostWakeup == Spec => []SleepsUnlessKilled
<1>1. IInv => SleepsUnlessKilled
  BY PipeAssumption, Zenon
  DEF IInv, Sleepers, SleepsUnlessKilled, SleepsForCause, Procs
<1> QED
  BY Invariant, <1>1, PTL
=============================================================================
