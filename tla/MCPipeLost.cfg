SPECIFICATION Spec
CONSTANTS
  w1 = w1
  w2 = w2
  r1 = r1
  r2 = r2
  NIL = NIL
  Writers = {w1, w2}
  Readers = {r1}
  PIPESIZE = 2
  Word = 4
  Counts = {1, 3}
  MaxBytes = 5
  Killable = {w1}
INVARIANTS SleepsForCause
CHECK_DEADLOCK FALSE
