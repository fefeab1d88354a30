------------------------------ MODULE AtomicDisk ------------------------------
(***************************************************************************)
(* What begin_op, log_write and end_op promise the file system: the writes *)
(* of the operations in progress become durable all at once, only when no  *)
(* operation is in progress, and a crash goes back to the last such point. *)
(***************************************************************************)
CONSTANTS Procs, Home, Data

VARIABLES
  durable,   \* contents that a crash leaves
  current,   \* contents that system calls see
  active     \* processes between begin_op and end_op

vars == <<durable, current, active>>

Init == /\ durable \in [Home -> Data]
        /\ current = durable
        /\ active = {}

Begin(p) == /\ p \notin active
            /\ active' = active \cup {p}
            /\ UNCHANGED <<durable, current>>

Write(p) == /\ p \in active
            /\ current' \in [Home -> Data]
            /\ \E b \in Home : \A c \in Home \ {b} : current'[c] = current[c]
            /\ UNCHANGED <<durable, active>>

End(p) == /\ p \in active
          /\ active' = active \ {p}
          /\ UNCHANGED <<durable, current>>

Commit == /\ active = {}
          /\ durable' = current
          /\ UNCHANGED <<current, active>>

Crash == /\ current' = durable
         /\ active' = {}
         /\ UNCHANGED durable

Next == \/ \E p \in Procs : Begin(p) \/ Write(p) \/ End(p)
        \/ Commit
        \/ Crash

Spec == Init /\ [][Next]_vars
=============================================================================
