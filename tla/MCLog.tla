-------------------------------- MODULE MCLog --------------------------------
(* Instances of the log for TLC. *)
EXTENDS Log, TLC

Sym == Permutations(Procs)
=============================================================================
