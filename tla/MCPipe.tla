-------------------------------- MODULE MCPipe --------------------------------
(* Instances of the pipe for TLC. *)
EXTENDS Pipe, TLC

Sym == Permutations(Readers)
=============================================================================
