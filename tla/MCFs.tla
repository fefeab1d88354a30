-------------------------------- MODULE MCFs --------------------------------
(* Instances of Fs for TLC.  A scenario fixes the disk and the open files  *)
(* at the start and the calls that processes make.                         *)
EXTENDS Fs, TLC

CONSTANTS
  Scenes,       \* the scenarios of this run
  Short         \* those that stop one call earlier

A == "a"
B == "b"
Abs(elems) == [abs |-> TRUE, elems |-> elems]
Rel(elems) == [abs |-> FALSE, elems |-> elems]

Open(path, create, trunc, mode) ==
  [op |-> "open", path |-> path, create |-> create, trunc |-> trunc, mode |-> mode]
Mkdir(path) == [op |-> "mkdir", path |-> path]
Mknod(path, major) == [op |-> "mknod", path |-> path, major |-> major]
Unlink(path) == [op |-> "unlink", path |-> path]
Link(old, new) == [op |-> "link", path |-> old, new |-> new]
ChdirTo(path) == [op |-> "chdir", path |-> path]

(* mkfs: the root directory in block 1. *)
Mkfs ==
  LET block == [k \in 0 .. BSIZE - 1 |->
                  CASE k = 0 -> <<ROOTINO, ".">> [] k = 1 -> <<ROOTINO, "..">>
                    [] OTHER -> Zero]
      root == [FreeDinode EXCEPT !.type = "T_DIR", !.nlink = 1, !.size = 2,
                                 !.addrs[0] = 1]
  IN [inode |-> [i \in Inums |-> IF i = ROOTINO THEN root ELSE FreeDinode],
      used |-> {1},
      data |-> [b \in Blocks |-> IF b = 1 THEN block ELSE ZeroBlock]]

(* Add to directory dir an entry for a fresh inode i of the given type. *)
With(d, dir, name, i, type) ==
  LET c == [FreeDinode EXCEPT !.type = type, !.nlink = 1]
      io == iupdate(Io(d, c, i, {}))
      made == IF type = "T_DIR"
              THEN dirlink(dirlink(io, ".", i), "..", dir) ELSE io
      up == IF type = "T_DIR" THEN 1 ELSE 0
      parent == Io(made.d, [d.inode[dir] EXCEPT !.nlink = @ + up], dir, {})
  IN dirlink(parent, name, i).d

NoFiles == /\ itable = BootTable
           /\ ftable = [f \in Files |-> FD_NONE]
           /\ ofile = [p \in Procs |-> [k \in 1 .. NOFILE |-> 0]]

(* The processes share file 1, open on inode 2, as after a fork. *)
SharedFile ==
  /\ itable = [BootTable EXCEPT ![2] = [EmptySlot EXCEPT !.inum = 2, !.ref = 1]]
  /\ ftable = [f \in Files |-> IF f = 1
                 THEN [type |-> "FD_INODE", ref |-> Cardinality(Procs), ip |-> 2,
                       off |-> 0, mode |-> "rw"] ELSE FD_NONE]
  /\ ofile = [p \in Procs |-> [k \in 1 .. NOFILE |-> IF k = 1 THEN 1 ELSE 0]]

Menu(scene) ==
  CASE scene = "data" -> {Unlink(Abs(<<A>>)), Open(Abs(<<A>>), FALSE, TRUE, "rw"),
                          Open(Abs(<<B>>), TRUE, FALSE, "w"), Mkdir(Abs(<<B>>))}
    [] scene = "names" -> {Open(Abs(<<A>>), TRUE, FALSE, "r"), Mkdir(Abs(<<A>>)),
                           Unlink(Abs(<<A>>)), Link(Abs(<<A>>), Abs(<<B>>)),
                           Unlink(Abs(<<B>>)), Mknod(Abs(<<B>>), NDEV)}
    [] scene = "dirs" -> {Mkdir(Abs(<<A, B>>)), Unlink(Abs(<<A, B>>)),
                          Unlink(Abs(<<A>>)), Link(Abs(<<A, B>>), Abs(<<A, "c">>)),
                          Open(Abs(<<A, B>>), TRUE, FALSE, "r"),
                          Open(Abs(<<A>>), FALSE, FALSE, "w"), Unlink(Abs(<<>>)),
                          Unlink(Abs(<<A, ".">>))}
    [] scene = "cwd" -> {ChdirTo(Abs(<<A>>)), ChdirTo(Abs(<<>>)), Mkdir(Rel(<<B>>)),
                         Unlink(Abs(<<A>>)), Unlink(Rel(<<B>>))}
    [] scene = "dotdot" -> {Unlink(Abs(<<A, B>>)), Unlink(Abs(<<A>>)),
                            Open(Abs(<<A, B, "..">>), FALSE, FALSE, "r")}

Disk(scene) ==
  LET dir == With(Mkfs, ROOTINO, A, 2, "T_DIR")
  IN CASE scene = "data" -> With(Mkfs, ROOTINO, A, 2, "T_FILE")
       [] scene = "names" -> Mkfs
       [] scene = "dirs" -> With(dir, 2, B, 3, "T_FILE")
       [] scene = "cwd" -> dir
       [] scene = "dotdot" -> With(dir, 2, B, 3, "T_DIR")

Init ==
  \E scene \in Scenes :
    /\ Boot(Disk(scene),
            [calls |-> Menu(scene),
             amounts |-> IF scene = "data" THEN {1, 3 * BSIZE} ELSE {}],
            IF scene \in Short THEN 1 ELSE 0)
    /\ IF scene = "data" THEN SharedFile ELSE NoFiles

Spec == Init /\ [][Next]_vars
Symmetry == Permutations(Procs)
=============================================================================
