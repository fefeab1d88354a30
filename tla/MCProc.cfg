SPECIFICATION Spec
CONSTANTS
  NPROC = 4
  NCPU = 2
  KillPids = {2}
INVARIANTS StackInUse LiveParent NoMissedZombie BornAlive
