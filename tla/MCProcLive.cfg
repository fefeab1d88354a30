SPECIFICATION FairSpec
CONSTANTS
  NPROC = 3
  NCPU = 2
  KillPids = {2}
PROPERTIES OrphansReaped
