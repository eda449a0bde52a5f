CONSTANTS
  CPU = {c1, c2}
  NPROC = 3
  KillPids = {2}
  MaxPid = 3
SYMMETRY Harts
SPECIFICATION Spec
INVARIANTS
  OnOneCpu
  NoOrphan
  NoMissedExit
  NoLockCycle
