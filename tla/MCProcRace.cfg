CONSTANTS
  CPU = {c1, c2}
  NPROC = 4
  KillPids = {}
  MaxPid = 5
SPECIFICATION Spec
SYMMETRY Harts
CONSTRAINT Family
INVARIANT StaleParentHarmless
CHECK_DEADLOCK FALSE
