CONSTANTS
  Procs = {p1}
  Sector = {s1}
  Val = {v0}
CHECK_DEADLOCK FALSE
SPECIFICATION FairSpec
PROPERTY WaitReturns
