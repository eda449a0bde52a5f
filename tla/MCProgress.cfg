CONSTANTS
  CPU = {c1}
  NPROC = 3
  KillPids = {2}
  MaxPid = 3
  Procs = {q1, q2}
  Killable = {q1, q2}
  PIPESIZE = 1
  UMod = 2
  Byte = {a}
  MaxN = 2
SPECIFICATION MCSpec
PROPERTIES ReadyRuns VictimExits CallsReturn
