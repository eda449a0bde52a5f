CONSTANTS
  CPU = {c1, c2}
  Lock = {1, 2}
  NPROC = 3
  Chan = {nread, nwrite}
  Pids = {1, 2, 3, 4, 5}
  Procs = {p1, p2, p3}
  NBUF = 2
  Sector = {s1, s2, s3}
  Val = {v0, v1}
SYMMETRY Sym
SPECIFICATION MCSpec
INVARIANTS MutualExclusion NoPanic IntrRestored OneBufferPerSector
PROPERTIES ImplementsCondVar ImplementsMutex SomebodyGetsIt ImplementsSectorStore
