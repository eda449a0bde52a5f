CONSTANTS
  Procs = {p1, p2}
  NENT = 3
  LAST = 11
  FATSZ = 2
  PERSEC = 7
  C = 2
  Names <- MCNames
  Initial <- MCInitial
  Loads <- MCLoads
  NoProc = NoProc
  None = None
  Orphan = Orphan
SPECIFICATION MCSpec
CHECK_DEADLOCK FALSE
INVARIANTS ChainsDisjoint DirectoryRight NoClusterLost
PROPERTY ImplementsFileStore
