CONSTANTS
  Procs = {1, 2}
  ENTRY_CACHE_NUM = 5
  Files = {"da", "db", "fa", "fb", "n1", "n2"}
  Disks <- MCDisks
  Dirs = {"da", "db"}
  Loads <- MCLoads
  NoProc = NoProc
SPECIFICATION Spec
CHECK_DEADLOCK FALSE
INVARIANTS NoPanic RefsExact NoStaleChild NoLockCycle
