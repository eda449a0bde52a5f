CONSTANTS
  Procs = {1, 2}
  ENTRY_CACHE_NUM = 6
  Files = {"da", "db", "fa", "fb", "n1", "n2"}
  Disks <- MCDisks
  Dirs = {"da", "db"}
  Loads <- MCRace
  NoProc = NoProc
SPECIFICATION Spec
CHECK_DEADLOCK FALSE
INVARIANT LockAssertions
