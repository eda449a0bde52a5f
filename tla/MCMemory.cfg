CONSTANTS
  NPAGE = 48
  PTES = 4
  PGSIZE = 2
  NPROC = 2
  MaxBytes = 9
  MaxLeft = 17
  UMod = 64
  Images <- MCImages
  Grow <- MCGrow
VIEW UpToPageNames
CHECK_DEADLOCK FALSE
SPECIFICATION Spec
INVARIANTS PagesOwned DirectCopyBacked
PROPERTY FailureUndone
