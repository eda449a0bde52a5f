CONSTANTS
  Procs = {1, 2, 3, 4, 5, 6, 7}
  PIPESIZE = 2
  Loads <- MCLoads
  None = None
  words = words
  copy = copy
  Names = {words, copy}
  Commands <- MCCommands
SPECIFICATION MCSpec
CHECK_DEADLOCK FALSE
INVARIANTS RefsExact PipeEndsOpen OutputRight
PROPERTY ShellReturns
