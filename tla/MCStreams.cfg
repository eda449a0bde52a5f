CONSTANTS
  Procs = {p1, p2, p3}
  Killable = {}
  PIPESIZE = 2
  UMod = 4
  Byte = {a, b}
  MaxN = 3
  Readers = {r1, r2}
  INPUT_BUF = 2
  ConsUMod = 4
  ConsMaxN = 2
SYMMETRY Sym
SPECIFICATION MCSpec
INVARIANTS SleepersHaveReason NoUseAfterFree
PROPERTIES ImplementsByteChannel ImplementsLineDiscipline InputIsTaken
