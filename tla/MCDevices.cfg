CONSTANTS
  SdProcs = {s1, s2}
  Sector = {x1, x2}
  Val = {v0, v1}
  VdProcs = {p1, p2, p3, p4}
  NUM = 8
  UMod = 16
  Pins = {0, 26, 27, 28, 29, 32}
  Reset = {17, 31, 120}
  MaxLost = 2
  MaxWarm = 2
  TRIES = 4
  ACMD_TRIES = 6
SYMMETRY Sym
VIEW LiveRings
CHECK_DEADLOCK FALSE
SPECIFICATION MCSpec
INVARIANTS
  TransferComplete DescSleepersHaveReason
  InitialisedFirst PinsWired InitSound
