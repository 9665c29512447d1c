CONSTANTS
  Base = 4
  Bytes = {0, 3}
  CommandLines <- MCCommandLines
  Headers <- MCHeaders
  XorByte <- MCXor
  Random <- MCRandom
  Layouts <- MCLayouts
  AnnotationMax = 56
  ProgramName = 2
  MaxFrames = 3
SPECIFICATION Spec
INVARIANTS AudibleTypeOK CryptTwice SlowDownInterpolates HeaderCountsFrames
CHECK_DEADLOCK FALSE
