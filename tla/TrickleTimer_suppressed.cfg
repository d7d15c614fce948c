SPECIFICATION Spec
CONSTANTS
  Width = 4
  ClockMod = 16
  Imins = {2}
  Imaxs = {2}
  Ks = {1}
  CMax = 1
INVARIANTS
  SuppressedNotCalled
