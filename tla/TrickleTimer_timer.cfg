SPECIFICATION FairSpec
CONSTANTS
  Width = 4
  ClockMod = 16
  Imins = {0, 2, 4, 5, 8}
  Imaxs = {0, 1, 2}
  Ks = {0, 1}
  CMax = 1
INVARIANTS
  TypeOK
  ArmedIffRunning
  FireInWindow
  EndOnTime
PROPERTIES
  AdjustsImax
  CallsBack
  SlowsDown
  KeepsContract
