SPECIFICATION Spec
CONSTANTS
  ByteMod = 2
  MaskBytes = 2
  WordBytes = 2
  LenMod = 9
  Header <- Headers
  Room <- Buffers
  MaxNoise = 11
  MaxTail = 10
INVARIANTS
  ReceivedAsSent
  OnlyFormats
