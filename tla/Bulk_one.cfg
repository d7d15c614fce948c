SPECIFICATION FairSpec
CONSTANTS
  a = a
  b = b
  c = c
  s1 = s1
  None = None
  Packet = {b}
  Sender = {s1}
  Owner <- OneOwner
  PacketId <- OwnId
  PacketLen <- LengthsHere
  SubpacketMaxBytes = 2
  MaxSubpackets = 4
  MaxRetries = 1
  QueueSize = 2
  AppMasks <- LastOnly
  MaxSignals = 1
  MaxFaults = 1
  MaxInits = 1
INVARIANTS
  TypeOK
  LenMatches
PROPERTIES
  NoBitLost
  CopiesPackets
  ReceptionEnds
  TransmissionEnds
CHECK_DEADLOCK FALSE
