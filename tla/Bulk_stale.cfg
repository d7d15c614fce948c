SPECIFICATION Spec
CONSTANTS
  a = a
  b = b
  c = c
  s1 = s1
  None = None
  Packet = {a, c}
  Sender = {s1}
  Owner <- OneOwner
  PacketId <- OwnId
  PacketLen <- LengthsHere
  SubpacketMaxBytes = 2
  MaxSubpackets = 3
  MaxRetries = 1
  QueueSize = 2
  AppMasks <- WholeOnly
  MaxSignals = 1
  MaxFaults = 0
  MaxInits = 0
PROPERTIES
  GivesUpOnlyAfterRetries
CHECK_DEADLOCK FALSE
