SPECIFICATION PatientSpec
CONSTANTS
  a = a
  b = b
  c = c
  s1 = s1
  None = None
  Packet = {a}
  Sender = {s1}
  Owner <- OneOwner
  PacketId <- OwnId
  PacketLen <- LengthsHere
  SubpacketMaxBytes = 2
  MaxSubpackets = 3
  MaxRetries = 4
  QueueSize = 2
  AppMasks <- WholeOnly
  MaxSignals = 1
  MaxFaults = 2
  MaxInits = 2
PROPERTIES
  ReceptionCompletes
CHECK_DEADLOCK FALSE
