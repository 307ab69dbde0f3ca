SPECIFICATION Spec
CONSTANTS
  m1 = m1
  Message = {m1, m2}
  Command = {}
  SizeOf <- MixedMessages
  IdOf <- SharedIds
  PacketSize = 4
  ChecksumSize = 1
  Worker = {w1}
  Stranger = {}
  NoMessage = NoMessage
  NoAcks = NoAcks
  NoPacket = NoPacket
  Capacity = 1
  Duplicates = FALSE
  SocketErrors = FALSE
  ClockRuns = TRUE
  LongRuns = TRUE
  EagerPops = 1
PROPERTIES
  IntactDelivery
CHECK_DEADLOCK FALSE
