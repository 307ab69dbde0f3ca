SPECIFICATION FairSpec
CONSTANTS
  m1 = m1
  Message = {m1, s1}
  Command = {s1}
  SizeOf <- ShortMessages
  IdOf <- OwnIds
  PacketSize = 4
  ChecksumSize = 1
  Worker = {w1}
  Stranger = {}
  NoMessage = NoMessage
  NoAcks = NoAcks
  NoPacket = NoPacket
  Capacity = 1
  Duplicates = FALSE
  SocketErrors = FALSE
  ClockRuns = FALSE
  LongRuns = FALSE
  EagerPops = 0
PROPERTIES
  EventuallyDelivered
  FailureHasCause
CHECK_DEADLOCK FALSE
