SPECIFICATION ClockedSpec
CONSTANTS
  m1 = m1
  Message = {m1}
  Command = {}
  SizeOf <- ShortMessages
  IdOf <- OwnIds
  PacketSize = 4
  ChecksumSize = 1
  Worker = {w1}
  Stranger = {x1}
  NoMessage = NoMessage
  NoAcks = NoAcks
  NoPacket = NoPacket
  Capacity = 1
  Duplicates = TRUE
  SocketErrors = FALSE
  ClockRuns = TRUE
  LongRuns = FALSE
  EagerPops = 0
INVARIANTS
  CountersAgree
PROPERTIES
  SendReturns
CHECK_DEADLOCK FALSE
