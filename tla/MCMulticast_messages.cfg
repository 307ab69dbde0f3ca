SPECIFICATION Spec
CONSTANTS
  m1 = m1
  Message = {m1, m2}
  Command = {}
  SizeOf <- ShortMessages
  IdOf <- OwnIds
  PacketSize = 4
  ChecksumSize = 1
  Worker = {w1}
  Stranger = {}
  NoMessage = NoMessage
  NoAcks = NoAcks
  NoPacket = NoPacket
  Capacity = 2
  Duplicates = FALSE
  SocketErrors = TRUE
  ClockRuns = TRUE
  LongRuns = FALSE
  EagerPops = 0
INVARIANTS
  AcksAreReal
  AtMostOnce
  OrderKept
CHECK_DEADLOCK FALSE
