SPECIFICATION Spec
CONSTANTS
  m1 = m1
  Message = {m1}
  Command = {}
  SizeOf <- ShortMessages
  IdOf <- OwnIds
  PacketSize = 4
  ChecksumSize = 1
  Worker = {w1, w2}
  Stranger = {}
  NoMessage = NoMessage
  NoAcks = NoAcks
  NoPacket = NoPacket
  Capacity = 1
  Duplicates = FALSE
  SocketErrors = FALSE
  ClockRuns = FALSE
  LongRuns = FALSE
  EagerPops = 0
INVARIANTS
  NothingGivenUp
PROPERTIES
  KeepsPromise
SYMMETRY WorkerSymmetry
CHECK_DEADLOCK FALSE
