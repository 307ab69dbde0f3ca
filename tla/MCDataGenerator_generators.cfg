SPECIFICATION FairSpec
CONSTANTS
  train = train
  val = val
  test = test
  Gen = {train, val, test}
  NoGen = NoGen
  Nbpp <- Batches
  BufferSize <- Buffers
  NumThreads <- Threads
  MaxBuffer = 3
  MaxThreads = 2
  Old = Old
  Torn = Torn
  Mixed = Mixed
INVARIANTS
  BuffersExist
  BuffersAreAccountedFor
  CopyIsAlone
PROPERTIES
  StreamIsKept
  CallsReturn
CHECK_DEADLOCK FALSE
