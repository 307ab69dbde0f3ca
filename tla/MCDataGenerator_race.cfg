SPECIFICATION Spec
CONSTANTS
  train = train
  val = val
  test = test
  Gen = {train}
  NoGen = NoGen
  Nbpp <- Batches
  BufferSize <- Buffers
  NumThreads <- Threads
  MaxBuffer = 2
  MaxThreads = 2
  Old = Old
  Torn = Torn
  Mixed = Mixed
INVARIANTS
  NoRepetitions
CHECK_DEADLOCK FALSE
