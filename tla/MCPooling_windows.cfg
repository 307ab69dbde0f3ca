SPECIFICATION Spec
CONSTANTS
  Layers <- PoolingLayers
  Batches = {1, 2}
INVARIANTS
  OutputsInPlace
  CoversInput
  BuffersFit
  CopiesAgree
CHECK_DEADLOCK FALSE
