SPECIFICATION FairSpec
CONSTANTS
  w1 = w1
  g1 = g1
  g2 = g2
  Master = master
  Worker = {w1}
  Gradients = {g1, g2}
  OwnerOf <- FirstWorker
  IdOf <- OwnIds
  NoMessage = NoMessage
  Worlds <- TrainingAndClosing
  MaxOutput = 10
  MaxSignals = 1
INVARIANTS
  TypeOK
  AcksAreTrue
  KeptUntilAcknowledged
  InOnePlace
PROPERTIES
  GradientsArrive
  StoppingEnds
  WorkersShutDown
CHECK_DEADLOCK FALSE
