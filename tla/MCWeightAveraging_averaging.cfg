SPECIFICATION FairSpec
CONSTANTS
  N = 3
  P = 2
  Programs <- TwoFitPrograms
INVARIANTS
  CollectivesMatch
  DriftIsBounded
  CrashHasCause
PROPERTIES
  TrainingEnds
CHECK_DEADLOCK FALSE
