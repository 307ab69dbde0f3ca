SPECIFICATION Spec
CONSTANTS
  Architectures <- Programs
  Fill = {7}
INVARIANTS
  TypeOK
  SortsAreTopological
  TwinsMatch
  GradientsAreExact
  CrashHasCause
  DevicesStayClose
CHECK_DEADLOCK FALSE
