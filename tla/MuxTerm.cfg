SPECIFICATION Spec
CONSTANTS
  MaxGen = 2
  MaxPane = 2
  MaxOut = 2
  MaxFault = 1
  MaxCall = 3
  Overlap = FALSE
INVARIANTS   DrainedBeforeEnd
PROPERTIES ClosedOnlyByUser ScreenCatchesUp
CHECK_DEADLOCK FALSE
