SPECIFICATION FairSpec
CONSTANTS
  None = none
  Worker = {w1, w2}
  FrameCount = 3
  MaxInFlight = 4
  Cancellable = TRUE
  JobsMayFail = FALSE
  ConsumerMayFail = FALSE
CHECK_DEADLOCK FALSE
PROPERTIES
  CancellationStopsRun
