SPECIFICATION FairSpec
CONSTANTS
  None = None
  Worker = {w1, w2}
  FrameCount = 5
  MaxInFlight = 2
  Cancellable = TRUE
  JobsMayFail = TRUE
  ConsumerMayFail = TRUE
CHECK_DEADLOCK FALSE
INVARIANTS
  PoolSafe
  BuffersBounded
PROPERTIES
  ImplementsOrderedDelivery
  RunReturns
