SPECIFICATION Spec
CONSTANTS
  Absent = Absent
  FrameCount = 3
  Batch = 2
  MaxRuns = 2
  Faults = TRUE
INVARIANTS
  SuccessMeansComplete
  CancellationHonoured
  TracksInStep
  MetadataTruthful
