CONSTANTS
  Long = Long
  Short = Short
  Invalid = Invalid
  None = None
  Projects <- AllProjects
  OutputFrames <- FrameTotals
  FirstFrames <- SectionStarts
  Capacity = 2
  SynthesisMayFail = FALSE
  MaxEdits = 2
SPECIFICATION Spec
INVARIANT PreviewConsistent
PROPERTY PreviewCatchesUp
